------------------------------ MODULE MetaProofs ------------------------------
(***************************************************************************)
(* Proofs about the metadata service: the types, the agreement of the name *)
(* server's two tables, the data servers its files go to; and about its    *)
(* clients, that what they read on a connection they share is theirs, and  *)
(* that lookups and deletions through threads that interleave implement    *)
(* one table; and, with the data servers, that an id stands for one of     *)
(* them for ever.                                                          *)
(***************************************************************************)
EXTENDS MetaStore, FiniteSetTheorems, SequenceTheorems, TLAPS

\* The ids of recorded files are finitely many, so SendAllInfo can count them.
LEMMA FilesFinite ==
    ASSUME TypeInv
    PROVE  ItemNum \in Nat
<1>1. fileidcounter - 1 \in Int /\ 0 \in Int
  BY DEF TypeInv, TypeOK, TablesOK
<1>2. IsFiniteSet(0..(fileidcounter - 1))
  BY <1>1, FS_Interval
<1>3. DOMAIN files \in SUBSET (0..(fileidcounter - 1))
  BY DEF TypeInv, TypeOK, TablesOK
<1>4. IsFiniteSet(DOMAIN files)
  BY <1>2, <1>3, FS_Subset
<1> QED BY <1>4, FS_CardinalityType DEF ItemNum

\* An update of a table, and what is left when a key is taken out.
LEMMA PutIs ==
    ASSUME NEW f, NEW x, NEW y
    PROVE  /\ DOMAIN Put(f, x, y) = DOMAIN f \cup {x}
           /\ Put(f, x, y)[x] = y
           /\ \A z \in DOMAIN f : z # x => Put(f, x, y)[z] = f[z]
           /\ Range(Put(f, x, y)) \subseteq Range(f) \cup {y}
BY DEF Put, Range

\* What Without removes is the one value.
LEMMA WithoutIs ==
    ASSUME NEW f, NEW x
    PROVE  /\ DOMAIN Without(f, x) = DOMAIN f \ {x}
           /\ \A z \in DOMAIN f : z # x => Without(f, x)[z] = f[z]
           /\ Range(Without(f, x)) \subseteq Range(f)
BY DEF Without, Restrict, Range

\* The empty location is one.
LEMMA NoFlocType == NoFloc \in Floc
BY DEF NoFloc, Floc

\* Changing the fields of a location that FindFile fills in.
LEMMA FlocChange ==
    ASSUME NEW m \in Floc
    PROVE  /\ \A n \in Int : [m EXCEPT !.fd = n] \in Floc
           /\ \A s \in Servers : [m EXCEPT !.server = s] \in Floc
BY DEF Floc

\* A message with a location, or with a count.
LEMMA MsgType ==
    ASSUME NEW m \in Floc, NEW n \in Nat,
           NEW t \in {"FILELOCATION", "DELETEFILE", "ALLINFORMATION"}
    PROVE  [type |-> t, floc |-> m, num |-> n] \in Msg
BY DEF Msg

\* Reading and writing a connection.
LEMMA QueueType ==
    ASSUME NEW q \in [Conns -> Seq(Msg)], NEW c \in Conns
    PROVE  /\ \A m \in Msg : [q EXCEPT ![c] = Append(@, m)] \in [Conns -> Seq(Msg)]
           /\ q[c] # <<>> =>
                 /\ Head(q[c]) \in Msg
                 /\ [q EXCEPT ![c] = Tail(@)] \in [Conns -> Seq(Msg)]
<1>1. q[c] \in Seq(Msg)
  OBVIOUS
<1>2. \A m \in Msg : Append(q[c], m) \in Seq(Msg)
  BY <1>1
<1>3. q[c] # <<>> => Head(q[c]) \in Msg /\ Tail(q[c]) \in Seq(Msg)
  BY <1>1
<1> QED BY <1>2, <1>3

\* Initially everything has its type.
LEMMA TypeInit == Init => TypeInv
<1> SUFFICES ASSUME Init PROVE TypeInv
  OBVIOUS
<1> USE DEF Init, NsInit
<1>1. TypeOK
  BY NoFlocType, MetaAssumption, UserAssumption
  DEF TypeOK, TablesOK, ThreadsOK, UsersOK, Range
<1>2. RequestInv
  BY DEF RequestInv, AboutFile, InLock
<1>3. IdInv
  BY DEF IdInv
<1> QED BY <1>1, <1>2, <1>3 DEF TypeInv

\* message_process reads a request.
LEMMA ReadType ==
    ASSUME TypeInv, NEW c \in Conns, ReadRequest(c), UNCHANGED uservars
    PROVE  TypeInv'
<1> USE DEF TypeInv, TypeOK, uservars, tables, threads, ReadRequest, Goto, HandlerOf
<1>a. toNs[c] \in Seq(Msg) /\ toNs[c] # <<>>
  BY DEF ThreadsOK
<1>b. PICK m : m = Head(toNs[c])
  OBVIOUS
<1>c. m \in Msg /\ m.floc \in Floc /\ m = toNs[c][1] /\ 1 \in 1..Len(toNs[c])
  <2>1. m = toNs[c][1] /\ 1 \in 1..Len(toNs[c])
    BY <1>a, <1>b
  <2>2. m \in Msg
    BY <1>a, <2>1
  <2> QED BY <2>1, <2>2 DEF Msg
<1>d. /\ nsFloc' = [nsFloc EXCEPT ![c] = m.floc]
      /\ nsAt' = [nsAt EXCEPT ![c] = HandlerOf(m.type)]
  BY <1>b
<1>e. toNs' \in [Conns -> Seq(Msg)]
  BY <1>a, QueueType DEF ThreadsOK
<1>f. \A d \in Conns, i \in Nat \ {0} : i <= Len(toNs'[d]) =>
          \/ i <= Len(toNs[d]) /\ toNs'[d][i] = toNs[d][i]
          \/ i + 1 <= Len(toNs[d]) /\ toNs'[d][i] = toNs[d][i + 1]
  <2> SUFFICES ASSUME NEW d \in Conns, NEW i \in Nat \ {0}, i <= Len(toNs'[d])
               PROVE  \/ i <= Len(toNs[d]) /\ toNs'[d][i] = toNs[d][i]
                      \/ i + 1 <= Len(toNs[d]) /\ toNs'[d][i] = toNs[d][i + 1]
    OBVIOUS
  <2>1. CASE d = c
    <3>1. PICK q \in Seq(Msg) : q = toNs[c]
      BY <1>a
    <3>2. toNs'[d] = Tail(q) /\ q # <<>>
      BY <2>1, <3>1, <1>a DEF ThreadsOK
    <3>3. i + 1 <= Len(q) /\ Tail(q)[i] = q[i + 1]
      BY <3>2
    <3> QED BY <2>1, <3>1, <3>2, <3>3
  <2>2. CASE d # c
    <3>1. toNs'[d] = toNs[d]
      BY <2>2 DEF ThreadsOK
    <3> QED BY <3>1
  <2> QED BY <2>1, <2>2
<1>g. \A d \in Conns, i \in Nat \ {0} : i <= Len(toNs[d]) =>
          (toNs[d][i].type # "ALLINFORMATION" => toNs[d][i].floc.file \in Files)
  BY DEF RequestInv, ThreadsOK
<1>h. \A d \in Conns, i \in Nat \ {0} : i <= Len(toNs'[d]) =>
          (toNs'[d][i].type # "ALLINFORMATION" => toNs'[d][i].floc.file \in Files)
  BY <1>f, <1>g
<1>1. TablesOK'
  BY DEF TablesOK, ThreadsOK, IdInv
<1>2. ThreadsOK'
  BY <1>c, <1>d, <1>e DEF TablesOK, ThreadsOK
<1>3. UsersOK'
  BY DEF UsersOK
<1>4. RequestInv'
  <2>1. \A d \in Conns : \A i \in 1..Len(toNs'[d]) :
            toNs'[d][i].type # "ALLINFORMATION" => toNs'[d][i].floc.file \in Files
    BY <1>e, <1>h
  <2>2. m.type # "ALLINFORMATION" => m.floc.file \in Files
    BY <1>c DEF RequestInv
  <2>3. HandlerOf(m.type) \in AboutFile => m.type # "ALLINFORMATION"
    BY <1>c DEF Msg, AboutFile, InLock
  <2>4. \A d \in Conns : nsAt'[d] \in AboutFile => nsFloc'[d].file \in Files
    BY <1>d, <2>2, <2>3 DEF RequestInv, ThreadsOK
  <2> QED BY <2>1, <2>4 DEF RequestInv
<1>5. IdInv'
  BY DEF IdInv, TablesOK, ThreadsOK
<1> QED BY <1>1, <1>2, <1>3, <1>4, <1>5

\* A thread takes floc_lock.
LEMMA LockType ==
    ASSUME TypeInv, NEW c \in Conns, TakeLock(c), UNCHANGED uservars
    PROVE  TypeInv'
<1> USE DEF TypeInv, TypeOK, uservars, tables, threads, TakeLock, Goto, Locked
<1>1. TablesOK'
  BY DEF TablesOK, ThreadsOK, IdInv
<1>2. ThreadsOK'
  BY DEF TablesOK, ThreadsOK, Range
<1>3. UsersOK'
  BY DEF UsersOK
<1>4. RequestInv'
  BY DEF RequestInv, ThreadsOK, AboutFile, InLock
<1>5. IdInv'
  BY DEF IdInv, TablesOK, ThreadsOK, Range
<1> QED BY <1>1, <1>2, <1>3, <1>4, <1>5

\* FindFile looks up or takes an id.
LEMMA MapType ==
    ASSUME TypeInv, NEW c \in Conns, MapFile(c), UNCHANGED uservars
    PROVE  TypeInv'
<1> USE DEF TypeInv, TypeOK, uservars, tables, threads, MapFile, Goto, NewId
<1> DEFINE f == nsFloc[c].file
           n == idmap'[f]
<1>a. f \in Files
  BY DEF RequestInv, AboutFile, InLock
<1>b. \A g \in DOMAIN idmap : idmap[g] \in Nat
  BY DEF TablesOK, Range
<1>c. /\ DOMAIN idmap' \subseteq Files
      /\ \A g \in DOMAIN idmap' : idmap'[g] \in Nat /\ idmap'[g] < fileidcounter'
      /\ n \in Nat /\ n < fileidcounter'
      /\ fileidcounter' \in Nat /\ fileidcounter <= fileidcounter'
  BY <1>a, <1>b DEF Put, IdInv, TablesOK
<1>d. [nsFloc[c] EXCEPT !.fd = n] \in Floc
  BY <1>c, FlocChange DEF ThreadsOK
<1>e. nsFloc' = [nsFloc EXCEPT ![c] = [nsFloc[c] EXCEPT !.fd = n]]
  OBVIOUS
<1>f. Range(idmap') \subseteq Nat
  BY <1>c DEF Range
<1>g. nsFloc'[c].fd = n /\ nsFloc'[c].file = f
  BY <1>a, <1>e DEF ThreadsOK, Floc
<1> HIDE DEF f, n
<1>1. TablesOK'
  BY <1>c, <1>f DEF TablesOK, ThreadsOK, IdInv
<1>2. ThreadsOK'
  BY <1>d, <1>e DEF TablesOK, ThreadsOK
<1>3. UsersOK'
  BY DEF UsersOK
<1>4. RequestInv'
  BY <1>a, <1>g DEF RequestInv, ThreadsOK, AboutFile, InLock
<1>5. IdInv'
  <2>1. \A d \in Conns : nsAt'[d] = "place" =>
            nsFloc'[d].fd >= 0 /\ nsFloc'[d].fd < fileidcounter'
    <3> TAKE d \in Conns
    <3>1. CASE d = c
      BY <3>1, <1>c, <1>g
    <3>2. CASE d # c
      <4>1. nsAt'[d] = nsAt[d] /\ nsFloc'[d] = nsFloc[d] /\ nsFloc[d].fd \in Int
        BY <3>2, <1>e DEF ThreadsOK, Floc
      <4>2. nsAt[d] = "place" =>
                nsFloc[d].fd >= 0 /\ nsFloc[d].fd < fileidcounter
        BY DEF IdInv
      <4>3. fileidcounter \in Nat
        BY DEF TablesOK
      <4> HIDE DEF MapFile
      <4> QED BY <4>1, <4>2, <4>3, <1>c
    <3> QED BY <3>1, <3>2
  <2> QED BY <1>c, <2>1 DEF IdInv
<1> QED BY <1>1, <1>2, <1>3, <1>4, <1>5

\* FindFile finds or chooses the place.
LEMMA PlaceType ==
    ASSUME TypeInv, NEW c \in Conns, PlaceFile(c), UNCHANGED uservars
    PROVE  TypeInv'
<1> USE DEF TypeInv, TypeOK, uservars, tables, threads, PlaceFile, Goto, NextServer
<1> DEFINE id == nsFloc[c].fd
           m == files'[id]
<1>a. id \in Nat /\ id < fileidcounter
  BY DEF IdInv, ThreadsOK, Floc
<1>b. \A i \in DOMAIN files : files[i] \in Floc
  BY DEF TablesOK, Range
<1>c. /\ DOMAIN files' \subseteq 0..(fileidcounter - 1)
      /\ \A i \in DOMAIN files' : files'[i] \in Floc
      /\ m \in Floc
      /\ currentSvr' \in Nat /\ (currentSvr' = 0 \/ currentSvr' < Len(srvs))
  <2>1. CASE id \in DOMAIN files
    BY <2>1, <1>b DEF TablesOK
  <2>2. CASE id \notin DOMAIN files
    <3>1. srvs \in Seq(Servers) /\ Len(srvs) \in Nat \ {0} /\ currentSvr + 1 \in 1..Len(srvs)
      BY <2>2 DEF TablesOK
    <3>2. PICK w : w = [nsFloc[c] EXCEPT !.server = srvs[currentSvr + 1]]
      OBVIOUS
    <3>3. w \in Floc
      BY <3>1, <3>2, FlocChange DEF ThreadsOK
    <3>4. files' = Put(files, id, w)
      BY <2>2, <3>2
    <3>5. DOMAIN files' \subseteq 0..(fileidcounter - 1)
      BY <3>4, <1>a DEF Put, TablesOK
    <3>6. \A i \in DOMAIN files' : files'[i] \in Floc
      BY <3>3, <3>4, <1>b DEF Put
    <3>7. m \in Floc
      BY <3>3, <3>4 DEF Put
    <3>8. currentSvr' \in Nat /\ currentSvr' < Len(srvs)
      BY <2>2, <3>1 DEF TablesOK
    <3> QED BY <3>5, <3>6, <3>7, <3>8
  <2> QED BY <2>1, <2>2
<1>d. nsFloc' = [nsFloc EXCEPT ![c] = m]
  OBVIOUS
<1>e. Range(files') \subseteq Floc
  BY <1>c DEF Range
<1> HIDE DEF id, m
<1>1. TablesOK'
  BY <1>c, <1>e DEF TablesOK, ThreadsOK, IdInv
<1>2. ThreadsOK'
  BY <1>c, <1>d DEF TablesOK, ThreadsOK
<1>3. UsersOK'
  BY DEF UsersOK
<1>4. RequestInv'
  BY DEF RequestInv, ThreadsOK, AboutFile, InLock
<1>5. IdInv'
  BY DEF IdInv, TablesOK, ThreadsOK
<1> QED BY <1>1, <1>2, <1>3, <1>4, <1>5

\* FindFile answers.
LEMMA LocationType ==
    ASSUME TypeInv, NEW c \in Conns, SendLocation(c), UNCHANGED uservars
    PROVE  TypeInv'
<1> USE DEF TypeInv, TypeOK, uservars, tables, threads, SendLocation, Goto, Reply, Write, Return
<1>a. [type |-> "FILELOCATION", floc |-> nsFloc[c], num |-> 0] \in Msg
  BY MsgType DEF ThreadsOK
<1>b. toClient' \in [Conns -> Seq(Msg)]
  BY <1>a, QueueType DEF ThreadsOK
<1>1. TablesOK'
  BY DEF TablesOK, ThreadsOK, IdInv
<1>2. ThreadsOK'
  BY <1>b, NoFlocType DEF TablesOK, ThreadsOK
<1>3. UsersOK'
  BY DEF UsersOK
<1>4. RequestInv'
  BY DEF RequestInv, ThreadsOK, AboutFile, InLock
<1>5. IdInv'
  BY DEF IdInv, TablesOK, ThreadsOK
<1> QED BY <1>1, <1>2, <1>3, <1>4, <1>5

\* DeleteFile finds no id.
LEMMA UnknownType ==
    ASSUME TypeInv, NEW c \in Conns, DeleteUnknown(c), UNCHANGED uservars
    PROVE  TypeInv'
<1> USE DEF TypeInv, TypeOK, uservars, tables, threads, DeleteUnknown, Goto, Return
<1>1. TablesOK'
  BY DEF TablesOK, ThreadsOK, IdInv
<1>2. ThreadsOK'
  BY NoFlocType DEF TablesOK, ThreadsOK, Range
<1>3. UsersOK'
  BY DEF UsersOK
<1>4. RequestInv'
  BY DEF RequestInv, ThreadsOK, AboutFile, InLock
<1>5. IdInv'
  BY DEF IdInv, TablesOK, ThreadsOK, Range
<1> QED BY <1>1, <1>2, <1>3, <1>4, <1>5

\* DeleteFile takes the id out.
LEMMA UnmapType ==
    ASSUME TypeInv, NEW c \in Conns, UnmapFile(c), UNCHANGED uservars
    PROVE  TypeInv'
<1> USE DEF TypeInv, TypeOK, uservars, tables, threads, UnmapFile, Goto
<1> DEFINE f == nsFloc[c].file
           n == idmap[f]
<1>a. n \in Nat
  BY DEF TablesOK, Range
<1>b. /\ DOMAIN idmap' \subseteq DOMAIN idmap
      /\ \A g \in DOMAIN idmap' : idmap'[g] = idmap[g]
  BY DEF Without, Restrict
<1>c. nsFloc' = [nsFloc EXCEPT ![c] = [nsFloc[c] EXCEPT !.fd = n]]
  OBVIOUS
<1>d. [nsFloc[c] EXCEPT !.fd = n] \in Floc
  BY <1>a, FlocChange DEF ThreadsOK
<1>e. Range(idmap') \subseteq Nat
  BY <1>b DEF Range, TablesOK
<1>f. nsFloc'[c].file = f
  BY <1>c DEF ThreadsOK, Floc
<1> HIDE DEF f, n
<1>1. TablesOK'
  BY <1>b, <1>e DEF TablesOK, ThreadsOK, IdInv
<1>2. ThreadsOK'
  BY <1>c, <1>d DEF TablesOK, ThreadsOK
<1>3. UsersOK'
  BY DEF UsersOK
<1>4. RequestInv'
  BY <1>f DEF RequestInv, ThreadsOK, AboutFile, InLock
<1>5. IdInv'
  BY <1>b, <1>c DEF IdInv, TablesOK, ThreadsOK
<1> QED BY <1>1, <1>2, <1>3, <1>4, <1>5

\* DeleteFile takes the place out.
LEMMA EraseType ==
    ASSUME TypeInv, NEW c \in Conns, EraseFile(c), UNCHANGED uservars
    PROVE  TypeInv'
<1> USE DEF TypeInv, TypeOK, uservars, tables, threads, EraseFile, Goto, Erased, Return
<1>a. /\ DOMAIN files' \subseteq DOMAIN files
      /\ Range(files') \subseteq Range(files)
  BY WithoutIs
<1>1. TablesOK'
  BY <1>a DEF TablesOK, ThreadsOK, IdInv
<1>2. ThreadsOK'
  BY NoFlocType DEF TablesOK, ThreadsOK
<1>3. UsersOK'
  BY DEF UsersOK
<1>4. RequestInv'
  BY DEF RequestInv, ThreadsOK, AboutFile, InLock
<1>5. IdInv'
  BY DEF IdInv, TablesOK, ThreadsOK
<1> QED BY <1>1, <1>2, <1>3, <1>4, <1>5

\* SendAllInfo announces its records.
LEMMA CountType ==
    ASSUME TypeInv, NEW c \in Conns, SendCount(c), UNCHANGED uservars
    PROVE  TypeInv'
<1> USE DEF TypeInv, TypeOK, uservars, tables, threads, SendCount, Goto, Write
<1>1. TablesOK'
  BY DEF TablesOK, ThreadsOK, IdInv
<1>2. ThreadsOK'
  BY FilesFinite, MsgType, NoFlocType, QueueType DEF TablesOK, ThreadsOK, Range
<1>3. UsersOK'
  BY DEF UsersOK
<1>4. RequestInv'
  BY DEF RequestInv, ThreadsOK, AboutFile, InLock
<1>5. IdInv'
  BY DEF IdInv, TablesOK, ThreadsOK, Range
<1> QED BY <1>1, <1>2, <1>3, <1>4, <1>5

\* SendAllInfo starts.
LEMMA BeginType ==
    ASSUME TypeInv, NEW c \in Conns, BeginWalk(c), UNCHANGED uservars
    PROVE  TypeInv'
<1> USE DEF TypeInv, TypeOK, uservars, tables, threads, BeginWalk, Goto, Advance, Return
<1>a. \A id \in DOMAIN files : files[id] \in Floc /\ id \in Int
  BY DEF TablesOK, Range
<1>b. \/ /\ nsFloc' = [nsFloc EXCEPT ![c] = NoFloc]
         /\ nsIt' = [nsIt EXCEPT ![c] = -1]
         /\ nsAt' = [nsAt EXCEPT ![c] = "read"]
      \/ \E id \in DOMAIN files :
            /\ nsFloc' = [nsFloc EXCEPT ![c] = files[id]]
            /\ nsIt' = [nsIt EXCEPT ![c] = id]
            /\ nsAt' = [nsAt EXCEPT ![c] = "send"]
  OBVIOUS
<1>1. TablesOK'
  BY DEF TablesOK, ThreadsOK, IdInv
<1>2. ThreadsOK'
  <2>1. nsFloc' \in [Conns -> Floc]
    BY <1>a, <1>b, NoFlocType DEF ThreadsOK
  <2>2. nsIt' \in [Conns -> Int]
    BY <1>a, <1>b DEF ThreadsOK
  <2>3. nsAt' \in [Conns -> {"read", "find", "delete", "map", "place", "found",
                             "unmap", "erase", "count", "begin", "send", "next"}]
    BY <1>b DEF ThreadsOK
  <2> QED BY <2>1, <2>2, <2>3 DEF ThreadsOK
<1>3. UsersOK'
  BY DEF UsersOK
<1>4. RequestInv'
  BY DEF RequestInv, ThreadsOK, AboutFile, InLock
<1>5. IdInv'
  BY DEF IdInv, TablesOK, ThreadsOK
<1> QED BY <1>1, <1>2, <1>3, <1>4, <1>5

\* SendAllInfo sends a record.
LEMMA RecordType ==
    ASSUME TypeInv, NEW c \in Conns, SendRecord(c), UNCHANGED uservars
    PROVE  TypeInv'
<1> USE DEF TypeInv, TypeOK, uservars, tables, threads, SendRecord, Goto, Reply, Write
<1>1. TablesOK'
  BY DEF TablesOK, ThreadsOK, IdInv
<1>2. ThreadsOK'
  BY MsgType, QueueType DEF TablesOK, ThreadsOK, Range
<1>3. UsersOK'
  BY DEF UsersOK
<1>4. RequestInv'
  BY DEF RequestInv, ThreadsOK, AboutFile, InLock
<1>5. IdInv'
  BY DEF IdInv, TablesOK, ThreadsOK, Range
<1> QED BY <1>1, <1>2, <1>3, <1>4, <1>5

\* SendAllInfo goes on.
LEMMA NextType ==
    ASSUME TypeInv, NEW c \in Conns, NextRecord(c), UNCHANGED uservars
    PROVE  TypeInv'
<1> USE DEF TypeInv, TypeOK, uservars, tables, threads, NextRecord, Goto, Advance, Return
<1>a. \A id \in DOMAIN files : files[id] \in Floc /\ id \in Int
  BY DEF TablesOK, Range
<1>b. \/ /\ nsFloc' = [nsFloc EXCEPT ![c] = NoFloc]
         /\ nsIt' = [nsIt EXCEPT ![c] = -1]
         /\ nsAt' = [nsAt EXCEPT ![c] = "read"]
      \/ \E id \in DOMAIN files :
            /\ nsFloc' = [nsFloc EXCEPT ![c] = files[id]]
            /\ nsIt' = [nsIt EXCEPT ![c] = id]
            /\ nsAt' = [nsAt EXCEPT ![c] = "send"]
  OBVIOUS
<1>1. TablesOK'
  BY DEF TablesOK, ThreadsOK, IdInv
<1>2. ThreadsOK'
  <2>1. nsFloc' \in [Conns -> Floc]
    BY <1>a, <1>b, NoFlocType DEF ThreadsOK
  <2>2. nsIt' \in [Conns -> Int]
    BY <1>a, <1>b DEF ThreadsOK
  <2>3. nsAt' \in [Conns -> {"read", "find", "delete", "map", "place", "found",
                             "unmap", "erase", "count", "begin", "send", "next"}]
    BY <1>b DEF ThreadsOK
  <2> QED BY <2>1, <2>2, <2>3 DEF ThreadsOK
<1>3. UsersOK'
  BY DEF UsersOK
<1>4. RequestInv'
  BY DEF RequestInv, ThreadsOK, AboutFile, InLock
<1>5. IdInv'
  BY DEF IdInv, TablesOK, ThreadsOK
<1> QED BY <1>1, <1>2, <1>3, <1>4, <1>5

\* DSRegister adds a server.
LEMMA RegisterType ==
    ASSUME TypeInv, NEW v \in Servers, RegisterServer(v), UNCHANGED uservars
    PROVE  TypeInv'
<1> USE DEF TypeInv, TypeOK, uservars, threads, RegisterServer
<1>1. TablesOK'
  BY DEF TablesOK
<1>2. ThreadsOK' /\ UsersOK'
  BY DEF ThreadsOK, UsersOK
<1>3. RequestInv' /\ IdInv'
  BY DEF RequestInv, IdInv
<1> QED BY <1>1, <1>2, <1>3

-----------------------------------------------------------------------------
\* A user step that leaves the threads of the name server alone keeps the types
\* when the user's own variables and the queues have theirs.
LEMMA UserFrame ==
    ASSUME TypeInv, UNCHANGED <<tables, flocLock, threads>>, UsersOK',
           toNs' \in [Conns -> Seq(Msg)], toClient' \in [Conns -> Seq(Msg)],
           RequestInv'
    PROVE  TypeInv'
<1> USE DEF TypeInv, TypeOK, tables, threads
<1>1. TablesOK'
  BY DEF TablesOK
<1>2. ThreadsOK'
  BY DEF ThreadsOK
<1>3. IdInv'
  BY DEF IdInv
<1> QED BY <1>1, <1>2, <1>3

\* A command is given.
LEMMA CommandType ==
    ASSUME TypeInv, NEW u \in Users, Command(u)
    PROVE  TypeInv'
<1>1. PICK cmd, f, n : Give(u, cmd, f, n) /\ cmd \in {"touch", "stat", "rm", "cluster"}
                       /\ f \in Files \cup {NoFile} /\ n \in Nat
                       /\ (cmd # "cluster" => f \in Files)
  BY MetaAssumption DEF Command
<1>2. PICK m : m = [NoFloc EXCEPT !.file = f, !.len = n]
  OBVIOUS
<1>3. m \in Floc /\ m.file = f
  <2>1. m = [file |-> f, fd |-> -1, server |-> NoServer, len |-> n]
    BY <1>2 DEF NoFloc
  <2> QED BY <1>1, <2>1 DEF Floc
<1>4. /\ request' = [request EXCEPT ![u] = m]
      /\ command' = [command EXCEPT ![u] = cmd]
      /\ userAt' = [userAt EXCEPT ![u] = "ask"]
      /\ given' = given + 1
      /\ UNCHANGED <<nsvars, socketLock, userFloc, records>>
  BY <1>1, <1>2 DEF Give, UserGoto
<1> USE DEF TypeInv, TypeOK
<1>5. UsersOK'
  BY <1>1, <1>3, <1>4 DEF UsersOK
<1>6. RequestInv'
  <2>1. \A v \in Users : /\ userAt'[v] = "ask" /\ command'[v] # "cluster" =>
                                request'[v].file \in Files
                         /\ userAt'[v] = "list" => records'[v] > 0
    BY <1>1, <1>3, <1>4 DEF RequestInv, UsersOK
  <2> QED BY <1>4, <2>1 DEF RequestInv, nsvars, threads
<1> QED BY <1>4, <1>5, <1>6, UserFrame DEF nsvars, ThreadsOK

\* A request is written.
LEMMA AskType ==
    ASSUME TypeInv, NEW u \in Users, Ask(u)
    PROVE  TypeInv'
<1> DEFINE c == ConnOf[u]
           t == TypeOf(command[u])
           m == [type |-> t, floc |-> request[u], num |-> 0]
<1> USE DEF TypeInv, TypeOK
<1>1. c \in Conns
  BY UserAssumption
<1>2. m \in Msg
  <2>1. t \in {"FILELOCATION", "DELETEFILE", "ALLINFORMATION"}
    BY DEF TypeOf
  <2> HIDE DEF t
  <2> QED BY <2>1, MsgType DEF UsersOK
<1>3. m.type # "ALLINFORMATION" => m.floc.file \in Files
  BY DEF Ask, RequestInv, TypeOf
<1>4. toNs' = [toNs EXCEPT ![c] = Append(@, m)]
  BY DEF Ask
<1> HIDE DEF m, t
<1>5. toNs' \in [Conns -> Seq(Msg)]
  BY <1>1, <1>2, <1>4, QueueType DEF ThreadsOK
<1>6. UsersOK'
  BY <1>1, NoFlocType DEF Ask, Done, UserGoto, UsersOK
<1>7. RequestInv'
  <2>1. \A d \in Conns : \A i \in 1..Len(toNs'[d]) :
            toNs'[d][i].type # "ALLINFORMATION" => toNs'[d][i].floc.file \in Files
    <3> TAKE d \in Conns
    <3>1. CASE d = c
      <4>1. PICK q \in Seq(Msg) : q = toNs[c]
        BY <1>1 DEF ThreadsOK
      <4>2. toNs'[d] = Append(q, m)
        BY <3>1, <1>1, <1>4, <4>1 DEF ThreadsOK
      <4>3. \A i \in 1..Len(q) : q[i].type # "ALLINFORMATION" => q[i].floc.file \in Files
        BY <1>1, <4>1 DEF RequestInv
      <4> QED BY <4>2, <4>3, <1>3
    <3>2. CASE d # c
      <4>1. toNs'[d] = toNs[d]
        BY <3>2, <1>4 DEF ThreadsOK
      <4> QED BY <4>1 DEF RequestInv
    <3> QED BY <3>1, <3>2
  <2>2. \A v \in Users : /\ userAt'[v] = "ask" => userAt[v] = "ask" /\ v # u
                         /\ userAt'[v] = "list" => userAt[v] = "list" /\ v # u
                         /\ v # u => command'[v] = command[v] /\ request'[v] = request[v]
    BY DEF Ask, Done, UserGoto, UsersOK
  <2>3. UNCHANGED <<records, nsAt, nsFloc>>
    BY DEF Ask, threads
  <2> QED BY <2>1, <2>2, <2>3 DEF RequestInv
<1>8. UNCHANGED <<tables, flocLock, threads, toClient>>
  BY DEF Ask
<1> QED BY <1>5, <1>6, <1>7, <1>8, UserFrame DEF ThreadsOK

\* What a user reads is a message, and the rest stays a queue.
LEMMA TakeTypes ==
    ASSUME TypeInv, NEW u \in Users, Take(u)
    PROVE  /\ Taken(u) \in Msg
           /\ toClient' \in [Conns -> Seq(Msg)]
           /\ UNCHANGED <<tables, flocLock, threads, toNs>>
<1>1. ConnOf[u] \in Conns /\ toClient \in [Conns -> Seq(Msg)]
  BY UserAssumption DEF TypeInv, TypeOK, ThreadsOK
<1> QED BY <1>1, QueueType DEF Take, Taken

\* The requests of other users and of the threads do not change when a user
\* reads, and he has no new one.
LEMMA TakeRequests ==
    ASSUME TypeInv, NEW u \in Users, UNCHANGED <<threads, toNs>>,
           \A v \in Users \ {u} :
               /\ userAt'[v] = userAt[v] /\ command'[v] = command[v]
               /\ request'[v] = request[v] /\ records'[v] = records[v],
           userAt'[u] # "ask", userAt'[u] = "list" => records'[u] > 0
    PROVE  RequestInv'
BY DEF TypeInv, RequestInv, threads

\* The end of a command.
LEMMA DoneType ==
    ASSUME TypeInv, NEW u \in Users, Done(u)
    PROVE  /\ userAt' \in [Users -> {"idle", "ask", "wait", "transfer", "list"}]
           /\ command' \in [Users -> {"none", "touch", "stat", "rm", "cluster"}]
           /\ request' \in [Users -> Floc]
           /\ userFloc' \in [Users -> Floc]
           /\ userAt'[u] = "idle"
           /\ \A v \in Users \ {u} : /\ userAt'[v] = userAt[v]
                                     /\ command'[v] = command[v]
                                     /\ request'[v] = request[v]
BY NoFlocType DEF TypeInv, TypeOK, UsersOK, Done, UserGoto

\* The location arrives.
LEMMA TakeLocationType ==
    ASSUME TypeInv, NEW u \in Users, TakeLocation(u)
    PROVE  TypeInv'
<1>1. /\ Taken(u) \in Msg
      /\ toClient' \in [Conns -> Seq(Msg)]
      /\ UNCHANGED <<tables, flocLock, threads, toNs>>
  BY TakeTypes DEF TakeLocation
<1>2. socketLock' \in [Conns -> Users \cup {Nobody}] /\ UNCHANGED <<records, given>>
  BY DEF TakeLocation, Release, TypeInv, TypeOK, UsersOK
<1>3. CASE Done(u)
  <2>1. UsersOK'
    BY <1>2, <1>3, DoneType DEF UsersOK, TypeInv, TypeOK
  <2>2. RequestInv'
    BY <1>1, <1>2, <1>3, DoneType, TakeRequests
  <2> QED BY <1>1, <2>1, <2>2, UserFrame DEF TypeInv, TypeOK, ThreadsOK
<1>4. CASE /\ userFloc' = [userFloc EXCEPT ![u] = Taken(u).floc]
           /\ UserGoto(u, "transfer")
           /\ UNCHANGED <<command, request>>
  <2>1. Taken(u).floc \in Floc
    BY <1>1 DEF Msg
  <2>2. UsersOK'
    BY <1>2, <1>4, <2>1 DEF UsersOK, UserGoto, TypeInv, TypeOK
  <2>3. userAt'[u] = "transfer" /\ \A v \in Users \ {u} : userAt'[v] = userAt[v]
    BY <1>4 DEF UserGoto, UsersOK, TypeInv, TypeOK
  <2>4. RequestInv'
    BY <1>1, <1>2, <1>4, <2>3, TakeRequests
  <2> QED BY <1>1, <2>2, <2>4, UserFrame DEF TypeInv, TypeOK, ThreadsOK
<1> QED BY <1>3, <1>4 DEF TakeLocation

\* The transfer is over.
LEMMA TransferType ==
    ASSUME TypeInv, NEW u \in Users, Transfer(u)
    PROVE  TypeInv'
<1>1. /\ Done(u)
      /\ UNCHANGED <<tables, flocLock, threads, toNs, toClient>>
      /\ UNCHANGED <<socketLock, records, given>>
  BY DEF Transfer, nsvars
<1>2. UsersOK'
  BY <1>1, DoneType DEF UsersOK, TypeInv, TypeOK
<1>3. RequestInv'
  BY <1>1, DoneType, TakeRequests
<1> QED BY <1>1, <1>2, <1>3, UserFrame DEF TypeInv, TypeOK, ThreadsOK

\* A count or a record of a listing arrives, n records are still expected.
LEMMA ListingType ==
    ASSUME TypeInv, NEW u \in Users, NEW n \in Nat, Take(u), Listing(u, n)
    PROVE  TypeInv'
<1>1. /\ toClient' \in [Conns -> Seq(Msg)]
      /\ UNCHANGED <<tables, flocLock, threads, toNs>>
  BY TakeTypes
<1>2. /\ records' \in [Users -> Nat] /\ records'[u] = n
      /\ \A v \in Users \ {u} : records'[v] = records[v]
      /\ given' \in Nat
  BY DEF Listing, TypeInv, TypeOK, UsersOK
<1>3. CASE n = 0
  <2>1. Done(u) /\ socketLock' \in [Conns -> Users \cup {Nobody}]
    BY <1>3 DEF Listing, Release, TypeInv, TypeOK, UsersOK
  <2>2. UsersOK'
    BY <1>2, <2>1, DoneType DEF UsersOK
  <2>3. RequestInv'
    BY <1>1, <1>2, <2>1, DoneType, TakeRequests
  <2> QED BY <1>1, <2>2, <2>3, UserFrame DEF TypeInv, TypeOK, ThreadsOK
<1>4. CASE n # 0
  <2>1. /\ UNCHANGED <<socketLock, command, request, userFloc>>
        /\ userAt' = [userAt EXCEPT ![u] = "list"]
    BY <1>4 DEF Listing, UserGoto
  <2>2. UsersOK'
    BY <1>2, <2>1 DEF UsersOK, TypeInv, TypeOK
  <2>3. userAt'[u] = "list" /\ \A v \in Users \ {u} : userAt'[v] = userAt[v]
    BY <2>1 DEF UsersOK, TypeInv, TypeOK
  <2>4. RequestInv'
    BY <1>1, <1>2, <1>4, <2>1, <2>3, TakeRequests
  <2> QED BY <1>1, <2>2, <2>4, UserFrame DEF TypeInv, TypeOK, ThreadsOK
<1> QED BY <1>3, <1>4

\* Every step of a user.
LEMMA UserStepType ==
    ASSUME TypeInv, NEW u \in Users, UserStep(u)
    PROVE  TypeInv'
<1>1. CASE TakeCount(u)
  <2>1. Taken(u).num \in Nat
    BY <1>1, TakeTypes DEF TakeCount, Msg
  <2> QED BY <1>1, <2>1, ListingType DEF TakeCount
<1>2. CASE TakeRecord(u)
  <2>1. StillExpected(u) \in Nat
    BY <1>2 DEF TakeRecord, StillExpected, TypeInv, TypeOK, UsersOK, RequestInv
  <2> QED BY <1>2, <2>1, ListingType DEF TakeRecord
<1> QED BY <1>1, <1>2, AskType, TakeLocationType, TransferType DEF UserStep

\* Every step of a thread of the name server.
LEMMA ThreadStepType ==
    ASSUME TypeInv, NEW c \in Conns, ThreadStep(c), UNCHANGED uservars
    PROVE  TypeInv'
BY ReadType, LockType, MapType, PlaceType, LocationType, UnknownType, UnmapType,
   EraseType, CountType, BeginType, RecordType, NextType DEF ThreadStep

\* Every step keeps the types.
LEMMA TypeNext == TypeInv /\ [Next]_vars => TypeInv'
<1> SUFFICES ASSUME TypeInv, [Next]_vars PROVE TypeInv'
  OBVIOUS
<1>1. CASE NsStep /\ UNCHANGED uservars
  BY <1>1, ThreadStepType, RegisterType DEF NsStep
<1>2. CASE \E u \in Users : UserStep(u) \/ Command(u)
  BY <1>2, UserStepType, CommandType
<1>3. CASE UNCHANGED vars
  BY <1>3 DEF vars, nsvars, uservars, tables, threads, TypeInv, TypeOK, TablesOK,
              ThreadsOK, UsersOK, RequestInv, IdInv
<1> QED BY <1>1, <1>2, <1>3 DEF Next

\* In every reachable state the tables, threads, connections and users have
\* their types: in particular FindFile's index into srvs is in bounds, and the
\* loop of GetClusterInfo never counts below zero.
THEOREM MetaTypes == Spec => []TypeOK
<1>1. Spec => []TypeInv
  BY TypeInit, TypeNext, PTL DEF Spec
<1>2. TypeInv => TypeOK
  BY DEF TypeInv
<1> QED BY <1>1, <1>2, PTL

-----------------------------------------------------------------------------
\* What a thread changes of the other threads: nothing.
LEMMA OtherThreads ==
    ASSUME TypeInv, NEW c \in Conns, ThreadStep(c)
    PROVE  \A d \in Conns \ {c} : nsAt'[d] = nsAt[d] /\ nsFloc'[d] = nsFloc[d]
<1> USE DEF TypeInv, TypeOK, ThreadsOK, Goto, Return, threads
<1>1. CASE ReadRequest(c)
  BY <1>1 DEF ReadRequest, HandlerOf
<1>2. CASE TakeLock(c) \/ MapFile(c) \/ PlaceFile(c) \/ SendLocation(c)
  BY <1>2 DEF TakeLock, MapFile, PlaceFile, SendLocation
<1>3. CASE DeleteUnknown(c) \/ UnmapFile(c) \/ EraseFile(c)
  BY <1>3 DEF DeleteUnknown, UnmapFile, EraseFile
<1>4. CASE SendCount(c) \/ SendRecord(c)
  BY <1>4 DEF SendCount, SendRecord
<1>5. CASE BeginWalk(c) \/ NextRecord(c)
  BY <1>5 DEF BeginWalk, NextRecord, Advance
<1> QED BY <1>1, <1>2, <1>3, <1>4, <1>5 DEF ThreadStep

\* At most one thread is in the lock: TakeLock enters it only when it is free,
\* and who leaves it was in it.
LEMMA LockStep ==
    ASSUME TypeInv, LockInv, NEW c \in Conns, ThreadStep(c), UNCHANGED uservars
    PROVE  LockInv'
<1>1. \A d \in Conns \ {c} : nsAt'[d] = nsAt[d]
  BY OtherThreads
<1> USE DEF TypeInv, TypeOK, ThreadsOK, Goto, Return, threads, LockInv, InLock
<1>2. CASE TakeLock(c)
  BY <1>1, <1>2, MetaAssumption DEF TakeLock, Locked
<1>3. CASE PlaceFile(c) \/ EraseFile(c)
  BY <1>1, <1>3 DEF PlaceFile, EraseFile
<1>4. CASE MapFile(c) \/ UnmapFile(c) \/ DeleteUnknown(c)
  BY <1>1, <1>4 DEF MapFile, UnmapFile, DeleteUnknown
<1>5. CASE ReadRequest(c)
  BY <1>1, <1>5 DEF ReadRequest, HandlerOf
<1>6. CASE SendLocation(c) \/ SendCount(c) \/ SendRecord(c)
  BY <1>1, <1>6 DEF SendLocation, SendCount, SendRecord
<1>7. CASE BeginWalk(c) \/ NextRecord(c)
  BY <1>1, <1>7 DEF BeginWalk, NextRecord, Advance
<1> QED BY <1>2, <1>3, <1>4, <1>5, <1>6, <1>7 DEF ThreadStep

\* Steps outside of the lock, or that only take it, leave the tables agreeing.
LEMMA TableFrame ==
    ASSUME TableInv, UNCHANGED <<idmap, files>>,
           \A d \in Conns :
               \/ nsAt'[d] = nsAt[d] /\ nsFloc'[d] = nsFloc[d]
               \/ nsAt[d] \notin {"place", "erase"} /\ nsAt'[d] \notin {"place", "erase"}
    PROVE  TableInv'
BY DEF TableInv, Placing, Erasing

\* FindFile gives a new file an id: the file is the one being placed.
LEMMA MapTable ==
    ASSUME MetaInvariant, NEW c \in Conns, MapFile(c)
    PROVE  TableInv'
<1> DEFINE f == nsFloc[c].file
<1> USE DEF MetaInvariant, TypeInv, TypeOK, ThreadsOK
<1>1. /\ nsAt' = [nsAt EXCEPT ![c] = "place"]
      /\ nsFloc'[c].file = f /\ nsFloc'[c].fd = idmap'[f]
      /\ \A d \in Conns \ {c} : nsFloc'[d] = nsFloc[d]
      /\ UNCHANGED files
  BY DEF MapFile, Goto, Floc
<1>2. \A d \in Conns \ {c} : nsAt[d] \notin InLock
  BY DEF LockInv, InLock, MapFile
<1>3. \A d \in Conns : nsAt[d] # "place" /\ nsAt[d] # "erase"
  BY <1>2 DEF InLock, MapFile
<1>4. CASE f \in DOMAIN idmap
  <2>1. UNCHANGED idmap
    BY <1>4 DEF MapFile
  <2>2. \A g \in DOMAIN idmap : idmap[g] \in DOMAIN files /\ files[idmap[g]].file = g
    BY <1>3 DEF TableInv, Placing
  <2>3. \A id \in DOMAIN files : \E g \in DOMAIN idmap : idmap[g] = id
    BY <1>3 DEF TableInv, Erasing
  <2>4. \A d \in Conns : nsAt'[d] # "erase" /\ (nsAt'[d] = "place" => d = c)
    BY <1>1, <1>3
  <2>5. Placing(c, f)'
    BY <1>1, <1>4, <2>1 DEF Placing
  <2>6. \A g, h \in DOMAIN idmap : idmap[g] = idmap[h] => g = h
    BY DEF TableInv
  <2> QED BY <1>1, <2>1, <2>2, <2>3, <2>4, <2>5, <2>6 DEF TableInv
<1>5. CASE f \notin DOMAIN idmap
  <2>1. /\ idmap' = Put(idmap, f, fileidcounter)
        /\ idmap'[f] = fileidcounter
    BY <1>5 DEF MapFile, NewId, Put
  <2>2. /\ DOMAIN idmap' = DOMAIN idmap \cup {f}
        /\ \A g \in DOMAIN idmap : idmap'[g] = idmap[g] /\ idmap[g] # fileidcounter
    BY <1>5, <2>1 DEF Put, IdInv, TablesOK, Range
  <2>3. fileidcounter \notin DOMAIN files
    BY DEF TablesOK
  <2>4. \A g \in DOMAIN idmap : idmap[g] \in DOMAIN files /\ files[idmap[g]].file = g
    BY <1>3 DEF TableInv, Placing
  <2>5. \A id \in DOMAIN files : \E g \in DOMAIN idmap : idmap[g] = id
    BY <1>3 DEF TableInv, Erasing
  <2>6. \A d \in Conns : nsAt'[d] # "erase" /\ (nsAt'[d] = "place" => d = c)
    BY <1>1, <1>3
  <2>7. Placing(c, f)'
    BY <1>1, <2>2 DEF Placing
  <2>8. \A g, h \in DOMAIN idmap' : idmap'[g] = idmap'[h] => g = h
    BY <2>1, <2>2 DEF TableInv
  <2> QED BY <1>1, <2>1, <2>2, <2>3, <2>4, <2>5, <2>6, <2>7, <2>8 DEF TableInv
<1> QED BY <1>4, <1>5

\* FindFile gives the file its place: both tables have it.
LEMMA PlaceTable ==
    ASSUME MetaInvariant, NEW c \in Conns, PlaceFile(c)
    PROVE  TableInv'
<1> DEFINE f == nsFloc[c].file
           id == nsFloc[c].fd
<1> USE DEF MetaInvariant, TypeInv, TypeOK, ThreadsOK
<1>1. /\ nsAt' = [nsAt EXCEPT ![c] = "found"]
      /\ UNCHANGED idmap
      /\ \A d \in Conns \ {c} : nsFloc'[d] = nsFloc[d]
  BY DEF PlaceFile, Goto
<1>2. \A d \in Conns \ {c} : nsAt[d] \notin InLock
  BY DEF LockInv, InLock, PlaceFile
<1>3. \A d \in Conns : nsAt[d] # "erase" /\ nsAt'[d] # "erase" /\ nsAt'[d] # "place"
  BY <1>1, <1>2 DEF InLock, PlaceFile
<1>4. Placing(c, f)
  BY DEF TableInv, PlaceFile
<1>5. \A g \in DOMAIN idmap : g # f => idmap[g] \in DOMAIN files /\ idmap[g] # id
  <2>1. \A d \in Conns, g \in DOMAIN idmap : g # f => ~Placing(d, g)
    BY <1>2 DEF Placing, InLock
  <2>2. \A g \in DOMAIN idmap : g # f => idmap[g] # idmap[f]
    BY <1>4 DEF TableInv, Placing
  <2> QED BY <1>4, <2>1, <2>2 DEF TableInv, Placing
<1>6. /\ DOMAIN files' = DOMAIN files \cup {id}
      /\ \A i \in DOMAIN files : files'[i] = files[i]
      /\ files'[id].file = f
  <2>1. CASE id \in DOMAIN files
    <3>1. files[id].file = f
      BY <2>1, <1>4 DEF TableInv, Placing
    <3> QED BY <2>1, <3>1 DEF PlaceFile
  <2>2. CASE id \notin DOMAIN files
    <3>1. PICK w : w = [nsFloc[c] EXCEPT !.server = srvs[currentSvr + 1]]
      OBVIOUS
    <3>2. w.file = f
      BY <3>1 DEF Floc
    <3>3. files' = Put(files, id, w)
      BY <2>2, <3>1 DEF PlaceFile
    <3> QED BY <2>2, <3>2, <3>3 DEF Put
  <2> QED BY <2>1, <2>2
<1>7. \A g \in DOMAIN idmap : idmap[g] \in DOMAIN files' /\ files'[idmap[g]].file = g
  BY <1>4, <1>5, <1>6 DEF TableInv, Placing
<1>8. \A i \in DOMAIN files' : \E g \in DOMAIN idmap : idmap[g] = i
  BY <1>3, <1>4, <1>6 DEF TableInv, Placing, Erasing
<1> QED BY <1>1, <1>3, <1>7, <1>8 DEF TableInv

\* DeleteFile takes the id out: its place is the one being erased.
LEMMA UnmapTable ==
    ASSUME MetaInvariant, NEW c \in Conns, UnmapFile(c)
    PROVE  TableInv'
<1> DEFINE f == nsFloc[c].file
<1>0. PICK id : id = idmap[f]
  OBVIOUS
<1> USE DEF MetaInvariant, TypeInv, TypeOK, ThreadsOK
<1>1. /\ nsAt' = [nsAt EXCEPT ![c] = "erase"]
      /\ UNCHANGED files
      /\ f \in DOMAIN idmap
      /\ nsFloc'[c].fd = id
      /\ \A d \in Conns \ {c} : nsFloc'[d] = nsFloc[d]
  BY <1>0 DEF UnmapFile, Goto, Floc
<1>2. \A d \in Conns \ {c} : nsAt[d] \notin InLock
  BY DEF LockInv, InLock, UnmapFile
<1>3. \A d \in Conns : nsAt[d] # "erase" /\ nsAt[d] # "place"
  BY <1>2 DEF InLock, UnmapFile
<1>4. /\ DOMAIN idmap' = DOMAIN idmap \ {f}
      /\ \A g \in DOMAIN idmap' : idmap'[g] = idmap[g]
  BY DEF UnmapFile, Without, Restrict
<1>5. \A g \in DOMAIN idmap : idmap[g] \in DOMAIN files /\ files[idmap[g]].file = g
  BY <1>3 DEF TableInv, Placing
<1>6. \A g \in DOMAIN idmap' : idmap'[g] # id
  BY <1>0, <1>1, <1>4 DEF TableInv
<1>7. Erasing(c, id)'
  BY <1>1 DEF Erasing
<1>8. \A i \in DOMAIN files : i # id => \E g \in DOMAIN idmap' : idmap'[g] = i
  <2>1. \A i \in DOMAIN files : \E g \in DOMAIN idmap : idmap[g] = i
    BY <1>3 DEF TableInv, Erasing
  <2> QED BY <1>0, <1>4, <2>1
<1>9. \A d \in Conns : nsAt'[d] # "place" /\ (nsAt'[d] = "erase" => d = c)
  BY <1>1, <1>3
<1>10. \A g, h \in DOMAIN idmap' : idmap'[g] = idmap'[h] => g = h
  BY <1>4 DEF TableInv
<1>11. \A i \in DOMAIN files' : (\E g \in DOMAIN idmap' : idmap'[g] = i)
                               \/ (\E d \in Conns : Erasing(d, i)')
  BY <1>1, <1>7, <1>8
<1>12. \A g \in DOMAIN idmap' : idmap'[g] \in DOMAIN files' /\ files'[idmap'[g]].file = g
  BY <1>1, <1>4, <1>5
<1>13. \A d \in Conns : nsAt'[d] = "erase" =>
           /\ nsFloc'[d].fd \in DOMAIN files'
           /\ \A g \in DOMAIN idmap' : idmap'[g] # nsFloc'[d].fd
  BY <1>0, <1>1, <1>5, <1>6, <1>9
<1> QED BY <1>9, <1>10, <1>11, <1>12, <1>13 DEF TableInv

\* DeleteFile erases the place: neither table has the file.
LEMMA EraseTable ==
    ASSUME MetaInvariant, NEW c \in Conns, EraseFile(c)
    PROVE  TableInv'
<1> DEFINE id == nsFloc[c].fd
<1> USE DEF MetaInvariant, TypeInv, TypeOK, ThreadsOK
<1>1. nsAt' = [nsAt EXCEPT ![c] = "read"] /\ UNCHANGED idmap
  BY DEF EraseFile, Goto, Return
<1>2. \A d \in Conns \ {c} : nsAt[d] \notin InLock
  BY DEF LockInv, InLock, EraseFile
<1>3. \A d \in Conns : nsAt[d] # "place" /\ nsAt'[d] \notin {"place", "erase"}
  BY <1>1, <1>2 DEF InLock, EraseFile
<1>4. id \in DOMAIN files /\ \A g \in DOMAIN idmap : idmap[g] # id
  BY DEF TableInv, EraseFile
<1>5. /\ DOMAIN files' = DOMAIN files \ {id}
      /\ \A i \in DOMAIN files' : files'[i] = files[i]
  BY <1>4 DEF EraseFile, Erased, Without, Restrict
<1>6. \A g \in DOMAIN idmap : idmap[g] \in DOMAIN files /\ files[idmap[g]].file = g
  BY <1>3 DEF TableInv, Placing
<1>7. \A i \in DOMAIN files : i # id => \E g \in DOMAIN idmap : idmap[g] = i
  <2>1. \A d \in Conns, i \in DOMAIN files : i # id => ~Erasing(d, i)
    BY <1>2 DEF Erasing, InLock
  <2> QED BY <2>1 DEF TableInv
<1> QED BY <1>1, <1>3, <1>4, <1>5, <1>6, <1>7 DEF TableInv

\* Every step of a thread keeps the tables in agreement.
LEMMA TableStep ==
    ASSUME MetaInvariant, NEW c \in Conns, ThreadStep(c)
    PROVE  TableInv'
<1>1. \A d \in Conns \ {c} : nsAt'[d] = nsAt[d] /\ nsFloc'[d] = nsFloc[d]
  BY OtherThreads DEF MetaInvariant
<1>2. TableInv
  BY DEF MetaInvariant
<1> USE DEF Goto, Return
<1>3. CASE ReadRequest(c)
  <2>1. UNCHANGED <<idmap, files>> /\ nsAt[c] = "read" /\ nsAt'[c] \notin {"place", "erase"}
    BY <1>3 DEF ReadRequest, HandlerOf, tables, MetaInvariant, TypeInv, TypeOK, ThreadsOK
  <2> QED BY <1>1, <1>2, <2>1, TableFrame
<1>4. CASE TakeLock(c) \/ DeleteUnknown(c) \/ SendLocation(c)
  <2>1. /\ UNCHANGED <<idmap, files>>
        /\ nsAt[c] \notin {"place", "erase"} /\ nsAt'[c] \notin {"place", "erase"}
    BY <1>4 DEF TakeLock, DeleteUnknown, SendLocation, tables, MetaInvariant,
                TypeInv, TypeOK, ThreadsOK
  <2> QED BY <1>1, <1>2, <2>1, TableFrame
<1>5. CASE SendCount(c) \/ SendRecord(c) \/ BeginWalk(c) \/ NextRecord(c)
  <2>1. /\ UNCHANGED <<idmap, files>>
        /\ nsAt[c] \notin {"place", "erase"} /\ nsAt'[c] \notin {"place", "erase"}
    BY <1>5 DEF SendCount, SendRecord, BeginWalk, NextRecord, Advance, tables,
                MetaInvariant, TypeInv, TypeOK, ThreadsOK
  <2> QED BY <1>1, <1>2, <2>1, TableFrame
<1> QED BY <1>3, <1>4, <1>5, MapTable, PlaceTable, UnmapTable, EraseTable DEF ThreadStep

\* Initially both tables are empty.
LEMMA MetaInit == Init => MetaInvariant
<1>1. Init => LockInv /\ TableInv
  BY DEF Init, NsInit, LockInv, InLock, TableInv, Placing, Erasing
<1> QED BY <1>1, TypeInit DEF MetaInvariant

\* Every step keeps the invariant.
LEMMA MetaNext == MetaInvariant /\ [Next]_vars => MetaInvariant'
<1> SUFFICES ASSUME MetaInvariant, [Next]_vars PROVE MetaInvariant'
  OBVIOUS
<1>1. TypeInv'
  BY TypeNext DEF MetaInvariant
<1>2. CASE \E c \in Conns : ThreadStep(c) /\ UNCHANGED uservars
  BY <1>1, <1>2, LockStep, TableStep DEF MetaInvariant
<1>3. CASE UNCHANGED <<idmap, files, flocLock, nsAt, nsFloc>>
  <2>1. LockInv'
    BY <1>3 DEF MetaInvariant, LockInv
  <2>2. TableInv'
    BY <1>3, TableFrame DEF MetaInvariant
  <2> QED BY <1>1, <2>1, <2>2 DEF MetaInvariant
<1>4. CASE \E u \in Users : UserStep(u) \/ Command(u)
  <2>1. UNCHANGED <<idmap, files, flocLock, nsAt, nsFloc>>
    BY <1>4 DEF UserStep, Command, Give, Ask, TakeLocation, Transfer, TakeCount,
                TakeRecord, Take, nsvars, tables, threads
  <2> QED BY <2>1, <1>3
<1>5. CASE \E v \in Servers : RegisterServer(v)
  BY <1>5, <1>3 DEF RegisterServer, threads
<1>6. CASE UNCHANGED vars
  BY <1>6, <1>3 DEF vars, nsvars, tables, threads
<1> QED BY <1>2, <1>4, <1>5, <1>6 DEF Next, NsStep

\* The invariant the next theorems rest on holds in every reachable state: how
\* far FindFile and DeleteFile may leave the tables apart inside the lock.
THEOREM MetaInvariantHolds == Spec => []MetaInvariant
BY MetaInit, MetaNext, PTL DEF Spec

\* When no thread has floc_lock, idmap and files describe the same files under
\* the same ids, whatever FindFile and DeleteFile did in other threads.
THEOREM TablesAlwaysAgree == Spec => []TablesAgree
<1>1. MetaInvariant => TablesAgree
  <2> SUFFICES ASSUME MetaInvariant, flocLock = Nobody
               PROVE  /\ Range(idmap) = DOMAIN files
                      /\ \A f \in DOMAIN idmap : files[idmap[f]].file = f
                      /\ \A f, g \in DOMAIN idmap : idmap[f] = idmap[g] => f = g
    BY DEF TablesAgree
  <2>1. \A c \in Conns : nsAt[c] \notin InLock
    BY MetaAssumption DEF MetaInvariant, LockInv
  <2>2. \A c \in Conns : nsAt[c] # "place" /\ nsAt[c] # "erase"
    BY <2>1 DEF InLock
  <2>3. \A f \in DOMAIN idmap : idmap[f] \in DOMAIN files /\ files[idmap[f]].file = f
    BY <2>2 DEF MetaInvariant, TableInv, Placing
  <2>4. \A id \in DOMAIN files : \E f \in DOMAIN idmap : idmap[f] = id
    BY <2>2 DEF MetaInvariant, TableInv, Erasing
  <2>5. Range(idmap) = DOMAIN files
    BY <2>3, <2>4 DEF Range
  <2> QED BY <2>3, <2>5 DEF MetaInvariant, TableInv
<1> QED BY <1>1, MetaInvariantHolds, PTL

\* A deletion that found an id finds a place: the second early return of
\* DeleteFile, which would keep floc_lock, is never taken.
THEOREM DeletionsFindPlaces == Spec => []DeletionFindsPlace
<1>1. MetaInvariant => DeletionFindsPlace
  BY DEF MetaInvariant, TableInv, DeletionFindsPlace
<1> QED BY <1>1, MetaInvariantHolds, PTL

-----------------------------------------------------------------------------
(* Ids and turns.                                                          *)

\* Where the lock is held, no other thread is between its changes.
LEMMA OnlyOneIn ==
    ASSUME MetaInvariant, NEW c \in Conns, nsAt[c] \in InLock
    PROVE  \A d \in Conns \ {c} : nsAt[d] \notin InLock
BY DEF MetaInvariant, LockInv

\* A file lacks its location only while a thread is about to give it one.
LEMMA PendingIs ==
    ASSUME TableInv
    PROVE  IdPending <=> \E c \in Conns : nsAt[c] = "place" /\ nsFloc[c].fd \notin DOMAIN files
BY DEF TableInv, Placing, IdPending, Placed

\* FindFile's first part gives out an id or finds one: none is pending before,
\* and the number of ids with a location stays.
LEMMA MapIds ==
    ASSUME MetaInvariant, NEW c \in Conns, MapFile(c)
    PROVE  /\ ~IdPending
           /\ IdsGiven' = IdsGiven
           /\ PlaceInv => PlaceInv'
<1> DEFINE f == nsFloc[c].file
<1> USE DEF MetaInvariant, TypeInv, TypeOK, ThreadsOK
<1>1. /\ nsAt' = [nsAt EXCEPT ![c] = "place"]
      /\ nsFloc'[c].fd = idmap'[f]
      /\ \A d \in Conns \ {c} : nsFloc'[d] = nsFloc[d]
      /\ UNCHANGED files
  BY DEF MapFile, Goto, Floc
<1>2. \A d \in Conns : nsAt[d] # "place" /\ nsAt[d] # "erase"
  BY OnlyOneIn DEF InLock, MapFile
<1>3. \A d \in Conns \ {c} : nsAt'[d] # "place"
  BY <1>1, <1>2
<1>4. ~IdPending
  BY <1>2, PendingIs
<1>5. \A g \in DOMAIN idmap : idmap[g] \in DOMAIN files
  BY <1>4 DEF IdPending, Placed
<1>6. fileidcounter \in Nat /\ fileidcounter \notin DOMAIN files
  BY DEF TablesOK
<1>7. CASE f \in DOMAIN idmap
  <2>1. UNCHANGED <<idmap, fileidcounter>> /\ idmap'[f] \in DOMAIN files
    BY <1>5, <1>7 DEF MapFile
  <2>2. ~IdPending'
    BY <1>1, <1>5, <2>1 DEF IdPending, Placed
  <2>3. IdsGiven' = IdsGiven
    BY <1>4, <2>1, <2>2 DEF IdsGiven
  <2>4. PlaceInv => PlaceInv'
    BY <1>1, <1>3, <2>1 DEF PlaceInv
  <2> QED BY <1>4, <2>3, <2>4
<1>8. CASE f \notin DOMAIN idmap
  <2>1. /\ idmap' = Put(idmap, f, fileidcounter)
        /\ idmap'[f] = fileidcounter
        /\ f \in DOMAIN idmap'
        /\ fileidcounter' = fileidcounter + 1
    BY <1>8 DEF MapFile, NewId, Put
  <2>2. IdPending'
    BY <1>1, <1>6, <2>1 DEF IdPending, Placed
  <2>3. IdsGiven' = IdsGiven
    BY <1>4, <1>6, <2>1, <2>2 DEF IdsGiven
  <2>4. PlaceInv => PlaceInv'
    BY <1>1, <1>3, <1>6, <2>1 DEF PlaceInv
  <2> QED BY <1>4, <2>3, <2>4
<1> QED BY <1>7, <1>8

\* FindFile's second part gives the file of the last id a location, or finds one.
LEMMA PlaceIds ==
    ASSUME MetaInvariant, PlaceInv, NEW c \in Conns, PlaceFile(c)
    PROVE  /\ ~IdPending'
           /\ nsFloc[c].fd \in DOMAIN files => ~IdPending /\ IdsGiven' = IdsGiven
           /\ nsFloc[c].fd \notin DOMAIN files =>
                  IdPending /\ IdsGiven = nsFloc[c].fd /\ IdsGiven' = IdsGiven + 1
           /\ \A g \in DOMAIN idmap : idmap[g] # nsFloc[c].fd => idmap[g] \in DOMAIN files
           /\ PlaceInv'
<1> DEFINE id == nsFloc[c].fd
<1> USE DEF MetaInvariant, TypeInv, TypeOK, ThreadsOK
<1>1. /\ nsAt' = [nsAt EXCEPT ![c] = "found"]
      /\ UNCHANGED <<idmap, fileidcounter>>
      /\ \A d \in Conns \ {c} : nsFloc'[d] = nsFloc[d]
  BY DEF PlaceFile, Goto
<1>2. \A d \in Conns \ {c} : nsAt[d] # "place"
  BY OnlyOneIn DEF InLock, PlaceFile
<1>3. nsAt[c] = "place" /\ \A d \in Conns : nsAt'[d] # "place"
  BY <1>1, <1>2 DEF PlaceFile
<1>4. Placing(c, nsFloc[c].file)
  BY <1>3 DEF TableInv
<1>5. /\ DOMAIN files' = DOMAIN files \cup {id}
      /\ \A i \in DOMAIN files : i # id => files'[i] = files[i]
      /\ files'[id].fd = id
  <2>1. CASE id \in DOMAIN files
    BY <2>1 DEF PlaceFile, PlaceInv
  <2>2. CASE id \notin DOMAIN files
    <3>1. PICK w : w = [nsFloc[c] EXCEPT !.server = srvs[currentSvr + 1]]
      OBVIOUS
    <3>2. w.fd = id
      BY <3>1 DEF Floc
    <3>3. files' = Put(files, id, w)
      BY <2>2, <3>1 DEF PlaceFile
    <3> QED BY <2>2, <3>2, <3>3 DEF Put
  <2> QED BY <2>1, <2>2
<1>6. PlaceInv'
  BY <1>3, <1>5 DEF PlaceInv
<1>7. \A g \in DOMAIN idmap : idmap[g] # id => idmap[g] \in DOMAIN files
  <2>1. \A g \in DOMAIN idmap, d \in Conns : idmap[g] # id => ~Placing(d, g)
    BY <1>2 DEF Placing
  <2> QED BY <2>1 DEF TableInv
<1>8. ~IdPending'
  BY <1>1, <1>5, <1>7 DEF IdPending, Placed
<1>9. IdsGiven' = fileidcounter
  BY <1>1, <1>8 DEF IdsGiven
<1>10. id \in DOMAIN files => ~IdPending
  BY <1>7 DEF IdPending, Placed
<1>11. id \notin DOMAIN files => IdPending /\ id = fileidcounter - 1
  BY <1>3, <1>4 DEF IdPending, Placed, Placing, PlaceInv
<1>12. fileidcounter \in Nat
  BY DEF TablesOK
<1> QED BY <1>6, <1>7, <1>8, <1>9, <1>10, <1>11, <1>12 DEF IdsGiven

\* A deletion is not under way while an id is pending, and makes none pending.
LEMMA DeleteIds ==
    ASSUME MetaInvariant, PlaceInv, NEW c \in Conns, UnmapFile(c) \/ EraseFile(c)
    PROVE  ~IdPending /\ ~IdPending' /\ IdsGiven' = IdsGiven /\ PlaceInv'
<1> USE DEF MetaInvariant, TypeInv, TypeOK, ThreadsOK
<1>1. \A d \in Conns : nsAt[d] # "place"
  BY OnlyOneIn DEF InLock, UnmapFile, EraseFile
<1>2. ~IdPending
  BY <1>1, PendingIs
<1>3. /\ UNCHANGED fileidcounter
      /\ \A d \in Conns : nsAt'[d] # "place"
  BY <1>1 DEF UnmapFile, EraseFile, Goto, Return
<1>4. CASE UnmapFile(c)
  <2>1. /\ UNCHANGED files
        /\ DOMAIN idmap' \subseteq DOMAIN idmap
        /\ \A g \in DOMAIN idmap' : idmap'[g] = idmap[g]
    BY <1>4 DEF UnmapFile, Without, Restrict
  <2>2. ~IdPending'
    BY <1>2, <2>1 DEF IdPending, Placed
  <2>3. PlaceInv'
    BY <1>3, <2>1 DEF PlaceInv
  <2> QED BY <1>2, <1>3, <2>2, <2>3 DEF IdsGiven
<1>5. CASE EraseFile(c)
  <2> DEFINE id == nsFloc[c].fd
  <2>1. id \in DOMAIN files /\ \A g \in DOMAIN idmap : idmap[g] # id
    BY <1>5 DEF TableInv, EraseFile
  <2>2. /\ DOMAIN files' = DOMAIN files \ {id}
        /\ \A i \in DOMAIN files' : files'[i] = files[i]
        /\ UNCHANGED idmap
    BY <1>5, <2>1 DEF EraseFile, Erased, Without, Restrict
  <2>3. ~IdPending'
    BY <1>2, <2>1, <2>2 DEF IdPending, Placed
  <2>4. PlaceInv'
    BY <1>3, <2>2 DEF PlaceInv
  <2> QED BY <1>2, <1>3, <2>3, <2>4 DEF IdsGiven
<1> QED BY <1>4, <1>5

\* Steps that leave the tables and are not between their changes.
LEMMA PlaceFrame ==
    ASSUME UNCHANGED <<idmap, fileidcounter, files>>,
           \A d \in Conns : \/ nsAt'[d] = nsAt[d] /\ nsFloc'[d] = nsFloc[d]
                            \/ nsAt'[d] # "place"
    PROVE  /\ PlaceInv => PlaceInv'
           /\ IdsGiven' = IdsGiven
           /\ IdPending' <=> IdPending
BY DEF PlaceInv, IdsGiven, IdPending, Placed

\* Round robin: counting on from a remainder.
LEMMA ModUnique ==
    ASSUME NEW n \in Nat \ {0}, NEW q \in Int, NEW r \in 0..(n - 1)
    PROVE  (n * q + r) % n = r
  BY Z3

\* A number is its quotient times the divisor, and its remainder.
LEMMA DivMod ==
    ASSUME NEW n \in Nat \ {0}, NEW c \in Nat
    PROVE  c = n * (c \div n) + (c % n) /\ c % n \in 0..(n - 1) /\ c \div n \in Int
  BY Z3

\* The remainder of the next number.
LEMMA ModNext ==
    ASSUME NEW n \in Nat \ {0}, NEW c \in Nat
    PROVE  ((c % n) + 1) % n = (c + 1) % n
  <1>1. PICK q \in Int, r \in 0..(n - 1) : c = n * q + r /\ r = c % n  BY DivMod
  <1>2. CASE r + 1 < n
    <2>1. r + 1 \in 0..(n - 1) /\ c + 1 = n * q + (r + 1) /\ r + 1 = n * 0 + (r + 1)
      BY <1>1, <1>2
    <2>2. (n * q + (r + 1)) % n = r + 1  BY <2>1, ModUnique
    <2>3. (n * 0 + (r + 1)) % n = r + 1  BY <2>1, ModUnique
    <2> QED  BY <1>1, <2>1, <2>2, <2>3
  <1>3. CASE r + 1 = n
    <2>1. 0 \in 0..(n - 1) /\ c + 1 = n * (q + 1) + 0 /\ r + 1 = n * 1 + 0 /\ q + 1 \in Int
      BY <1>1, <1>3
    <2>2. (n * (q + 1) + 0) % n = 0  BY <2>1, ModUnique
    <2>3. (n * 1 + 0) % n = 0  BY <2>1, ModUnique
    <2> QED  BY <1>1, <2>1, <2>2, <2>3
  <1> QED  BY <1>2, <1>3

\* Every step keeps what is known about ids and locations.
LEMMA PlaceStep ==
    ASSUME MetaInvariant, PlaceInv, NEW c \in Conns, ThreadStep(c)
    PROVE  PlaceInv'
<1>1. \A d \in Conns \ {c} : nsAt'[d] = nsAt[d] /\ nsFloc'[d] = nsFloc[d]
  BY OtherThreads DEF MetaInvariant
<1>2. CASE \/ ReadRequest(c) \/ TakeLock(c) \/ SendLocation(c) \/ DeleteUnknown(c)
           \/ SendCount(c) \/ BeginWalk(c) \/ SendRecord(c) \/ NextRecord(c)
  <2>1. UNCHANGED <<idmap, fileidcounter, files>> /\ nsAt'[c] # "place"
    BY <1>2 DEF ReadRequest, HandlerOf, TakeLock, SendLocation, DeleteUnknown,
         SendCount, BeginWalk, SendRecord, NextRecord, Advance, tables, Goto, Return,
         MetaInvariant, TypeInv, TypeOK, ThreadsOK
  <2> QED BY <1>1, <2>1, PlaceFrame
<1> QED BY <1>2, MapIds, PlaceIds, DeleteIds DEF ThreadStep

\* Initially there are no places.
LEMMA PlaceInit == Init => PlaceInv
BY DEF Init, NsInit, PlaceInv

\* Users and data servers touch neither ids nor locations.
LEMMA OtherSteps ==
    ASSUME [Next]_vars, ~\E c \in Conns : ThreadStep(c) /\ UNCHANGED uservars
    PROVE  UNCHANGED <<idmap, fileidcounter, files, currentSvr, nsAt, nsFloc>>
<1>1. CASE \E u \in Users : UserStep(u) \/ Command(u)
  BY <1>1 DEF UserStep, Command, Give, Ask, TakeLocation, Transfer, TakeCount,
              TakeRecord, Take, nsvars, tables, threads
<1>2. CASE \E v \in Servers : RegisterServer(v)
  BY <1>2 DEF RegisterServer, threads
<1>3. CASE UNCHANGED vars
  BY <1>3 DEF vars, nsvars, tables, threads
<1> QED BY <1>1, <1>2, <1>3 DEF Next, NsStep

\* Every step keeps PlaceInv.
LEMMA PlaceNext == MetaInvariant /\ PlaceInv /\ [Next]_vars => PlaceInv'
<1> SUFFICES ASSUME MetaInvariant, PlaceInv, [Next]_vars PROVE PlaceInv'
  OBVIOUS
<1>1. CASE \E c \in Conns : ThreadStep(c) /\ UNCHANGED uservars
  BY <1>1, PlaceStep
<1>2. CASE ~\E c \in Conns : ThreadStep(c) /\ UNCHANGED uservars
  BY <1>2, OtherSteps, PlaceFrame
<1> QED BY <1>1, <1>2

\* Locations are recorded under their own ids, and only the last id given out
\* may still wait for its location.
THEOREM PlacesKnown == Spec => []PlaceInv
BY PlaceInit, PlaceNext, MetaInvariantHolds, PTL DEF Spec

-----------------------------------------------------------------------------
\* Under OrderedSpec the name server is untouched until all servers are there.
LEMMA OrderedIsNext == OrderedNext => Next
BY DEF OrderedNext, Next

\* FindFile deals the next file to the next server.
LEMMA PlaceTurn ==
    ASSUME MetaInvariant, PlaceInv, TurnInv, NEW c \in Conns, PlaceFile(c)
    PROVE  TurnInv'
<1> DEFINE id == nsFloc[c].fd
<1> USE DEF MetaInvariant, TypeInv, TypeOK
<1>1. ServersReady /\ ServersReady' /\ UNCHANGED srvs
  BY DEF TurnInv, Untouched, PlaceFile, ServersReady
<1>2. CASE id \in DOMAIN files
  <2>1. UNCHANGED <<files, currentSvr>> /\ IdsGiven' = IdsGiven
    BY <1>2, PlaceIds DEF PlaceFile
  <2>2. RoundRobin'
    BY <1>1, <2>1 DEF TurnInv, RoundRobin
  <2> QED BY <1>1, <2>1, <2>2 DEF TurnInv
<1>3. CASE id \notin DOMAIN files
  <2>0. IdsGiven = id /\ IdsGiven' = IdsGiven + 1
    BY <1>3, PlaceIds
  <2>1. IdsGiven = id /\ IdsGiven' = id + 1 /\ id \in Nat
    BY <2>0 DEF IdInv, PlaceFile, ThreadsOK, Floc
  <2>2. PICK n \in Nat \ {0} : n = Len(srvs)
    BY <1>3 DEF PlaceFile, TablesOK
  <2>3. currentSvr = id % n /\ currentSvr' = (currentSvr + 1) % n
    BY <1>3, <2>1, <2>2 DEF PlaceFile, NextServer, TurnInv
  <2>4. currentSvr' = (id + 1) % n
    BY <2>1, <2>2, <2>3, ModNext
  <2>5. PICK w : w = [nsFloc[c] EXCEPT !.server = srvs[currentSvr + 1]]
    OBVIOUS
  <2>6. w.server = srvs[currentSvr + 1]
    BY <2>5 DEF ThreadsOK, Floc
  <2>7. files' = Put(files, id, w)
    BY <1>3, <2>5 DEF PlaceFile
  <2>8. RoundRobin'
    BY <1>1, <2>2, <2>3, <2>6, <2>7 DEF TurnInv, RoundRobin, Put
  <2> QED BY <1>1, <2>1, <2>2, <2>4, <2>8 DEF TurnInv
<1> QED BY <1>2, <1>3

\* The other steps of threads leave whose turn it is.
LEMMA OtherTurn ==
    ASSUME MetaInvariant, PlaceInv, TurnInv, NEW c \in Conns, ThreadStep(c),
           UNCHANGED uservars, ~PlaceFile(c)
    PROVE  TurnInv'
<1> USE DEF MetaInvariant, TypeInv, TypeOK
<1>1. UNCHANGED <<srvs, currentSvr>>
  BY DEF ThreadStep, ReadRequest, TakeLock, MapFile, SendLocation, DeleteUnknown,
         UnmapFile, EraseFile, SendCount, BeginWalk, SendRecord, NextRecord, tables
<1>2. IdsGiven' = IdsGiven
  <2>1. CASE \/ ReadRequest(c) \/ TakeLock(c) \/ SendLocation(c) \/ DeleteUnknown(c)
             \/ SendCount(c) \/ BeginWalk(c) \/ SendRecord(c) \/ NextRecord(c)
    <3>1. UNCHANGED <<idmap, fileidcounter, files>>
      BY <2>1 DEF ReadRequest, TakeLock, SendLocation, DeleteUnknown, SendCount,
                  BeginWalk, SendRecord, NextRecord, tables
    <3> QED BY <3>1 DEF IdsGiven, IdPending, Placed
  <2> QED BY <2>1, MapIds, DeleteIds DEF ThreadStep
<1>3. RoundRobin'
  <2>1. \A id \in DOMAIN files' : id \in DOMAIN files /\ files'[id] = files[id]
    <3>1. CASE EraseFile(c)
      BY <3>1, WithoutIs DEF EraseFile, Erased, Without, Restrict
    <3>2. CASE ~EraseFile(c)
      BY <3>2 DEF ThreadStep, ReadRequest, TakeLock, MapFile, SendLocation,
                  DeleteUnknown, UnmapFile, SendCount, BeginWalk, SendRecord, NextRecord, tables
    <3> QED BY <3>1, <3>2
  <2> QED BY <1>1, <2>1 DEF TurnInv, RoundRobin
<1>4. ServersReady'
  <2>1. ~Untouched
    BY DEF Untouched, ThreadStep, ReadRequest, TakeLock, MapFile, SendLocation,
           DeleteUnknown, UnmapFile, EraseFile, SendCount, BeginWalk, SendRecord, NextRecord
  <2>2. ServersReady
    BY <2>1 DEF TurnInv, Untouched
  <2> QED BY <1>1, <2>2 DEF ServersReady
<1> QED BY <1>1, <1>2, <1>3, <1>4 DEF TurnInv

\* A server registers while the name server is untouched.
LEMMA RegisterTurn ==
    ASSUME MetaInvariant, TurnInv, NEW s \in Servers, RegisterServer(s),
           UNCHANGED uservars
    PROVE  TurnInv'
<1> USE DEF MetaInvariant, TypeInv, TypeOK
<1>1. Untouched
  BY DEF TurnInv, Untouched, RegisterServer, ServersReady
<1>2. Untouched'
  BY <1>1 DEF Untouched, RegisterServer, uservars, threads
<1>3. ~IdPending' /\ IdsGiven' = 0
  BY <1>2 DEF Untouched, IdPending, IdsGiven
<1>4. RoundRobin'
  BY <1>2 DEF Untouched, RoundRobin
<1>5. currentSvr' = currentSvr /\ srvs' = Append(srvs, s) /\ srvs \in Seq(Servers)
  BY DEF RegisterServer, TablesOK
<1>6. currentSvr = 0
  <2>1. CASE srvs = <<>>
    BY <2>1 DEF TablesOK
  <2>2. CASE srvs # <<>>
    <3>1. IdsGiven = 0
      BY <1>1 DEF Untouched, IdPending, IdsGiven
    <3>2. PICK n \in Nat \ {0} : n = Len(srvs)
      BY <1>5, <2>2
    <3>3. currentSvr = 0 % n
      BY <2>2, <3>1, <3>2 DEF TurnInv
    <3> QED BY <3>2, <3>3, ModUnique
  <2> QED BY <2>1, <2>2
<1>7. PICK k \in Nat \ {0} : k = Len(srvs')
  BY <1>5
<1>8. 0 % k = 0
  BY <1>7, ModUnique
<1> QED BY <1>2, <1>3, <1>4, <1>5, <1>6, <1>7, <1>8 DEF TurnInv, Untouched

\* Steps that leave ids, locations and servers alone keep TurnInv.
LEMMA TurnFrame ==
    ASSUME TurnInv, UNCHANGED <<idmap, fileidcounter, files, srvs, currentSvr>>,
           ServersReady
    PROVE  TurnInv'
BY DEF TurnInv, IdsGiven, IdPending, Placed, RoundRobin, ServersReady

\* Every step keeps the turns.
LEMMA TurnNext ==
    MetaInvariant /\ PlaceInv /\ TurnInv /\ [OrderedNext]_vars => TurnInv'
<1> SUFFICES ASSUME MetaInvariant, PlaceInv, TurnInv, [OrderedNext]_vars PROVE TurnInv'
  OBVIOUS
<1>1. CASE \E c \in Conns : ThreadStep(c) /\ UNCHANGED uservars
  BY <1>1, PlaceTurn, OtherTurn
<1>2. CASE \E s \in Servers : RegisterServer(s) /\ UNCHANGED uservars
  BY <1>2, RegisterTurn
<1>3. CASE \E u \in Users : UserStep(u) \/ (ServersReady /\ Command(u))
  <2>1. UNCHANGED <<idmap, fileidcounter, files, srvs, currentSvr>>
    BY <1>3 DEF UserStep, Command, Give, Ask, TakeLocation, Transfer, TakeCount,
                TakeRecord, Take, nsvars, tables, threads
  <2>2. ServersReady
    <3>1. CASE \E u \in Users : UserStep(u)
      <4>1. ~Untouched
        BY <3>1 DEF Untouched, UserStep, Ask, TakeLocation, Transfer, TakeCount, TakeRecord
      <4> QED BY <4>1 DEF TurnInv, Untouched
    <3> QED BY <1>3, <3>1
  <2> QED BY <2>1, <2>2, TurnFrame
<1>4. CASE UNCHANGED vars
  <2>1. UNCHANGED <<idmap, fileidcounter, files, srvs, currentSvr, nsAt, toNs, userAt>>
    BY <1>4 DEF vars, nsvars, tables, threads, uservars
  <2> QED BY <2>1 DEF TurnInv, Untouched, IdsGiven, IdPending, Placed, RoundRobin, ServersReady
<1> QED BY <1>1, <1>2, <1>3, <1>4 DEF OrderedNext, NsStep

\* Initially no turn has been taken.
LEMMA TurnInit == Init => TurnInv
BY DEF Init, NsInit, TurnInv, Untouched, RoundRobin, IdsGiven, IdPending

\* Files are dealt to the data servers in turn, in the order of their ids,
\* whatever threads FindFile runs in and whatever is deleted meanwhile, when the
\* clients start after the servers.
THEOREM FilesDealtInTurn == OrderedSpec => []RoundRobin
<1>1. [OrderedNext]_vars => [Next]_vars
  BY OrderedIsNext
<1>2. OrderedSpec => Spec
  BY <1>1, PTL DEF OrderedSpec, Spec
<1>3. OrderedSpec => []TurnInv
  BY <1>2, TurnInit, TurnNext, MetaInvariantHolds, PlacesKnown, PTL DEF OrderedSpec
<1>4. TurnInv => RoundRobin
  BY DEF TurnInv
<1> QED BY <1>3, <1>4, PTL
-----------------------------------------------------------------------------
(* The users and their connections.                                        *)

\* An id that is not another file's stays so in every step.
OwnStays ==
    \A m \in Floc :
        (m.fd < fileidcounter /\ \A f \in DOMAIN idmap : idmap[f] = m.fd => f = m.file)
        => (m.fd < fileidcounter' /\ \A f \in DOMAIN idmap' : idmap'[f] = m.fd => f = m.file)

\* An id that is not another file's stays so in every step.
LEMMA OwnStep ==
    ASSUME MetaInvariant, [Next]_vars
    PROVE  OwnStays
<1> USE DEF MetaInvariant, TypeInv, TypeOK
<1>1. CASE UNCHANGED <<idmap, fileidcounter>>
  BY <1>1 DEF OwnStays
<1>2. CASE \E c \in Conns : ThreadStep(c) /\ UNCHANGED uservars
  <2>1. PICK c \in Conns : ThreadStep(c)
    BY <1>2
  <2>2. CASE MapFile(c)
    <3>1. CASE nsFloc[c].file \in DOMAIN idmap
      BY <2>2, <3>1, <1>1 DEF MapFile
    <3>2. CASE nsFloc[c].file \notin DOMAIN idmap
      <4>1. /\ DOMAIN idmap' = DOMAIN idmap \cup {nsFloc[c].file}
            /\ \A f \in DOMAIN idmap : idmap'[f] = idmap[f]
            /\ idmap'[nsFloc[c].file] = fileidcounter
            /\ fileidcounter' = fileidcounter + 1
            /\ fileidcounter \in Nat
        BY <2>2, <3>2 DEF MapFile, NewId, Put, TablesOK
      <4>2. \A m \in Floc : m.fd \in Int
        BY DEF Floc
      <4> QED BY <4>1, <4>2 DEF OwnStays
    <3> QED BY <3>1, <3>2
  <2>3. CASE UnmapFile(c)
    <3>1. /\ UNCHANGED fileidcounter
          /\ DOMAIN idmap' \subseteq DOMAIN idmap
          /\ \A f \in DOMAIN idmap' : idmap'[f] = idmap[f]
      BY <2>3 DEF UnmapFile, Without, Restrict
    <3> QED BY <3>1 DEF OwnStays
  <2>4. CASE ~MapFile(c) /\ ~UnmapFile(c)
    <3>1. UNCHANGED <<idmap, fileidcounter>>
      BY <2>1, <2>4 DEF ThreadStep, ReadRequest, TakeLock, PlaceFile, SendLocation,
           DeleteUnknown, EraseFile, SendCount, BeginWalk, SendRecord, NextRecord, tables
    <3> QED BY <3>1, <1>1
  <2> QED BY <2>2, <2>3, <2>4
<1>3. CASE ~\E c \in Conns : ThreadStep(c) /\ UNCHANGED uservars
  BY <1>1, <1>3, OtherSteps
<1> QED BY <1>2, <1>3

\* Nothing happens on a connection, or to the user that has its socket_lock.
Still(d) ==
    /\ nsAt'[d] = nsAt[d] /\ nsFloc'[d] = nsFloc[d] /\ nsIt'[d] = nsIt[d]
    /\ toNs'[d] = toNs[d] /\ toClient'[d] = toClient[d]
StillHeld(d) ==
    /\ socketLock'[d] = socketLock[d]
    /\ socketLock[d] # Nobody =>
           /\ userAt'[socketLock[d]] = userAt[socketLock[d]]
           /\ command'[socketLock[d]] = command[socketLock[d]]
           /\ request'[socketLock[d]] = request[socketLock[d]]
           /\ records'[socketLock[d]] = records[socketLock[d]]

\* A connection on which nothing happens keeps its state of affairs.
LEMMA TalkFrame ==
    ASSUME TypeInv, NEW d \in Conns, Talk(d), Still(d), StillHeld(d), OwnStays,
           nsAt[d] \in ListPlaces => UNCHANGED files
    PROVE  Talk(d)'
<1>1. Ahead(d)' = Ahead(d)
  <2>1. CASE nsAt[d] \in ListPlaces
    BY <2>1 DEF Ahead, Still, ListPlaces
  <2>2. CASE nsAt[d] \notin ListPlaces
    BY <2>2 DEF Ahead, Still, ListPlaces
  <2> QED BY <2>1, <2>2
<1>2. Resting(d)' <=> Resting(d)
  BY <1>1 DEF Resting, Still
<1>3. CASE socketLock[d] = Nobody
  BY <1>2, <1>3 DEF Talk, Quiet, Still, StillHeld
<1>4. CASE socketLock[d] # Nobody
  <2>1. PICK u : u = socketLock[d]
    OBVIOUS
  <2>2. /\ socketLock'[d] = u /\ u # Nobody
        /\ userAt'[u] = userAt[u] /\ command'[u] = command[u]
        /\ request'[u] = request[u] /\ records'[u] = records[u]
    BY <1>4, <2>1 DEF StillHeld
  <2>3. CASE Asking(u, d)
    <3>1. Asking(u, d)'
      BY <1>2, <2>2, <2>3 DEF Asking, Still, TypeOf
    <3> QED BY <2>2, <3>1 DEF Talk
  <2>4. CASE Finding(u, d)
    <3>1. nsFloc[d] \in Floc
      BY DEF TypeInv, TypeOK, ThreadsOK
    <3>2. Finding(u, d)'
      BY <2>2, <2>4, <3>1 DEF Finding, Still, OwnId, OwnStays
    <3> QED BY <2>2, <3>2 DEF Talk
  <2>5. CASE Answered(u, d)
    <3>a. PICK q \in Seq(Msg) : q = toClient[d]
      BY DEF TypeInv, TypeOK, ThreadsOK
    <3>b. Len(q) = 1
      BY <2>5, <3>a DEF Answered
    <3>0. toClient[d][1] \in Msg
      BY <3>a, <3>b
    <3>1. toClient[d][1].floc \in Floc
      BY <3>0 DEF Msg
    <3>2. Answered(u, d)'
      BY <2>2, <2>5, <3>1 DEF Answered, Still, OwnId, OwnStays
    <3> QED BY <2>2, <3>2 DEF Talk
  <2>6. CASE Listed(u, d)
    <3>1. Listed(u, d)'
      BY <1>1, <2>2, <2>6 DEF Listed, Still
    <3> QED BY <2>2, <3>1 DEF Talk
  <2> QED BY <1>4, <2>1, <2>3, <2>4, <2>5, <2>6 DEF Talk
<1> QED BY <1>3, <1>4

\* A thread leaves the other connections alone.
LEMMA OtherConns ==
    ASSUME TypeInv, NEW c \in Conns, ThreadStep(c)
    PROVE  \A d \in Conns \ {c} : Still(d)
<1> USE DEF TypeInv, TypeOK, ThreadsOK, Goto, Return, threads, Write, Reply
<1>1. CASE ReadRequest(c)
  BY <1>1 DEF ReadRequest, HandlerOf, Still
<1>2. CASE TakeLock(c) \/ MapFile(c) \/ PlaceFile(c)
  BY <1>2 DEF TakeLock, MapFile, PlaceFile, Still
<1>3. CASE DeleteUnknown(c) \/ UnmapFile(c) \/ EraseFile(c)
  BY <1>3 DEF DeleteUnknown, UnmapFile, EraseFile, Still
<1>4. CASE SendCount(c) \/ SendRecord(c) \/ SendLocation(c)
  BY <1>4 DEF SendCount, SendRecord, SendLocation, Still
<1>5. CASE BeginWalk(c) \/ NextRecord(c)
  BY <1>5 DEF BeginWalk, NextRecord, Advance, Still
<1> QED BY <1>1, <1>2, <1>3, <1>4, <1>5 DEF ThreadStep

\* The records still ahead are finitely many, and one fewer once one is sent.
LEMMA AheadFinite ==
    ASSUME TypeInv, NEW c \in Conns
    PROVE  IsFiniteSet(DOMAIN files) /\ IsFiniteSet(Ahead(c)) /\ Cardinality(Ahead(c)) \in Nat
           /\ (Cardinality(Ahead(c)) = 0 <=> Ahead(c) = {})
<1>1. IsFiniteSet(DOMAIN files)
  <2>1. fileidcounter - 1 \in Int /\ 0 \in Int
    BY DEF TypeInv, TypeOK, TablesOK
  <2>2. IsFiniteSet(0..(fileidcounter - 1))
    BY <2>1, FS_Interval
  <2>3. DOMAIN files \in SUBSET (0..(fileidcounter - 1))
    BY DEF TypeInv, TypeOK, TablesOK
  <2> QED BY <2>2, <2>3, FS_Subset
<1>2. Ahead(c) \in SUBSET DOMAIN files
  BY DEF Ahead
<1>3. IsFiniteSet(Ahead(c))
  BY <1>1, <1>2, FS_Subset
<1> QED BY <1>1, <1>3, FS_CardinalityType, FS_EmptySet

\* What the thread of a connection at work finds there.
LEMMA AtWork ==
    ASSUME TypeInv, TalkInv, NEW c \in Conns
    PROVE  /\ nsAt[c] \in Locating =>
                  socketLock[c] \in Users /\ socketLock[c] # Nobody /\ Finding(socketLock[c], c)
           /\ nsAt[c] = "count" \/ nsAt[c] = "send" =>
                  socketLock[c] \in Users /\ socketLock[c] # Nobody /\ Listed(socketLock[c], c)
<1>1. Talk(c) /\ socketLock[c] \in Users \cup {Nobody}
  BY DEF TalkInv, TypeInv, TypeOK, UsersOK
<1>2. nsAt[c] = "send" => Ahead(c) # {}
  <2> SUFFICES ASSUME nsAt[c] = "send" PROVE nsIt[c] \in Ahead(c)
    OBVIOUS
  <2>1. nsIt[c] \in DOMAIN files /\ nsIt[c] \in Int
    BY DEF TalkInv, TypeInv, TypeOK, ThreadsOK
  <2> QED BY <2>1 DEF Ahead
<1>3. Resting(c) => nsAt[c] \notin Locating /\ nsAt[c] # "count" /\ nsAt[c] # "send"
  BY <1>2 DEF Resting, Locating
<1>4. CASE socketLock[c] = Nobody
  BY <1>1, <1>3, <1>4 DEF Talk, Quiet
<1>5. CASE socketLock[c] # Nobody
  <2>1. PICK u : u = socketLock[c]
    OBVIOUS
  <2>2. Asking(u, c) \/ Finding(u, c) \/ Answered(u, c) \/ Listed(u, c)
    BY <1>1, <1>5, <2>1 DEF Talk
  <2>3. nsAt[c] \in Locating => Finding(u, c)
    BY <1>3, <2>2 DEF Asking, Answered, Listed, Locating
  <2>4. nsAt[c] = "count" \/ nsAt[c] = "send" => Listed(u, c)
    BY <1>3, <2>2 DEF Asking, Answered, Finding, Locating
  <2> QED BY <1>1, <1>5, <2>1, <2>3, <2>4
<1> QED BY <1>4, <1>5

\* A request is read: a deletion, or the one whose answer is waited for.
LEMMA ReadTalk ==
    ASSUME TypeInv, TalkInv, NEW c \in Conns, ReadRequest(c), UNCHANGED uservars
    PROVE  Talk(c)' /\ (nsAt'[c] \in ListPlaces => "cluster" \in Commands)
<1> USE DEF TypeInv, TypeOK
<1>1. PICK q \in Seq(Msg) : q = toNs[c]
  BY DEF ThreadsOK
<1>2. q # <<>> /\ Len(q) \in Nat \ {0} /\ 1 \in 1..Len(q) /\ Head(q) = q[1] /\ q[1] \in Msg
  BY <1>1 DEF ReadRequest
<1>3. /\ nsAt[c] = "read" /\ nsAt'[c] = HandlerOf(q[1].type)
      /\ nsFloc'[c] = q[1].floc /\ nsIt'[c] = nsIt[c]
      /\ toNs'[c] = Tail(q) /\ toClient'[c] = toClient[c]
  BY <1>1, <1>2 DEF ReadRequest, ThreadsOK, Goto
<1>4. Len(Tail(q)) = Len(q) - 1 /\ \A i \in 1..(Len(q) - 1) : Tail(q)[i] = q[i + 1]
  BY <1>2
<1>5. nsAt'[c] \notin {"begin", "send", "next"} /\ Ahead(c)' = {}
  BY <1>3 DEF HandlerOf, Ahead
<1>6. Talk(c)
  BY DEF TalkInv
<1>7. CASE socketLock[c] = Nobody
  <2>1. Quiet(c)
    BY <1>6, <1>7 DEF Talk
  <2>2. \A i \in 1..Len(q) : q[i].type = "DELETEFILE"
    BY <1>1, <2>1 DEF Quiet
  <2>3. nsAt'[c] = "delete"
    BY <1>2, <1>3, <2>2 DEF HandlerOf
  <2>4. \A i \in 1..Len(Tail(q)) : Tail(q)[i].type = "DELETEFILE"
    <3> TAKE i \in 1..Len(Tail(q))
    <3>1. i + 1 \in 1..Len(q) /\ i \in 1..(Len(q) - 1)
      BY <1>2, <1>4
    <3> QED BY <1>4, <2>2, <3>1
  <2>5. Quiet(c)'
    BY <1>3, <1>5, <2>1, <2>3, <2>4 DEF Quiet, Resting
  <2> QED BY <1>7, <2>3, <2>5 DEF Talk, uservars, ListPlaces
<1>8. CASE socketLock[c] # Nobody
  <2>1. PICK u : u = socketLock[c]
    OBVIOUS
  <2>2. Asking(u, c)
    BY <1>1, <1>2, <1>3, <1>6, <1>8, <2>1 DEF Talk, Finding, Answered, Listed
  <2>3. u \in Users /\ command[u] \in {"touch", "stat", "cluster"} /\ command[u] \in Commands
    BY <1>8, <2>1, <2>2, UserAssumption DEF Asking, TalkInv, SocketInv, UsersOK
  <2>4. /\ q[Len(q)].type = TypeOf(command[u])
        /\ q[Len(q)].floc.file = request[u].file
        /\ \A i \in 1..Len(q) : i # Len(q) => q[i].type = "DELETEFILE"
        /\ toClient[c] = <<>> /\ userAt[u] = "wait"
    BY <1>1, <2>2 DEF Asking
  <2>5. socketLock'[c] = u /\ UNCHANGED <<userAt, command, request, records>>
    BY <2>1 DEF uservars
  <2>6. CASE Len(q) = 1
    <3>0. Tail(q) \in Seq(Msg) /\ Len(Tail(q)) = 0
      BY <1>2, <1>4, <2>6
    <3>1. Tail(q) = <<>>
      BY <3>0, EmptySeq
    <3>2. CASE command[u] = "cluster"
      <4>1. nsAt'[c] = "count"
        BY <1>3, <2>4, <2>6, <3>2 DEF TypeOf, HandlerOf
      <4>2. Listed(u, c)'
        BY <1>3, <2>4, <2>5, <3>1, <3>2, <4>1 DEF Listed
      <4> QED BY <1>8, <2>1, <2>3, <2>5, <3>2, <4>2 DEF Talk
    <3>3. CASE command[u] # "cluster"
      <4>1. nsAt'[c] = "find"
        BY <1>3, <2>3, <2>4, <2>6, <3>3 DEF TypeOf, HandlerOf
      <4>2. Finding(u, c)'
        BY <1>3, <2>4, <2>5, <2>6, <3>1, <3>3, <4>1 DEF Finding, Locating
      <4> QED BY <1>8, <2>1, <2>5, <4>1, <4>2 DEF Talk, ListPlaces
    <3> QED BY <3>2, <3>3
  <2>7. CASE Len(q) # 1
    <3>1. nsAt'[c] = "delete"
      BY <1>2, <1>3, <2>4, <2>7 DEF HandlerOf
    <3>2. PICK r : r = Tail(q)
      OBVIOUS
    <3>a. Len(r) = Len(q) - 1 /\ Len(r) \in Nat \ {0} /\ Len(r) \in 1..(Len(q) - 1)
      BY <1>2, <1>4, <2>7, <3>2
    <3>b. r[Len(r)] = q[Len(r) + 1] /\ Len(r) + 1 = Len(q)
      BY <1>2, <1>4, <3>2, <3>a
    <3>3. /\ Len(r) = Len(q) - 1 /\ Len(r) \in Nat \ {0} /\ r # <<>>
          /\ r[Len(r)] = q[Len(q)]
      BY <3>a, <3>b
    <3>4. \A i \in 1..Len(r) : i # Len(r) => r[i].type = "DELETEFILE"
      <4> SUFFICES ASSUME NEW i \in 1..Len(r), i # Len(r) PROVE r[i].type = "DELETEFILE"
        OBVIOUS
      <4>1. i + 1 \in 1..Len(q) /\ i + 1 # Len(q) /\ i \in 1..(Len(q) - 1)
        BY <1>2, <3>3
      <4> QED BY <1>4, <2>4, <3>2, <4>1
    <3>5. Asking(u, c)'
      BY <1>3, <1>5, <2>4, <2>5, <3>1, <3>2, <3>3, <3>4 DEF Asking, Resting, TypeOf
    <3> QED BY <1>8, <2>1, <2>5, <3>1, <3>5 DEF Talk, ListPlaces
  <2> QED BY <2>6, <2>7
<1> QED BY <1>7, <1>8

\* A deletion goes on: nobody waits for it.
LEMMA DeleteTalk ==
    ASSUME TypeInv, TalkInv, NEW c \in Conns, UNCHANGED uservars,
           nsAt[c] \in {"delete", "unmap", "erase"},
           nsAt'[c] \in {"read", "unmap", "erase"},
           UNCHANGED <<toNs, toClient>>
    PROVE  Talk(c)'
<1>1. Talk(c) /\ Ahead(c)' = {}
  BY DEF TalkInv, Ahead
<1>2. Resting(c)'
  BY <1>1 DEF Resting
<1>3. CASE socketLock[c] = Nobody
  BY <1>1, <1>2, <1>3 DEF Talk, Quiet, uservars
<1>4. CASE socketLock[c] # Nobody
  <2>1. PICK u : u = socketLock[c]
    OBVIOUS
  <2>2. Asking(u, c)
    BY <1>1, <1>4, <2>1 DEF Talk, Finding, Answered, Listed, Locating
  <2>3. socketLock'[c] = u /\ UNCHANGED <<userAt, command, request>>
    BY <2>1 DEF uservars
  <2>4. Asking(u, c)'
    BY <1>2, <2>2, <2>3 DEF Asking, TypeOf
  <2> QED BY <1>4, <2>1, <2>3, <2>4 DEF Talk
<1> QED BY <1>3, <1>4

\* FindFile goes on, for the user that waits.
LEMMA FindTalk ==
    ASSUME MetaInvariant, PlaceInv, TalkInv, NEW c \in Conns, ThreadStep(c),
           nsAt[c] \in Locating, UNCHANGED uservars
    PROVE  Talk(c)' /\ nsAt'[c] \notin ListPlaces
<1> USE DEF MetaInvariant, TypeInv, TypeOK
<1>1. PICK u \in Users : u = socketLock[c] /\ u # Nobody /\ Finding(u, c)
  BY AtWork
<1>2. socketLock'[c] = u /\ UNCHANGED <<userAt, command, request, records>>
  BY <1>1 DEF uservars
<1>3. TakeLock(c) \/ MapFile(c) \/ PlaceFile(c) \/ SendLocation(c)
  BY DEF Locating, ThreadStep, ReadRequest, DeleteUnknown, UnmapFile, EraseFile,
         SendCount, BeginWalk, SendRecord, NextRecord
<1>4. CASE TakeLock(c) \/ MapFile(c)
  <2>1. /\ UNCHANGED <<toNs, toClient>> /\ nsAt'[c] \in {"map", "place"}
        /\ nsFloc'[c].file = nsFloc[c].file
    BY <1>1, <1>4 DEF TakeLock, MapFile, Goto, Finding, Locating, ThreadsOK, Floc
  <2>2. Finding(u, c)'
    BY <1>1, <1>2, <2>1 DEF Finding, Locating
  <2> QED BY <1>1, <1>2, <2>1, <2>2 DEF Talk, ListPlaces
<1>5. CASE PlaceFile(c)
  <2>1. PICK id \in Int : id = nsFloc[c].fd
    BY DEF ThreadsOK, Floc
  <2>2. PICK f : f = nsFloc[c].file
    OBVIOUS
  <2>3. f \in DOMAIN idmap /\ idmap[f] = id /\ id < fileidcounter
    BY <1>5, <2>1, <2>2 DEF TableInv, Placing, PlaceFile, IdInv
  <2>4. id \in DOMAIN files' /\ UNCHANGED <<idmap, fileidcounter>>
    BY <1>5, <2>1 DEF PlaceFile, Put
  <2>5. files'[id].fd = id
    <3>1. PlaceInv'
      BY <1>5, PlaceIds
    <3> QED BY <3>1, <2>4 DEF PlaceInv
  <2>6. files'[id].file = f
    <3>1. TableInv'
      BY <1>5, PlaceTable
    <3> QED BY <3>1, <2>3, <2>4 DEF TableInv
  <2>7. \A g \in DOMAIN idmap : idmap[g] = id => g = f
    BY <2>3 DEF TableInv
  <2>8. /\ nsFloc'[c] = files'[id] /\ nsAt'[c] = "found" /\ UNCHANGED <<toNs, toClient>>
    BY <1>5, <2>1 DEF PlaceFile, Goto, ThreadsOK
  <2>9. OwnId(nsFloc[c])'
    BY <2>3, <2>4, <2>5, <2>6, <2>7, <2>8 DEF OwnId
  <2>10. Finding(u, c)'
    BY <1>1, <1>2, <2>2, <2>6, <2>8, <2>9 DEF Finding, Locating
  <2> QED BY <1>1, <1>2, <2>8, <2>10 DEF Talk, ListPlaces
<1>6. CASE SendLocation(c)
  <2>1. PICK m : m = [type |-> "FILELOCATION", floc |-> nsFloc[c], num |-> 0]
    OBVIOUS
  <2>2. m.type = "FILELOCATION" /\ m.floc = nsFloc[c]
    BY <2>1
  <2>3. toClient'[c] = Append(toClient[c], m) /\ toClient[c] = <<>>
    BY <1>1, <1>6, <2>1 DEF SendLocation, Reply, Write, ThreadsOK, Finding
  <2>4. Len(toClient'[c]) = 1 /\ toClient'[c][1] = m
    BY <2>3
  <2>5. nsAt'[c] = "read" /\ UNCHANGED <<toNs, idmap, fileidcounter>> /\ nsAt[c] = "found"
    BY <1>6 DEF SendLocation, Return, Goto, tables, ThreadsOK
  <2>6. Answered(u, c)'
    BY <1>1, <1>2, <2>2, <2>4, <2>5 DEF Finding, Answered, OwnId
  <2> QED BY <1>1, <1>2, <2>5, <2>6 DEF Talk, ListPlaces
<1> QED BY <1>3, <1>4, <1>5, <1>6

\* The iterator moves on: what is ahead of it stays ahead.
LEMMA AdvanceAhead ==
    ASSUME TypeInv, TalkInv, NEW c \in Conns, BeginWalk(c) \/ NextRecord(c)
    PROVE  /\ Ahead(c)' = Ahead(c)
           /\ nsAt[c] \in {"begin", "next"} /\ nsAt'[c] \in {"read", "send"}
           /\ nsAt'[c] = "send" => nsIt'[c] \in DOMAIN files /\ Ahead(c) # {}
           /\ UNCHANGED <<tables, flocLock, toNs, toClient>>
<1> USE DEF TypeInv, TypeOK
<1>1. /\ UNCHANGED <<tables, flocLock, toNs, toClient>>
      /\ nsAt[c] \in {"begin", "next"} /\ Advance(c, Ahead(c))
  <2>1. CASE BeginWalk(c)
    BY <2>1 DEF BeginWalk, Ahead
  <2>2. CASE NextRecord(c)
    <3>1. nsAt[c] = "next" /\ nsIt[c] \in DOMAIN files
      BY <2>2 DEF NextRecord, TalkInv
    <3> QED BY <2>2, <3>1 DEF NextRecord, Ahead
  <2> QED BY <2>1, <2>2
<1>2. \A id \in DOMAIN files : id \in Int
  BY DEF TablesOK
<1>3. nsIt[c] \in Int
  BY DEF ThreadsOK
<1>4. CASE Ahead(c) = {} /\ Return(c)
  <2>1. nsAt'[c] = "read"
    BY <1>4 DEF Return, Goto, ThreadsOK
  <2>2. Ahead(c)' = {}
    BY <2>1 DEF Ahead
  <2> QED BY <1>1, <1>4, <2>1, <2>2
<1>5. CASE ~(Ahead(c) = {} /\ Return(c))
  <2>1. PICK id \in Ahead(c) : /\ \A other \in Ahead(c) : id <= other
                               /\ nsIt'[c] = id /\ nsAt'[c] = "send"
    BY <1>1, <1>5 DEF Advance, Goto, ThreadsOK
  <2>2. id \in DOMAIN files /\ UNCHANGED files
    BY <1>1, <2>1 DEF Ahead, tables
  <2>3. Ahead(c)' = {i \in DOMAIN files : i >= id}
    BY <2>1, <2>2 DEF Ahead
  <2>4. CASE nsAt[c] = "begin"
    <3>1. Ahead(c) = DOMAIN files
      BY <2>4 DEF Ahead
    <3>2. \A i \in DOMAIN files : i >= id
      BY <1>2, <2>1, <2>2, <3>1
    <3> QED BY <1>1, <2>1, <2>2, <2>3, <3>1, <3>2
  <2>5. CASE nsAt[c] = "next"
    <3>1. Ahead(c) = {i \in DOMAIN files : i > nsIt[c]}
      BY <2>5 DEF Ahead
    <3>2. \A i \in DOMAIN files : i >= id <=> i > nsIt[c]
      BY <1>2, <1>3, <2>1, <2>2, <3>1
    <3>3. Ahead(c)' = Ahead(c)
      BY <2>3, <3>1, <3>2
    <3> QED BY <1>1, <2>1, <2>2, <3>3
  <2> QED BY <1>1, <2>4, <2>5
<1> QED BY <1>4, <1>5

\* The iterator moves on, whoever the records are for.
LEMMA WalkTalk ==
    ASSUME TypeInv, TalkInv, NEW c \in Conns, BeginWalk(c) \/ NextRecord(c),
           UNCHANGED uservars
    PROVE  Talk(c)'
<1>1. /\ Ahead(c)' = Ahead(c)
      /\ nsAt[c] \in {"begin", "next"} /\ nsAt'[c] \in {"read", "send"}
      /\ nsAt'[c] = "send" => Ahead(c) # {}
      /\ UNCHANGED <<toNs, toClient>>
  BY AdvanceAhead DEF tables
<1>2. Talk(c) /\ (Resting(c) => Resting(c)')
  BY <1>1 DEF TalkInv, Resting
<1>3. CASE socketLock[c] = Nobody
  BY <1>1, <1>2, <1>3 DEF Talk, Quiet, uservars
<1>4. CASE socketLock[c] # Nobody
  <2>1. PICK u : u = socketLock[c]
    OBVIOUS
  <2>2. socketLock'[c] = u /\ UNCHANGED <<userAt, command, request, records>>
    BY <2>1 DEF uservars
  <2>3. Asking(u, c) \/ Listed(u, c)
    BY <1>1, <1>2, <1>4, <2>1 DEF Talk, Finding, Answered, Locating
  <2>4. Asking(u, c) => Asking(u, c)'
    BY <1>1, <1>2, <2>2 DEF Asking, TypeOf
  <2>5. Listed(u, c) => Listed(u, c)'
    BY <1>1, <2>2 DEF Listed
  <2> QED BY <1>4, <2>1, <2>2, <2>3, <2>4, <2>5 DEF Talk
<1> QED BY <1>3, <1>4

\* A message more at the end.
LEMMA Longer ==
    ASSUME NEW q \in Seq(Msg), NEW m
    PROVE  /\ Len(Append(q, m)) = Len(q) + 1
           /\ Append(q, m)[Len(q) + 1] = m
           /\ \A i \in 1..Len(q) : Append(q, m)[i] = q[i]
           /\ Append(q, m) # <<>>
           /\ \A i \in 1..Len(Append(q, m)) : i \in 1..Len(q) \/ i = Len(q) + 1
OBVIOUS

\* SendAllInfo announces as many records as are ahead of it, and sends one.
LEMMA SendTalk ==
    ASSUME TypeInv, TalkInv, NEW c \in Conns, SendCount(c) \/ SendRecord(c),
           UNCHANGED uservars
    PROVE  Talk(c)'
<1> USE DEF TypeInv, TypeOK
<1>1. PICK u \in Users : u = socketLock[c] /\ u # Nobody /\ Listed(u, c)
  BY AtWork DEF SendCount, SendRecord
<1>2. socketLock'[c] = u /\ UNCHANGED <<userAt, command, request, records>>
  BY <1>1 DEF uservars
<1>3. PICK q \in Seq(Msg) : q = toClient[c]
  BY DEF ThreadsOK
<1>4. CASE SendCount(c)
  <2>1. PICK m : m = [type |-> "ALLINFORMATION", floc |-> NoFloc, num |-> ItemNum]
    OBVIOUS
  <2>2. m.type = "ALLINFORMATION" /\ m.num = ItemNum
    BY <2>1
  <2>3. /\ toClient'[c] = Append(q, m) /\ q = <<>>
        /\ nsAt'[c] = "begin" /\ UNCHANGED <<toNs, files>> /\ userAt[u] = "wait"
    BY <1>1, <1>3, <1>4, <2>1 DEF SendCount, Write, Goto, ThreadsOK, Listed, tables
  <2>4. Len(toClient'[c]) = 1 /\ toClient'[c][1] = m /\ toClient'[c] # <<>>
    BY <2>3
  <2>5. Ahead(c)' = DOMAIN files
    BY <2>3 DEF Ahead
  <2>6. ItemNum \in Nat /\ Cardinality(Ahead(c)') = ItemNum
    BY <2>5, FilesFinite DEF ItemNum
  <2>7. m.num = 1 - 1 + Cardinality(Ahead(c)')
    BY <2>2, <2>6
  <2>8. \A i \in 1..Len(toClient'[c]) : i = 1
    BY <2>4
  <2>9. Listed(u, c)'
    BY <1>1, <1>2, <2>2, <2>3, <2>4, <2>7, <2>8 DEF Listed
  <2> QED BY <1>1, <1>2, <2>9 DEF Talk
<1>5. CASE SendRecord(c)
  <2>1. PICK m : m = [type |-> "FILELOCATION", floc |-> nsFloc[c], num |-> 0]
    OBVIOUS
  <2>2. m.type = "FILELOCATION"
    BY <2>1
  <2>3. /\ toClient'[c] = Append(q, m)
        /\ nsAt[c] = "send" /\ nsAt'[c] = "next"
        /\ UNCHANGED <<toNs, files, nsIt>>
    BY <1>3, <1>5, <2>1 DEF SendRecord, Reply, Write, Goto, ThreadsOK, tables
  <2>4. nsIt[c] \in DOMAIN files /\ nsIt[c] \in Int /\ \A i \in DOMAIN files : i \in Int
    BY <2>3 DEF TalkInv, TablesOK, ThreadsOK
  <2>5. PICK it \in Int : it = nsIt[c]
    BY <2>4
  <2>6. /\ Ahead(c) = {i \in DOMAIN files : i >= it}
        /\ Ahead(c)' = {i \in DOMAIN files : i > it}
    BY <2>3, <2>5 DEF Ahead
  <2>7. PICK A : A = {i \in DOMAIN files : i > it}
    OBVIOUS
  <2>8. Ahead(c) = A \cup {it} /\ it \notin A /\ Ahead(c)' = A
    BY <2>4, <2>5, <2>6, <2>7
  <2>9. IsFiniteSet(A) /\ Cardinality(A) \in Nat
    <3>1. IsFiniteSet(DOMAIN files)
      BY AheadFinite
    <3>2. A \in SUBSET DOMAIN files
      BY <2>7
    <3> QED BY <3>1, <3>2, FS_Subset, FS_CardinalityType
  <2>10. Cardinality(Ahead(c)) = Cardinality(A) + 1
    BY <2>8, <2>9, FS_AddElement
  <2>11. Len(q) \in Nat
    BY <1>3
  <2>12. /\ Len(toClient'[c]) = Len(q) + 1 /\ toClient'[c] # <<>>
         /\ toClient'[c][Len(q) + 1] = m
         /\ \A i \in 1..Len(q) : toClient'[c][i] = q[i]
         /\ \A i \in 1..Len(toClient'[c]) : i \in 1..Len(q) \/ i = Len(q) + 1
    BY <2>3, Longer
  <2>13. Len(q) + Cardinality(Ahead(c)) = Len(toClient'[c]) + Cardinality(A)
    BY <2>9, <2>10, <2>11, <2>12
  <2>14. Len(q) - 1 + Cardinality(Ahead(c)) = Len(toClient'[c]) - 1 + Cardinality(A)
    BY <2>9, <2>10, <2>11, <2>12
  <2>15. CASE userAt[u] = "wait"
    <3>1. /\ q # <<>> /\ q[1].type = "ALLINFORMATION"
          /\ q[1].num = Len(q) - 1 + Cardinality(Ahead(c))
          /\ \A i \in 1..Len(q) : i # 1 => q[i].type = "FILELOCATION"
      BY <1>1, <1>3, <2>3, <2>15 DEF Listed
    <3>2. 1 \in 1..Len(q)
      BY <3>1
    <3>3. \A i \in 1..Len(toClient'[c]) : i # 1 => toClient'[c][i].type = "FILELOCATION"
      BY <2>2, <2>12, <3>1
    <3>4. /\ toClient'[c][1].type = "ALLINFORMATION"
          /\ toClient'[c][1].num = Len(toClient'[c]) - 1 + Cardinality(Ahead(c)')
      BY <2>8, <2>12, <2>14, <3>1, <3>2
    <3>5. Listed(u, c)'
      BY <1>1, <1>2, <2>3, <2>12, <2>15, <3>3, <3>4 DEF Listed
    <3> QED BY <1>1, <1>2, <3>5 DEF Talk
  <2>16. CASE userAt[u] # "wait"
    <3>1. /\ userAt[u] = "list"
          /\ records[u] = Len(q) + Cardinality(Ahead(c))
          /\ \A i \in 1..Len(q) : q[i].type = "FILELOCATION"
      BY <1>1, <1>3, <2>16 DEF Listed
    <3>2. \A i \in 1..Len(toClient'[c]) : toClient'[c][i].type = "FILELOCATION"
      BY <2>2, <2>12, <3>1
    <3>3. records[u] = Len(toClient'[c]) + Cardinality(Ahead(c)')
      BY <2>8, <2>13, <3>1
    <3>4. Listed(u, c)'
      BY <1>1, <1>2, <2>3, <3>1, <3>2, <3>3 DEF Listed
    <3> QED BY <1>1, <1>2, <3>4 DEF Talk
  <2> QED BY <2>15, <2>16
<1> QED BY <1>4, <1>5

\* While a listing may run, there is no other thread that changes the tables.
LEMMA FilesStill ==
    ASSUME TypeInv, TalkInv, ListingsAlone, NEW c \in Conns, ThreadStep(c),
           NEW d \in Conns, nsAt[d] \in ListPlaces
    PROVE  UNCHANGED files
<1>1. c = d
  BY DEF TalkInv, ListingsAlone
<1>2. nsAt[c] \in {"count", "begin", "send", "next"}
  BY <1>1 DEF ListPlaces
<1>3. ~PlaceFile(c) /\ ~EraseFile(c)
  BY <1>2 DEF PlaceFile, EraseFile
<1> QED BY <1>3 DEF ThreadStep, ReadRequest, TakeLock, MapFile, SendLocation, DeleteUnknown,
                UnmapFile, SendCount, BeginWalk, SendRecord, NextRecord, tables

\* What is said of users' locations stays true in steps that leave them.
LEMMA TransferFrame ==
    ASSUME TypeInv, TalkInv, OwnStays, NEW u \in Users, userAt[u] = "transfer",
           userFloc'[u] = userFloc[u], request'[u] = request[u]
    PROVE  userFloc'[u].file = request'[u].file /\ OwnId(userFloc[u])'
<1>1. userFloc[u] \in Floc
  BY DEF TypeInv, TypeOK, UsersOK
<1>2. PICK m \in Floc : m = userFloc[u]
  BY <1>1
<1>3. m.fd < fileidcounter /\ \A f \in DOMAIN idmap : idmap[f] = m.fd => f = m.file
  BY <1>2 DEF TalkInv, OwnId
<1>4. m.fd < fileidcounter' /\ \A f \in DOMAIN idmap' : idmap'[f] = m.fd => f = m.file
  BY <1>3 DEF OwnStays
<1> QED BY <1>2, <1>4 DEF TalkInv, OwnId

\* Every step of a thread keeps what is on the connections.
LEMMA ThreadTalk ==
    ASSUME MetaInvariant, PlaceInv, TalkInv, ListingsAlone, NEW c \in Conns,
           ThreadStep(c), UNCHANGED uservars
    PROVE  TalkInv'
<1>0. TypeInv /\ OwnStays
  <2>1. Next
    BY DEF Next, NsStep
  <2> QED BY <2>1, OwnStep DEF MetaInvariant
<1> USE <1>0
<1>1. Talk(c)' /\ (nsAt'[c] \in ListPlaces => "cluster" \in Commands)
  <2>1. CASE ReadRequest(c)
    BY <2>1, ReadTalk
  <2>2. CASE nsAt[c] \in Locating
    BY <2>2, FindTalk
  <2>3. CASE (TakeLock(c) /\ nsAt[c] = "delete") \/ DeleteUnknown(c) \/ UnmapFile(c) \/ EraseFile(c)
    <3>1. /\ nsAt[c] \in {"delete", "unmap", "erase"}
          /\ nsAt'[c] \in {"read", "unmap", "erase"}
          /\ UNCHANGED <<toNs, toClient>>
      BY <2>3 DEF TakeLock, DeleteUnknown, UnmapFile, EraseFile, Goto, Return,
                  TypeInv, TypeOK, ThreadsOK
    <3> QED BY <3>1, DeleteTalk DEF ListPlaces
  <2>4. CASE BeginWalk(c) \/ NextRecord(c)
    <3>1. nsAt[c] \in ListPlaces
      BY <2>4 DEF BeginWalk, NextRecord, ListPlaces
    <3> QED BY <2>4, <3>1, WalkTalk DEF TalkInv
  <2>5. CASE SendCount(c) \/ SendRecord(c)
    <3>1. nsAt[c] \in ListPlaces
      BY <2>5 DEF SendCount, SendRecord, ListPlaces
    <3> QED BY <2>5, <3>1, SendTalk DEF TalkInv
  <2>6. TakeLock(c) => nsAt[c] = "delete" \/ nsAt[c] \in Locating
    BY DEF TakeLock, Locating
  <2>7. MapFile(c) \/ PlaceFile(c) \/ SendLocation(c) => nsAt[c] \in Locating
    BY DEF MapFile, PlaceFile, SendLocation, Locating
  <2> QED BY <2>1, <2>2, <2>3, <2>4, <2>5, <2>6, <2>7 DEF ThreadStep
<1>2. \A d \in Conns \ {c} : Talk(d)'
  <2> TAKE d \in Conns \ {c}
  <2>1. Talk(d) /\ Still(d)
    BY OtherConns DEF TalkInv
  <2>2. StillHeld(d)
    BY DEF StillHeld, uservars
  <2>3. nsAt[d] \in ListPlaces => UNCHANGED files
    BY FilesStill
  <2> QED BY <2>1, <2>2, <2>3, TalkFrame
<1>3. \A d \in Conns : Talk(d)'
  BY <1>1, <1>2
<1>4. \A d \in Conns : nsAt'[d] \in ListPlaces => "cluster" \in Commands
  <2>1. \A d \in Conns \ {c} : nsAt'[d] = nsAt[d]
    BY OtherThreads
  <2> QED BY <1>1, <2>1 DEF TalkInv
<1>5. \A d \in Conns : nsAt'[d] \in {"send", "next"} => nsIt'[d] \in DOMAIN files'
  <2>1. CASE BeginWalk(c) \/ NextRecord(c)
    <3>1. /\ nsAt'[c] \in {"read", "send"} /\ UNCHANGED files
          /\ nsAt'[c] = "send" => nsIt'[c] \in DOMAIN files
      BY <2>1, AdvanceAhead DEF tables
    <3>2. \A d \in Conns \ {c} : nsAt'[d] = nsAt[d] /\ nsIt'[d] = nsIt[d]
      BY OtherConns DEF Still
    <3> QED BY <3>1, <3>2 DEF TalkInv
  <2>2. CASE SendRecord(c)
    <3>1. UNCHANGED <<files, nsIt>> /\ nsAt[c] = "send"
      BY <2>2 DEF SendRecord, tables
    <3>2. \A d \in Conns \ {c} : nsAt'[d] = nsAt[d] /\ nsIt'[d] = nsIt[d]
      BY OtherConns DEF Still
    <3> QED BY <3>1, <3>2 DEF TalkInv
  <2>3. CASE ~(BeginWalk(c) \/ NextRecord(c) \/ SendRecord(c))
    <3>1. nsAt'[c] \notin {"send", "next"}
      BY <2>3 DEF ThreadStep, ReadRequest, HandlerOf, TakeLock, MapFile, PlaceFile,
           SendLocation, DeleteUnknown, UnmapFile, EraseFile, SendCount, Goto, Return,
           TypeInv, TypeOK, ThreadsOK
    <3>2. \A d \in Conns \ {c} : nsAt'[d] = nsAt[d] /\ nsIt'[d] = nsIt[d]
      BY OtherConns DEF Still
    <3>3. \A d \in Conns \ {c} : nsAt[d] \in {"send", "next"} => UNCHANGED files
      BY FilesStill DEF ListPlaces
    <3> QED BY <3>1, <3>2, <3>3 DEF TalkInv
  <2> QED BY <2>1, <2>2, <2>3
<1>6. \A u \in Users : userAt'[u] = "transfer" =>
          userFloc'[u].file = request'[u].file /\ OwnId(userFloc[u])'
  BY TransferFrame DEF uservars
<1>7. SocketInv'
  BY DEF SocketInv, TalkInv, uservars
<1> QED BY <1>3, <1>4, <1>5, <1>6, <1>7 DEF TalkInv

\* A data server registers.
LEMMA RegisterTalk ==
    ASSUME MetaInvariant, TalkInv, NEW s \in Servers, RegisterServer(s), UNCHANGED uservars
    PROVE  TalkInv'
<1>1. /\ UNCHANGED <<idmap, fileidcounter, files, nsAt, nsFloc, nsIt, toNs, toClient>>
      /\ UNCHANGED <<socketLock, userAt, command, request, userFloc, records>>
  BY DEF RegisterServer, threads, uservars
<1>2. \A d \in Conns : Talk(d)'
  <2>0. OwnStays
    BY <1>1 DEF OwnStays
  <2> TAKE d \in Conns
  <2>1. Talk(d) /\ Still(d) /\ StillHeld(d) /\ TypeInv
    BY <1>1 DEF TalkInv, Still, StillHeld, MetaInvariant
  <2> QED BY <1>1, <2>0, <2>1, TalkFrame
<1>3. SocketInv'
  BY <1>1 DEF SocketInv, TalkInv
<1> QED BY <1>1, <1>2, <1>3 DEF TalkInv, OwnId

-----------------------------------------------------------------------------
\* A user changes nothing but what is its own, its connection and its lock.
LEMMA OnlyHis ==
    ASSUME TypeInv, NEW u \in Users, UserStep(u) \/ Command(u)
    PROVE  /\ \A v \in Users \ {u} :
                  /\ userAt'[v] = userAt[v] /\ command'[v] = command[v]
                  /\ request'[v] = request[v] /\ records'[v] = records[v]
                  /\ userFloc'[v] = userFloc[v]
           /\ \A d \in Conns \ {ConnOf[u]} :
                  /\ toNs'[d] = toNs[d] /\ toClient'[d] = toClient[d]
                  /\ socketLock'[d] = socketLock[d]
           /\ UNCHANGED <<tables, flocLock, threads>>
<1> USE DEF TypeInv, TypeOK, ThreadsOK, UsersOK, UserGoto, Release, Done
<1>1. CASE Command(u)
  BY <1>1 DEF Command, Give, nsvars
<1>2. CASE Ask(u)
  BY <1>2 DEF Ask
<1>3. CASE TakeLocation(u)
  BY <1>3 DEF TakeLocation, Take
<1>4. CASE Transfer(u)
  BY <1>4 DEF Transfer, nsvars
<1>5. CASE TakeCount(u) \/ TakeRecord(u)
  BY <1>5 DEF TakeCount, TakeRecord, Listing, Take
<1> QED BY <1>1, <1>2, <1>3, <1>4, <1>5 DEF UserStep

\* The other connections keep their state of affairs.
LEMMA OthersTalk ==
    ASSUME TypeInv, TalkInv, NEW u \in Users, UserStep(u) \/ Command(u)
    PROVE  \A d \in Conns \ {ConnOf[u]} : Talk(d)'
<1>1. /\ \A v \in Users \ {u} :
             /\ userAt'[v] = userAt[v] /\ command'[v] = command[v]
             /\ request'[v] = request[v] /\ records'[v] = records[v]
      /\ \A d \in Conns \ {ConnOf[u]} :
             /\ toNs'[d] = toNs[d] /\ toClient'[d] = toClient[d]
             /\ socketLock'[d] = socketLock[d]
      /\ UNCHANGED <<idmap, fileidcounter, files, nsAt, nsFloc, nsIt>>
  BY OnlyHis DEF tables, threads
<1> TAKE d \in Conns \ {ConnOf[u]}
<1>2. Still(d) /\ Talk(d)
  BY <1>1 DEF Still, TalkInv
<1>3. socketLock[d] # Nobody => socketLock[d] \in Users \ {u}
  BY DEF TalkInv, SocketInv, TypeInv, TypeOK, UsersOK
<1>4. StillHeld(d)
  BY <1>1, <1>3 DEF StillHeld
<1>5. OwnStays
  BY <1>1 DEF OwnStays
<1> QED BY <1>1, <1>2, <1>4, <1>5, TalkFrame

\* A step of u that leaves its connection and its lock, while u does not wait.
LEMMA AsideTalk ==
    ASSUME TypeInv, TalkInv, NEW u \in Users, UserStep(u) \/ Command(u),
           userAt[u] \notin {"wait", "list"},
           UNCHANGED <<toNs, toClient, socketLock>>
    PROVE  Talk(ConnOf[u])'
<1> DEFINE c == ConnOf[u]
<1>1. /\ \A v \in Users \ {u} :
             /\ userAt'[v] = userAt[v] /\ command'[v] = command[v]
             /\ request'[v] = request[v] /\ records'[v] = records[v]
      /\ UNCHANGED <<idmap, fileidcounter, files, nsAt, nsFloc, nsIt>>
  BY OnlyHis DEF tables, threads
<1>2. c \in Conns
  BY UserAssumption
<1>3. Still(c) /\ Talk(c)
  BY <1>1, <1>2 DEF Still, TalkInv
<1>4. socketLock[c] # Nobody => socketLock[c] \in Users \ {u}
  BY <1>2 DEF TalkInv, SocketInv, TypeInv, TypeOK, UsersOK
<1>5. StillHeld(c)
  BY <1>1, <1>4 DEF StillHeld
<1>6. OwnStays
  BY <1>1 DEF OwnStays
<1> QED BY <1>1, <1>2, <1>3, <1>5, <1>6, TalkFrame

\* What has to be shown of the step of a user: its connection and itself.
UserTalks(u) ==
    /\ Talk(ConnOf[u])'
    /\ socketLock'[ConnOf[u]] # Nobody =>
           /\ ConnOf[socketLock'[ConnOf[u]]] = ConnOf[u]
           /\ userAt'[socketLock'[ConnOf[u]]] \in {"wait", "list"}
    /\ \A v \in Users \ {u} :
           userAt[v] \in {"wait", "list"} => socketLock'[ConnOf[v]] = socketLock[ConnOf[v]]
    /\ userAt'[u] \in {"wait", "list"} => socketLock'[ConnOf[u]] = u
    /\ userAt'[u] # "idle" => command'[u] \in Commands
    /\ userAt'[u] = "wait" => command'[u] # "rm"
    /\ userAt'[u] = "list" => command'[u] = "cluster"
    /\ userAt'[u] = "transfer" => command'[u] \in {"touch", "stat"}
    /\ command'[u] \in {"touch", "stat"} => request'[u].file \in Files
    /\ userAt'[u] = "transfer" => userFloc'[u].file = request'[u].file /\ OwnId(userFloc[u])'

\* A step of a user after which its own part of TalkInv holds keeps all of it.
LEMMA UserTalk ==
    ASSUME TypeInv, TalkInv, NEW u \in Users, UserStep(u) \/ Command(u), UserTalks(u)
    PROVE  TalkInv'
<1>0. ConnOf[u] \in Conns /\ \A v \in Users : ConnOf[v] \in Conns
  BY UserAssumption
<1>1. /\ \A v \in Users \ {u} :
             /\ userAt'[v] = userAt[v] /\ command'[v] = command[v]
             /\ request'[v] = request[v] /\ userFloc'[v] = userFloc[v]
      /\ \A d \in Conns \ {ConnOf[u]} : socketLock'[d] = socketLock[d]
      /\ UNCHANGED <<idmap, fileidcounter, files, nsAt, nsIt>>
  BY OnlyHis DEF tables, threads
<1>2. \A d \in Conns : Talk(d)'
  BY OthersTalk DEF UserTalks
<1>3. \A c \in Conns : socketLock'[c] # Nobody =>
          ConnOf[socketLock'[c]] = c /\ userAt'[socketLock'[c]] \in {"wait", "list"}
  <2> TAKE c \in Conns
  <2>1. CASE c = ConnOf[u]
    BY <2>1 DEF UserTalks
  <2>2. CASE c # ConnOf[u]
    <3>1. socketLock'[c] = socketLock[c]
      BY <1>1, <2>2
    <3>2. socketLock[c] # Nobody => socketLock[c] \in Users \ {u}
      BY <2>2 DEF TalkInv, SocketInv, TypeInv, TypeOK, UsersOK
    <3> QED BY <1>1, <3>1, <3>2 DEF TalkInv, SocketInv
  <2> QED BY <2>1, <2>2
<1>4. \A v \in Users :
          /\ userAt'[v] \in {"wait", "list"} => socketLock'[ConnOf[v]] = v
          /\ userAt'[v] # "idle" => command'[v] \in Commands
          /\ userAt'[v] = "wait" => command'[v] # "rm"
          /\ userAt'[v] = "list" => command'[v] = "cluster"
          /\ userAt'[v] = "transfer" => command'[v] \in {"touch", "stat"}
          /\ command'[v] \in {"touch", "stat"} => request'[v].file \in Files
  <2> TAKE v \in Users
  <2>1. CASE v = u
    BY <2>1 DEF UserTalks
  <2>2. CASE v # u
    BY <1>1, <2>2 DEF UserTalks, TalkInv, SocketInv
  <2> QED BY <2>1, <2>2
<1>5. \A v \in Users : userAt'[v] = "transfer" =>
          userFloc'[v].file = request'[v].file /\ OwnId(userFloc[v])'
  <2> TAKE v \in Users
  <2>1. CASE v = u
    BY <2>1 DEF UserTalks
  <2>2. CASE v # u
    BY <1>1, <2>2 DEF TalkInv, OwnId
  <2> QED BY <2>1, <2>2
<1>6. SocketInv'
  BY <1>3, <1>4 DEF SocketInv
<1>7. /\ \A c \in Conns : nsAt'[c] \in ListPlaces => "cluster" \in Commands
      /\ \A c \in Conns : nsAt'[c] \in {"send", "next"} => nsIt'[c] \in DOMAIN files'
  BY <1>1 DEF TalkInv
<1> QED BY <1>2, <1>5, <1>6, <1>7 DEF TalkInv

\* A command is given.
LEMMA GiveTalk ==
    ASSUME TypeInv, TalkInv, NEW u \in Users, Command(u)
    PROVE  UserTalks(u)
<1> USE DEF TypeInv, TypeOK
<1>1. /\ userAt[u] = "idle" /\ userAt'[u] = "ask"
      /\ command'[u] \in Commands
      /\ command'[u] \in {"touch", "stat"} => request'[u].file \in Files
      /\ UNCHANGED <<toNs, toClient, socketLock>>
  <2>1. PICK cmd, f, n : /\ Give(u, cmd, f, n)
                         /\ cmd \in {"touch", "stat"} => f \in Files
    BY DEF Command
  <2>2. command'[u] = cmd /\ cmd \in Commands
    BY <2>1 DEF Give, UsersOK
  <2>3. request'[u].file = f
    BY <2>1 DEF Give, UsersOK, NoFloc
  <2> QED BY <2>1, <2>2, <2>3 DEF Give, UserGoto, UsersOK, nsvars
<1>2. Talk(ConnOf[u])'
  BY <1>1, AsideTalk
<1>3. \A v \in Users \ {u} : userAt'[v] = userAt[v]
  BY OnlyHis
<1>4. socketLock'[ConnOf[u]] # Nobody =>
          /\ ConnOf[socketLock'[ConnOf[u]]] = ConnOf[u]
          /\ userAt'[socketLock'[ConnOf[u]]] \in {"wait", "list"}
  <2>1. socketLock[ConnOf[u]] \in Users \cup {Nobody} /\ ConnOf[u] \in Conns
    BY UserAssumption DEF UsersOK
  <2> QED BY <1>1, <1>3, <2>1 DEF TalkInv, SocketInv
<1> QED BY <1>1, <1>2, <1>4 DEF UserTalks

\* The command is over.
LEMMA TransferTalk ==
    ASSUME TypeInv, TalkInv, NEW u \in Users, Transfer(u)
    PROVE  UserTalks(u)
<1> USE DEF TypeInv, TypeOK
<1>1. /\ userAt[u] = "transfer" /\ userAt'[u] = "idle" /\ command'[u] = "none"
      /\ UNCHANGED <<toNs, toClient, socketLock>>
  BY DEF Transfer, Done, UserGoto, UsersOK, nsvars
<1>2. Talk(ConnOf[u])'
  BY <1>1, AsideTalk DEF UserStep
<1>3. \A v \in Users \ {u} : userAt'[v] = userAt[v]
  BY OnlyHis DEF UserStep
<1>4. socketLock'[ConnOf[u]] # Nobody =>
          /\ ConnOf[socketLock'[ConnOf[u]]] = ConnOf[u]
          /\ userAt'[socketLock'[ConnOf[u]]] \in {"wait", "list"}
  <2>1. socketLock[ConnOf[u]] \in Users \cup {Nobody} /\ ConnOf[u] \in Conns
    BY UserAssumption DEF UsersOK
  <2> QED BY <1>1, <1>3, <2>1 DEF TalkInv, SocketInv
<1> QED BY <1>1, <1>2, <1>4 DEF UserTalks

\* A request is written where nothing else is expected.
LEMMA AskTalk ==
    ASSUME TypeInv, TalkInv, NEW u \in Users, Ask(u)
    PROVE  UserTalks(u)
<1> USE DEF TypeInv, TypeOK
<1>1. PICK c \in Conns : c = ConnOf[u]
  BY UserAssumption
<1>2. /\ userAt[u] = "ask" /\ socketLock[c] = Nobody /\ Quiet(c)
      /\ command[u] \in Commands /\ u # Nobody
  BY <1>1, UserAssumption DEF Ask, SocketFree, TalkInv, SocketInv, Talk
<1>3. PICK q \in Seq(Msg) : q = toNs[c]
  BY DEF ThreadsOK
<1>4. PICK m : m = [type |-> TypeOf(command[u]), floc |-> request[u], num |-> 0]
  OBVIOUS
<1>5. m.type = TypeOf(command[u]) /\ m.floc = request[u]
  BY <1>4
<1>6. /\ toNs'[c] = Append(q, m)
      /\ toClient'[c] = <<>>
      /\ UNCHANGED <<idmap, fileidcounter, files, nsAt, nsFloc, nsIt>>
  BY <1>1, <1>2, <1>3, <1>4 DEF Ask, ThreadsOK, tables, threads, Quiet
<1>7. Resting(c)'
  BY <1>2, <1>6 DEF Quiet, Resting, Ahead
<1>8. /\ Len(Append(q, m)) = Len(q) + 1 /\ Append(q, m)[Len(q) + 1] = m
      /\ \A i \in 1..Len(q) : Append(q, m)[i] = q[i]
      /\ Append(q, m) # <<>>
      /\ \A i \in 1..Len(Append(q, m)) : i \in 1..Len(q) \/ i = Len(q) + 1
  BY Longer
<1>9. \A i \in 1..Len(q) : q[i].type = "DELETEFILE"
  BY <1>2, <1>3 DEF Quiet
<1>10. CASE command[u] = "rm"
  <2>1. /\ userAt'[u] = "idle" /\ command'[u] = "none" /\ UNCHANGED socketLock
    BY <1>10 DEF Ask, Done, UserGoto, UsersOK
  <2>2. m.type = "DELETEFILE"
    BY <1>5, <1>10 DEF TypeOf
  <2>3. \A i \in 1..Len(toNs'[c]) : toNs'[c][i].type = "DELETEFILE"
    BY <1>6, <1>8, <1>9, <2>2
  <2>4. Quiet(c)'
    BY <1>6, <1>7, <2>3 DEF Quiet
  <2>5. socketLock'[c] = Nobody
    BY <1>2, <2>1
  <2>6. Talk(c)'
    BY <2>4, <2>5 DEF Talk
  <2> QED BY <1>1, <2>1, <2>5, <2>6 DEF UserTalks
<1>11. CASE command[u] # "rm"
  <2>1. /\ userAt'[u] = "wait" /\ UNCHANGED <<command, request, userFloc>>
        /\ socketLock' = [socketLock EXCEPT ![c] = u]
    BY <1>1, <1>11 DEF Ask, UserGoto, UsersOK
  <2>2. socketLock'[c] = u /\ \A d \in Conns \ {c} : socketLock'[d] = socketLock[d]
    BY <2>1 DEF UsersOK
  <2>3. Asking(u, c)'
    <3>1. PICK r : r = Append(q, m)
      OBVIOUS
    <3>2. r[Len(r)] = m /\ r # <<>> /\ toNs'[c] = r
      BY <1>6, <1>8, <3>1
    <3>3. \A i \in 1..Len(r) : i # Len(r) => r[i].type = "DELETEFILE"
      BY <1>8, <1>9, <3>1
    <3>4. m.type = TypeOf(command'[u]) /\ m.floc.file = request'[u].file
      BY <1>5, <2>1
    <3> QED BY <1>6, <1>7, <2>1, <3>2, <3>3, <3>4 DEF Asking, TypeOf
  <2>4. Talk(c)'
    BY <1>2, <2>2, <2>3 DEF Talk
  <2>5. \A v \in Users \ {u} : userAt[v] \in {"wait", "list"} =>
            socketLock'[ConnOf[v]] = socketLock[ConnOf[v]]
    <3> SUFFICES ASSUME NEW v \in Users \ {u}, userAt[v] \in {"wait", "list"}
                 PROVE  socketLock'[ConnOf[v]] = socketLock[ConnOf[v]]
      OBVIOUS
    <3>1. socketLock[ConnOf[v]] = v /\ v # Nobody /\ ConnOf[v] \in Conns
      BY UserAssumption DEF TalkInv, SocketInv
    <3> QED BY <1>2, <2>2, <3>1
  <2>6. command[u] \in {"touch", "stat"} => request[u].file \in Files
    BY DEF TalkInv, SocketInv
  <2> QED BY <1>1, <1>2, <1>11, <2>1, <2>2, <2>4, <2>5, <2>6 DEF UserTalks
<1> QED BY <1>10, <1>11

\* What a user takes from its connection.
LEMMA TakeIs ==
    ASSUME TypeInv, NEW u \in Users, Take(u), NEW c \in Conns, c = ConnOf[u],
           NEW q \in Seq(Msg), q = toClient[c]
    PROVE  /\ q # <<>> /\ 1 \in 1..Len(q) /\ Len(q) \in Nat \ {0}
           /\ Taken(u) = q[1] /\ q[1] \in Msg
           /\ toClient'[c] = Tail(q) /\ Len(Tail(q)) = Len(q) - 1
           /\ \A i \in 1..Len(Tail(q)) : Tail(q)[i] = q[i + 1] /\ i + 1 \in 1..Len(q)
           /\ UNCHANGED <<idmap, fileidcounter, files, nsAt, nsFloc, nsIt, toNs>>
<1>1. q # <<>> /\ toClient'[c] = Tail(q) /\ Taken(u) = Head(q)
      /\ UNCHANGED <<idmap, fileidcounter, files, nsAt, nsFloc, nsIt, toNs>>
  BY DEF Take, Taken, TypeInv, TypeOK, ThreadsOK, tables, threads
<1>2. 1 \in 1..Len(q) /\ Len(q) \in Nat \ {0} /\ Head(q) = q[1] /\ q[1] \in Msg
  BY <1>1
<1>3. Len(Tail(q)) = Len(q) - 1
      /\ \A i \in 1..Len(Tail(q)) : Tail(q)[i] = q[i + 1] /\ i + 1 \in 1..Len(q)
  BY <1>1
<1> QED BY <1>1, <1>2, <1>3

\* Giving the lock back leaves the locks others have.
LEMMA ReleaseIs ==
    ASSUME TypeInv, TalkInv, NEW u \in Users, Release(u), userAt[u] \in {"wait", "list"}
    PROVE  /\ socketLock'[ConnOf[u]] = Nobody
           /\ \A v \in Users \ {u} : userAt[v] \in {"wait", "list"} =>
                  socketLock'[ConnOf[v]] = socketLock[ConnOf[v]]
<1>1. \A v \in Users \ {u} : userAt[v] \in {"wait", "list"} => ConnOf[v] # ConnOf[u]
  BY DEF TalkInv, SocketInv
<1> QED BY <1>1, UserAssumption DEF Release, TypeInv, TypeOK, UsersOK

\* A user takes its answer: the location of its file.
LEMMA TakeLocationTalk ==
    ASSUME TypeInv, TalkInv, NEW u \in Users, TakeLocation(u)
    PROVE  /\ UserTalks(u)
           /\ Answered(u, ConnOf[u])
           /\ userAt'[u] = "transfer"
<1>1. PICK c \in Conns : c = ConnOf[u]
  BY UserAssumption
<1>2. PICK q \in Seq(Msg) : q = toClient[c]
  BY DEF TypeInv, TypeOK, ThreadsOK
<1>3. Take(u) /\ Release(u) /\ userAt[u] = "wait" /\ command[u] \in {"touch", "stat"}
  BY DEF TakeLocation
<1>4. /\ q # <<>> /\ Taken(u) = q[1] /\ q[1] \in Msg
      /\ toClient'[c] = Tail(q) /\ Len(Tail(q)) = Len(q) - 1
      /\ UNCHANGED <<idmap, fileidcounter, files, nsAt, nsFloc, nsIt, toNs>>
  <2>1. Take(u)
    BY <1>3
  <2>2. q # <<>> /\ Taken(u) = q[1] /\ q[1] \in Msg
    BY <1>1, <1>2, <2>1, TakeIs
  <2>3. toClient'[c] = Tail(q)
    BY <1>1, <1>2, <2>1, TakeIs
  <2>4. Len(Tail(q)) = Len(q) - 1
    BY <1>1, <1>2, <2>1, TakeIs
  <2>5. UNCHANGED <<idmap, fileidcounter, files, nsAt, nsFloc, nsIt, toNs>>
    BY <1>1, <1>2, <2>1, TakeIs
  <2> QED BY <2>2, <2>3, <2>4, <2>5
<1>5. socketLock[c] = u /\ u # Nobody /\ Talk(c)
  BY <1>1, <1>3, UserAssumption DEF TalkInv, SocketInv
<1>6. Answered(u, c)
  BY <1>2, <1>3, <1>4, <1>5 DEF Talk, Asking, Finding, Listed
<1>7. /\ q[1].type = "FILELOCATION" /\ q[1].floc.file = request[u].file /\ OwnId(q[1].floc)
      /\ Len(q) = 1 /\ toNs[c] = <<>> /\ nsAt[c] = "read"
  BY <1>2, <1>6 DEF Answered
<1>8. /\ userFloc'[u] = q[1].floc /\ userAt'[u] = "transfer"
      /\ UNCHANGED <<command, request>>
  BY <1>4, <1>7 DEF TakeLocation, UserGoto, TypeInv, TypeOK, UsersOK
<1>9. toClient'[c] = <<>>
  <2>1. Tail(q) \in Seq(Msg) /\ Len(Tail(q)) = 0
    BY <1>4, <1>7
  <2> QED BY <1>4, <2>1, EmptySeq
<1>10. Quiet(c)'
  <2>1. \A i \in 1..Len(toNs'[c]) : toNs'[c][i].type = "DELETEFILE"
    BY <1>4, <1>7
  <2> QED BY <1>4, <1>7, <1>9, <2>1 DEF Quiet, Resting, Ahead
<1>11. socketLock'[c] = Nobody /\ \A v \in Users \ {u} : userAt[v] \in {"wait", "list"} =>
                  socketLock'[ConnOf[v]] = socketLock[ConnOf[v]]
  BY <1>1, <1>3, ReleaseIs
<1>12. Talk(c)'
  BY <1>10, <1>11 DEF Talk
<1>13. userFloc'[u].file = request'[u].file /\ OwnId(userFloc[u])'
  BY <1>4, <1>7, <1>8 DEF OwnId
<1>14. command[u] \in Commands /\ request[u].file \in Files
  BY <1>3 DEF TalkInv, SocketInv
<1> QED BY <1>1, <1>3, <1>6, <1>8, <1>11, <1>12, <1>13, <1>14 DEF UserTalks

\* What is on the connection of a user in a listing.
LEMMA ListingIs ==
    ASSUME TypeInv, TalkInv, NEW u \in Users, command[u] = "cluster",
           userAt[u] \in {"wait", "list"}, NEW c \in Conns, c = ConnOf[u],
           NEW q \in Seq(Msg), q = toClient[c], q # <<>>
    PROVE  /\ toNs[c] = <<>> /\ nsAt[c] \in {"read", "begin", "send", "next"}
           /\ Cardinality(Ahead(c)) \in Nat
           /\ userAt[u] = "wait" =>
                  /\ q[1].type = "ALLINFORMATION"
                  /\ q[1].num = Len(q) - 1 + Cardinality(Ahead(c))
                  /\ \A i \in 1..Len(q) : i # 1 => q[i].type = "FILELOCATION"
           /\ userAt[u] = "list" =>
                  /\ records[u] = Len(q) + Cardinality(Ahead(c))
                  /\ \A i \in 1..Len(q) : q[i].type = "FILELOCATION"
           /\ Cardinality(Ahead(c)) = 0 => Resting(c)
<1>1. socketLock[c] = u /\ u # Nobody /\ Talk(c)
  BY UserAssumption DEF TalkInv, SocketInv
<1>2. Listed(u, c)
  BY <1>1 DEF Talk, Asking, Finding, Answered
<1>3. Cardinality(Ahead(c)) \in Nat /\ (Cardinality(Ahead(c)) = 0 <=> Ahead(c) = {})
  BY AheadFinite
<1>4. nsAt[c] = "send" => Ahead(c) # {}
  <2> SUFFICES ASSUME nsAt[c] = "send" PROVE nsIt[c] \in Ahead(c)
    OBVIOUS
  <2>1. nsIt[c] \in DOMAIN files /\ nsIt[c] \in Int
    BY DEF TalkInv, TypeInv, TypeOK, ThreadsOK
  <2> QED BY <2>1 DEF Ahead
<1>5. nsAt[c] \in {"read", "begin", "send", "next"}
  BY <1>2 DEF Listed
<1>6. Cardinality(Ahead(c)) = 0 => Resting(c)
  BY <1>3, <1>4, <1>5 DEF Resting
<1> QED BY <1>2, <1>3, <1>5, <1>6 DEF Listed

\* GetClusterInfo goes on with n records to come, or ends without any.
LEMMA ListingTalk ==
    ASSUME TypeInv, TalkInv, NEW u \in Users, command[u] = "cluster",
           userAt[u] \in {"wait", "list"}, Take(u), NEW n \in Nat, Listing(u, n),
           NEW c \in Conns, c = ConnOf[u], NEW q \in Seq(Msg), q = toClient[c],
           n = Len(q) - 1 + Cardinality(Ahead(c)),
           \A i \in 1..Len(q) : i # 1 => q[i].type = "FILELOCATION"
    PROVE  UserTalks(u)
<1>1. /\ q # <<>> /\ Len(q) \in Nat \ {0}
      /\ toClient'[c] = Tail(q) /\ Len(Tail(q)) = Len(q) - 1
      /\ \A i \in 1..Len(Tail(q)) : Tail(q)[i] = q[i + 1] /\ i + 1 \in 1..Len(q)
      /\ UNCHANGED <<idmap, fileidcounter, files, nsAt, nsFloc, nsIt, toNs>>
  BY TakeIs
<1>2. /\ toNs[c] = <<>> /\ nsAt[c] \in {"read", "begin", "send", "next"}
      /\ Cardinality(Ahead(c)) \in Nat
      /\ Cardinality(Ahead(c)) = 0 => Resting(c)
  BY <1>1, ListingIs
<1> USE DEF TypeInv, TypeOK
<1>3. Ahead(c)' = Ahead(c) /\ (Resting(c)' <=> Resting(c))
  BY <1>1 DEF Ahead, Resting
<1>4. \A i \in 1..Len(Tail(q)) : Tail(q)[i].type = "FILELOCATION"
  <2> TAKE i \in 1..Len(Tail(q))
  <2>1. i + 1 # 1
    OBVIOUS
  <2> QED BY <1>1, <2>1
<1>5. CASE n = 0
  <2>0. PICK k \in Nat : k = Cardinality(Ahead(c))
    BY <1>2
  <2>c. PICK l \in Nat \ {0} : l = Len(q)
    BY <1>1
  <2>a. l - 1 + k = 0
    BY <1>5, <2>0, <2>c
  <2>b. l = 1 /\ k = 0
    BY <2>a
  <2>1. Len(q) = 1 /\ Cardinality(Ahead(c)) = 0
    BY <2>0, <2>b, <2>c
  <2>2. toClient'[c] = <<>>
    <3>1. Tail(q) \in Seq(Msg) /\ Len(Tail(q)) = 0
      BY <1>1, <2>1
    <3> QED BY <1>1, <3>1, EmptySeq
  <2>3. Quiet(c)'
    <3>1. \A i \in 1..Len(toNs'[c]) : toNs'[c][i].type = "DELETEFILE"
      BY <1>1, <1>2
    <3> QED BY <1>2, <1>3, <2>1, <2>2, <3>1 DEF Quiet
  <2>4. Release(u) /\ userAt'[u] = "idle" /\ command'[u] = "none"
    BY <1>5 DEF Listing, Done, UserGoto, UsersOK
  <2>5. socketLock'[c] = Nobody /\ \A v \in Users \ {u} : userAt[v] \in {"wait", "list"} =>
                  socketLock'[ConnOf[v]] = socketLock[ConnOf[v]]
    BY <2>4, ReleaseIs
  <2>6. Talk(c)'
    BY <2>3, <2>5 DEF Talk
  <2> QED BY <2>4, <2>5, <2>6 DEF UserTalks
<1>6. CASE n # 0
  <2>1. /\ userAt'[u] = "list" /\ records'[u] = n
        /\ UNCHANGED <<socketLock, command, request, userFloc>>
    BY <1>6 DEF Listing, UserGoto, UsersOK
  <2>2. socketLock'[c] = u /\ u # Nobody /\ command[u] \in Commands
    BY <2>1, UserAssumption DEF TalkInv, SocketInv
  <2>3. records'[u] = Len(toClient'[c]) + Cardinality(Ahead(c)')
    BY <1>1, <1>3, <2>1
  <2>4. Listed(u, c)'
    <3>1. /\ command'[u] = "cluster" /\ toNs'[c] = <<>>
          /\ nsAt'[c] \in {"read", "begin", "send", "next"}
      BY <1>1, <1>2, <2>1
    <3>2. \A i \in 1..Len(toClient'[c]) : toClient'[c][i].type = "FILELOCATION"
      BY <1>1, <1>4
    <3> QED BY <2>1, <2>3, <3>1, <3>2 DEF Listed
  <2>5. Talk(c)'
    BY <2>2, <2>4 DEF Talk
  <2> QED BY <2>1, <2>2, <2>5 DEF UserTalks
<1> QED BY <1>5, <1>6

\* GetClusterInfo takes the count, and a record.
LEMMA TakeCountTalk ==
    ASSUME TypeInv, TalkInv, NEW u \in Users, TakeCount(u) \/ TakeRecord(u)
    PROVE  UserTalks(u)
<1> USE DEF TypeInv, TypeOK
<1>1. PICK c \in Conns : c = ConnOf[u]
  BY UserAssumption
<1>2. PICK q \in Seq(Msg) : q = toClient[c]
  BY DEF ThreadsOK
<1>3. Take(u) /\ command[u] = "cluster" /\ userAt[u] \in {"wait", "list"}
  BY DEF TakeCount, TakeRecord, TalkInv, SocketInv
<1>4. q # <<>> /\ Taken(u) = q[1] /\ Len(q) \in Nat \ {0} /\ q[1] \in Msg
  BY <1>1, <1>2, <1>3, TakeIs
<1>5. /\ Cardinality(Ahead(c)) \in Nat
      /\ userAt[u] = "wait" =>
             /\ q[1].num = Len(q) - 1 + Cardinality(Ahead(c))
             /\ \A i \in 1..Len(q) : i # 1 => q[i].type = "FILELOCATION"
      /\ userAt[u] = "list" =>
             /\ records[u] = Len(q) + Cardinality(Ahead(c))
             /\ \A i \in 1..Len(q) : q[i].type = "FILELOCATION"
  BY <1>1, <1>2, <1>3, <1>4, ListingIs
<1>6. CASE TakeCount(u)
  <2>1. PICK n : n = q[1].num
    OBVIOUS
  <2>2. n \in Nat /\ Listing(u, n) /\ userAt[u] = "wait"
    BY <1>4, <1>6, <2>1 DEF TakeCount, Msg
  <2> QED BY <1>1, <1>2, <1>3, <1>5, <2>1, <2>2, ListingTalk
<1>7. CASE TakeRecord(u)
  <2>1. PICK n : n = StillExpected(u)
    OBVIOUS
  <2>2. Listing(u, n) /\ userAt[u] = "list" /\ n = records[u] - 1
    BY <1>7, <2>1 DEF TakeRecord, StillExpected
  <2>3. n = Len(q) - 1 + Cardinality(Ahead(c)) /\ n \in Nat
    BY <1>4, <1>5, <2>2
  <2> QED BY <1>1, <1>2, <1>3, <1>5, <2>2, <2>3, ListingTalk
<1> QED BY <1>6, <1>7

\* Every step keeps what is on the connections.
LEMMA TalkNext ==
    ASSUME ListingsAlone
    PROVE  MetaInvariant /\ PlaceInv /\ TalkInv /\ [Next]_vars => TalkInv'
<1> SUFFICES ASSUME MetaInvariant, PlaceInv, TalkInv, [Next]_vars PROVE TalkInv'
  OBVIOUS
<1>1. CASE \E c \in Conns : ThreadStep(c) /\ UNCHANGED uservars
  BY <1>1, ThreadTalk
<1>2. CASE \E s \in Servers : RegisterServer(s) /\ UNCHANGED uservars
  BY <1>2, RegisterTalk
<1>3. CASE \E u \in Users : UserStep(u) \/ Command(u)
  <2>1. PICK u \in Users : UserStep(u) \/ Command(u)
    BY <1>3
  <2>2. TypeInv
    BY DEF MetaInvariant
  <2>3. UserTalks(u)
    BY <2>1, <2>2, GiveTalk, AskTalk, TransferTalk, TakeLocationTalk, TakeCountTalk
    DEF UserStep
  <2> QED BY <2>1, <2>2, <2>3, UserTalk
<1>4. CASE UNCHANGED vars
  <2>1. /\ UNCHANGED <<idmap, fileidcounter, files, nsAt, nsFloc, nsIt, toNs, toClient>>
        /\ UNCHANGED <<socketLock, userAt, command, request, userFloc, records>>
    BY <1>4 DEF vars, nsvars, uservars, tables, threads
  <2>2. \A d \in Conns : Talk(d)'
    <3>0. OwnStays
      BY <2>1 DEF OwnStays
    <3> TAKE d \in Conns
    <3>1. Talk(d) /\ Still(d) /\ StillHeld(d) /\ TypeInv
      BY <2>1 DEF TalkInv, Still, StillHeld, MetaInvariant
    <3> QED BY <2>1, <3>0, <3>1, TalkFrame
  <2>3. SocketInv'
    BY <2>1 DEF SocketInv, TalkInv
  <2> QED BY <2>1, <2>2, <2>3 DEF TalkInv, OwnId
<1> QED BY <1>1, <1>2, <1>3, <1>4 DEF Next, NsStep

\* Initially nothing is on any connection.
LEMMA TalkInit == Init => TalkInv
<1> SUFFICES ASSUME Init PROVE TalkInv
  OBVIOUS
<1>1. /\ \A c \in Conns : /\ socketLock[c] = Nobody /\ nsAt[c] = "read"
                          /\ toNs[c] = <<>> /\ toClient[c] = <<>>
      /\ \A u \in Users : userAt[u] = "idle" /\ command[u] = "none"
  BY DEF Init, NsInit
<1>2. \A c \in Conns : Talk(c)
  BY <1>1 DEF Talk, Quiet, Resting, Ahead
<1> QED BY <1>1, <1>2 DEF TalkInv, SocketInv, ListPlaces

\* Between a request and its answer nothing is on a connection that is not part
\* of them, when a listing runs alone or is never asked for.
THEOREM TalkInvariantHolds ==
    ASSUME ListingsAlone
    PROVE  Spec => []TalkInv
<1>1. MetaInvariant /\ PlaceInv /\ TalkInv /\ [Next]_vars => TalkInv'
  BY TalkNext
<1> QED BY <1>1, TalkInit, MetaInvariantHolds, PlacesKnown, PTL DEF Spec

\* A connection that no user waits on is empty: every reader took all it was
\* sent, the records of GetClusterInfo included.
THEOREM NothingLeftOver ==
    ASSUME ListingsAlone
    PROVE  Spec => []NothingLeft
<1>1. TalkInv => NothingLeft
  BY DEF TalkInv, Talk, Quiet, NothingLeft
<1> QED BY <1>1, TalkInvariantHolds, PTL

\* What RequireLocation and GetClusterInfo read answers their own request,
\* though readmsg takes any message and users share the connection.
THEOREM AnswersAlwaysFit ==
    ASSUME ListingsAlone
    PROVE  Spec => []AnswersFit
<1>1. MetaInvariant /\ TalkInv => AnswersFit
  <2> SUFFICES ASSUME MetaInvariant, TalkInv, NEW u \in Users,
                      toClient[ConnOf[u]] # <<>>
               PROVE  /\ userAt[u] = "wait" /\ command[u] = "cluster" =>
                             Taken(u).type = "ALLINFORMATION"
                      /\ userAt[u] = "wait" /\ command[u] # "cluster" =>
                             /\ Taken(u).type = "FILELOCATION"
                             /\ Taken(u).floc.file = request[u].file
                      /\ userAt[u] = "list" => Taken(u).type = "FILELOCATION"
    BY DEF AnswersFit
  <2>1. PICK c \in Conns : c = ConnOf[u]
    BY UserAssumption
  <2>2. PICK q \in Seq(Msg) : q = toClient[c]
    BY DEF MetaInvariant, TypeInv, TypeOK, ThreadsOK
  <2>3. q # <<>> /\ Taken(u) = q[1] /\ 1 \in 1..Len(q)
    BY <2>1, <2>2 DEF Taken
  <2>4. userAt[u] \in {"wait", "list"} =>
            Asking(u, c) \/ Finding(u, c) \/ Answered(u, c) \/ Listed(u, c)
    BY <2>1, UserAssumption DEF TalkInv, SocketInv, Talk
  <2>5. userAt[u] \in {"wait", "list"} => Answered(u, c) \/ Listed(u, c)
    BY <2>2, <2>3, <2>4 DEF Asking, Finding
  <2>6. userAt[u] = "list" => command[u] = "cluster"
    BY DEF TalkInv, SocketInv
  <2> QED BY <2>2, <2>3, <2>5, <2>6 DEF Answered, Listed
<1> QED BY <1>1, TalkInvariantHolds, MetaInvariantHolds, PTL

\* No client transfers a file under an id that is another file's: not when its
\* file was deleted, and perhaps given a new id, while the answer was on the way.
THEOREM IdsNeverForeign ==
    ASSUME ListingsAlone
    PROVE  Spec => []NoForeignId
<1>1. TalkInv => NoForeignId
  BY DEF TalkInv, OwnId, NoForeignId
<1> QED BY <1>1, TalkInvariantHolds, PTL

-----------------------------------------------------------------------------
\* What the abstract table sees of users and of the table.
bars == <<tableBar, IdsGiven, askedBar, toldBar>>

\* A location that is told is one, not nothing.
LEMMA PlaceIsSome ==
    ASSUME NEW m
    PROVE  PlaceOf(m) # NoFloc
<1>1. DOMAIN PlaceOf(m) = {"fd", "server"}
  BY DEF PlaceOf
<1>2. "len" \in DOMAIN NoFloc
  BY DEF NoFloc
<1>3. "len" \notin DOMAIN PlaceOf(m)
  BY <1>1
<1> QED BY <1>2, <1>3

\* Asked and told, user by user.
LEMMA UserBars ==
    ASSUME \A v \in Users : AskedFile(v)' = AskedFile(v),
           \A v \in Users : ToldPlace(v)' = ToldPlace(v)
    PROVE  UNCHANGED <<askedBar, toldBar>>
BY DEF askedBar, toldBar

\* A step that changes what one user asks or was told changes that alone.
LEMMA OneUserBars ==
    ASSUME NEW u \in Users, NEW f, NEW m, AskedFile(u)' = f, ToldPlace(u)' = m,
           \A v \in Users \ {u} : AskedFile(v)' = AskedFile(v) /\ ToldPlace(v)' = ToldPlace(v)
    PROVE  /\ askedBar' = [askedBar EXCEPT ![u] = f]
           /\ toldBar' = [toldBar EXCEPT ![u] = m]
           /\ askedBar[u] = AskedFile(u) /\ toldBar[u] = ToldPlace(u)
BY DEF askedBar, toldBar

\* A user that waits for a location has the socket_lock of its connection.
LEMMA Waits ==
    ASSUME TypeInv, TalkInv, NEW v \in Users, AskedFile(v) # NoFile, userAt[v] # "transfer"
    PROVE  /\ userAt[v] = "wait" /\ command[v] # "cluster"
           /\ socketLock[ConnOf[v]] = v /\ v # Nobody
           /\ AskedFile(v) = request[v].file /\ AskedFile(v) \in Files
<1>1. userAt[v] = "wait" /\ command[v] # "cluster" /\ AskedFile(v) = request[v].file
  BY DEF AskedFile
<1>2. command[v] \in {"touch", "stat"}
  BY <1>1, UserAssumption DEF TalkInv, SocketInv
<1> QED BY <1>1, <1>2, UserAssumption DEF TalkInv, SocketInv

\* A user is not told differently while nothing that bears on it changes.
LEMMA ToldFrame ==
    ASSUME TypeInv, TalkInv, NEW v \in Users,
           userAt'[v] = userAt[v], command'[v] = command[v], request'[v] = request[v],
           userFloc'[v] = userFloc[v],
           AskedFile(v) # NoFile /\ userAt[v] # "transfer" =>
               /\ toClient'[ConnOf[v]] = toClient[ConnOf[v]]
               /\ \/ nsAt'[ConnOf[v]] = nsAt[ConnOf[v]] /\ nsFloc'[ConnOf[v]] = nsFloc[ConnOf[v]]
                  \/ nsAt'[ConnOf[v]] # "found" /\ nsAt[ConnOf[v]] # "found"
    PROVE  AskedFile(v)' = AskedFile(v) /\ ToldPlace(v)' = ToldPlace(v)
<1>1. AskedFile(v)' = AskedFile(v)
  BY DEF AskedFile
<1>2. CASE AskedFile(v) = NoFile
  BY <1>1, <1>2 DEF ToldPlace
<1>3. CASE AskedFile(v) # NoFile /\ userAt[v] = "transfer"
  BY <1>1, <1>3 DEF ToldPlace
<1>4. CASE AskedFile(v) # NoFile /\ userAt[v] # "transfer"
  BY <1>1, <1>4 DEF ToldPlace, Taken
<1> QED BY <1>1, <1>2, <1>3, <1>4

\* What a thread does on the connection of other users is nothing to them.
LEMMA OthersTold ==
    ASSUME TypeInv, TalkInv, NEW c \in Conns, ThreadStep(c), UNCHANGED uservars,
           NEW v \in Users, ConnOf[v] # c
    PROVE  AskedFile(v)' = AskedFile(v) /\ ToldPlace(v)' = ToldPlace(v)
<1>1. Still(ConnOf[v])
  BY OtherConns, UserAssumption
<1> QED BY <1>1, ToldFrame DEF Still, uservars

\* Of the steps of a thread only FindFile's second part tells a user anything.
LEMMA ThreadTold ==
    ASSUME TypeInv, TalkInv, NEW c \in Conns, ThreadStep(c), UNCHANGED uservars,
           ~PlaceFile(c)
    PROVE  UNCHANGED <<askedBar, toldBar>>
<1> USE DEF TypeInv, TypeOK
<1>1. \A v \in Users : ConnOf[v] = c =>
          AskedFile(v)' = AskedFile(v) /\ ToldPlace(v)' = ToldPlace(v)
  <2> SUFFICES ASSUME NEW v \in Users, ConnOf[v] = c
               PROVE  AskedFile(v)' = AskedFile(v) /\ ToldPlace(v)' = ToldPlace(v)
    OBVIOUS
  <2>0. UNCHANGED <<userAt, command, request, userFloc>>
    BY DEF uservars
  <2>1. CASE SendLocation(c)
    <3>1. AskedFile(v)' = AskedFile(v)
      BY <2>0 DEF AskedFile
    <3>2. CASE AskedFile(v) # NoFile /\ userAt[v] # "transfer"
      <4>1. socketLock[c] = v
        BY <3>2, Waits
      <4>2. nsAt[c] = "found" /\ nsAt[c] \in Locating
        BY <2>1 DEF SendLocation, Locating
      <4>3. Finding(v, c)
        BY <4>1, <4>2, AtWork
      <4>4. PICK m : m = [type |-> "FILELOCATION", floc |-> nsFloc[c], num |-> 0]
        OBVIOUS
      <4>5. toClient[c] = <<>> /\ toClient'[c] = Append(toClient[c], m)
        BY <2>1, <4>3, <4>4 DEF SendLocation, Reply, Write, ThreadsOK, Finding
      <4>6. toClient'[c] # <<>> /\ Head(toClient'[c]) = m /\ m.floc = nsFloc[c]
        BY <4>4, <4>5
      <4>7. ToldPlace(v) = PlaceOf(nsFloc[c])
        BY <3>2, <4>2, <4>5 DEF ToldPlace
      <4>8. ToldPlace(v)' = PlaceOf(nsFloc[c])
        <5>1. PICK d : d = ConnOf[v]
          OBVIOUS
        <5>a. Head(toClient'[d]) = m /\ toClient'[d] # <<>>
          BY <4>6, <5>1
        <5>2. toClient'[ConnOf[v]] # <<>> /\ AskedFile(v)' # NoFile /\ userAt'[v] # "transfer"
          BY <2>0, <3>1, <3>2, <4>6
        <5>3. ToldPlace(v)' = PlaceOf(m.floc)
          BY <5>1, <5>a, <5>2 DEF ToldPlace, Taken, PlaceOf
        <5> QED BY <4>6, <5>3
      <4> QED BY <3>1, <4>7, <4>8
    <3>3. CASE ~(AskedFile(v) # NoFile /\ userAt[v] # "transfer")
      BY <2>0, <3>3, ToldFrame
    <3> QED BY <3>2, <3>3
  <2>2. CASE SendCount(c) \/ SendRecord(c)
    <3>1. socketLock[c] \in Users /\ command[socketLock[c]] = "cluster"
      BY <2>2, AtWork DEF SendCount, SendRecord, Listed
    <3>2. ~(AskedFile(v) # NoFile /\ userAt[v] # "transfer")
      BY <3>1, Waits
    <3> QED BY <2>0, <3>2, ToldFrame
  <2>3. CASE ~SendLocation(c) /\ ~SendCount(c) /\ ~SendRecord(c)
    <3>1. toClient'[c] = toClient[c] /\ nsAt'[c] # "found" /\ nsAt[c] # "found"
      BY <2>3 DEF ThreadStep, ReadRequest, HandlerOf, TakeLock, MapFile, DeleteUnknown,
           UnmapFile, EraseFile, BeginWalk, NextRecord, Advance, Goto, Return, ThreadsOK
    <3> QED BY <2>0, <3>1, ToldFrame
  <2> QED BY <2>1, <2>2, <2>3
<1>2. \A v \in Users : AskedFile(v)' = AskedFile(v) /\ ToldPlace(v)' = ToldPlace(v)
  BY <1>1, OthersTold
<1> QED BY <1>2, UserBars

\* Threads that do not place a file or take one away leave the table.
LEMMA ThreadKeepsTable ==
    ASSUME MetaInvariant, PlaceInv, NEW c \in Conns, ThreadStep(c), ~PlaceFile(c), ~UnmapFile(c)
    PROVE  UNCHANGED <<tableBar, IdsGiven>>
<1> USE DEF MetaInvariant, TypeInv, TypeOK
<1>1. CASE \/ ReadRequest(c) \/ TakeLock(c) \/ SendLocation(c) \/ DeleteUnknown(c)
           \/ SendCount(c) \/ BeginWalk(c) \/ SendRecord(c) \/ NextRecord(c)
  <2>1. UNCHANGED <<idmap, fileidcounter, files>>
    BY <1>1 DEF ReadRequest, TakeLock, SendLocation, DeleteUnknown, SendCount,
                BeginWalk, SendRecord, NextRecord, tables
  <2> QED BY <2>1 DEF tableBar, Placed, IdsGiven, IdPending
<1>2. CASE MapFile(c)
  <2>1. ~IdPending /\ IdsGiven' = IdsGiven
    BY <1>2, MapIds
  <2>2. UNCHANGED files
    BY <1>2 DEF MapFile
  <2>3. CASE nsFloc[c].file \in DOMAIN idmap
    BY <1>2, <2>1, <2>2, <2>3 DEF MapFile, tableBar, Placed
  <2>4. CASE nsFloc[c].file \notin DOMAIN idmap
    <3>1. PICK f : f = nsFloc[c].file
      OBVIOUS
    <3>2. /\ DOMAIN idmap' = DOMAIN idmap \cup {f} /\ f \notin DOMAIN idmap
          /\ idmap'[f] = fileidcounter
          /\ \A g \in DOMAIN idmap : idmap'[g] = idmap[g]
      BY <1>2, <2>4, <3>1 DEF MapFile, NewId, Put
    <3>3. fileidcounter \notin DOMAIN files
      BY DEF TablesOK
    <3>4. \A g : (g \in DOMAIN idmap' /\ idmap'[g] \in DOMAIN files')
                 <=> (g \in DOMAIN idmap /\ idmap[g] \in DOMAIN files)
      BY <2>2, <3>2, <3>3
    <3>5. {g \in DOMAIN idmap' : Placed(g)'} = {g \in DOMAIN idmap : Placed(g)}
      BY <3>4 DEF Placed
    <3>6. \A g \in {h \in DOMAIN idmap : Placed(h)} :
              PlaceOf(files'[idmap'[g]]) = PlaceOf(files[idmap[g]])
      BY <2>2, <3>2
    <3>7. tableBar' = tableBar
      BY <3>5, <3>6 DEF tableBar, PlaceOf
    <3> QED BY <2>1, <3>7
  <2> QED BY <2>3, <2>4
<1>3. CASE EraseFile(c)
  <2>1. IdsGiven' = IdsGiven
    BY <1>3, DeleteIds
  <2>2. PICK id : id = nsFloc[c].fd
    OBVIOUS
  <2>3. id \in DOMAIN files /\ \A g \in DOMAIN idmap : idmap[g] # id
    BY <1>3, <2>2 DEF TableInv, EraseFile
  <2>4. /\ DOMAIN files' = DOMAIN files \ {id}
        /\ \A i \in DOMAIN files' : files'[i] = files[i]
        /\ UNCHANGED idmap
    BY <1>3, <2>2, <2>3 DEF EraseFile, Erased, Without, Restrict
  <2>5. {g \in DOMAIN idmap' : Placed(g)'} = {g \in DOMAIN idmap : Placed(g)}
    BY <2>3, <2>4 DEF Placed
  <2>6. \A g \in {h \in DOMAIN idmap : Placed(h)} :
            PlaceOf(files'[idmap'[g]]) = PlaceOf(files[idmap[g]])
    BY <2>3, <2>4 DEF Placed
  <2>7. tableBar' = tableBar
    BY <2>5, <2>6 DEF tableBar, PlaceOf
  <2> QED BY <2>1, <2>7
<1> QED BY <1>1, <1>2, <1>3 DEF ThreadStep

\* DeleteFile's first part deletes in the abstract table.
LEMMA UnmapIsDelete ==
    ASSUME MetaInvariant, PlaceInv, TalkInv, NEW c \in Conns, UnmapFile(c), UNCHANGED uservars
    PROVE  \E f \in Files : Abstract!Delete(f)
<1> USE DEF MetaInvariant, TypeInv, TypeOK
<1>1. PICK f : f = nsFloc[c].file
  OBVIOUS
<1>2. f \in DOMAIN idmap /\ f \in Files
  BY <1>1 DEF UnmapFile, TablesOK
<1>3. ~IdPending /\ IdsGiven' = IdsGiven
  BY DeleteIds
<1>4. Placed(f)
  BY <1>2, <1>3 DEF IdPending
<1>5. /\ UNCHANGED files /\ DOMAIN idmap' = DOMAIN idmap \ {f}
      /\ \A g \in DOMAIN idmap' : idmap'[g] = idmap[g]
  BY <1>1 DEF UnmapFile, Without, Restrict
<1>6. DOMAIN tableBar = {g \in DOMAIN idmap : Placed(g)}
  BY DEF tableBar
<1>7. {g \in DOMAIN idmap' : Placed(g)'} = {g \in DOMAIN idmap : Placed(g)} \ {f}
  BY <1>5 DEF Placed
<1>8. \A g \in {h \in DOMAIN idmap : Placed(h)} \ {f} :
          PlaceOf(files'[idmap'[g]]) = tableBar[g]
  BY <1>5 DEF tableBar, PlaceOf
<1>9. tableBar' = [g \in DOMAIN tableBar \ {f} |-> tableBar[g]]
  BY <1>6, <1>7, <1>8 DEF tableBar, PlaceOf
<1>10. UNCHANGED <<askedBar, toldBar>>
  <2>1. ThreadStep(c) /\ ~PlaceFile(c)
    BY DEF ThreadStep, UnmapFile, PlaceFile
  <2> QED BY <2>1, ThreadTold
<1>11. f \in DOMAIN tableBar
  BY <1>2, <1>4, <1>6
<1>12. Abstract!Delete(f)
  BY <1>3, <1>9, <1>10, <1>11 DEF Abstract!Delete
<1> QED BY <1>2, <1>12

\* FindFile's second part looks the file up, or gives it a place, for the user
\* that waits on the connection.
LEMMA PlaceIsLocate ==
    ASSUME MetaInvariant, PlaceInv, TalkInv, NEW c \in Conns, PlaceFile(c), UNCHANGED uservars
    PROVE  \E u \in Users : Abstract!Locate(u)
<1> USE DEF MetaInvariant, TypeInv, TypeOK
<1>0. ThreadStep(c) /\ nsAt[c] = "place" /\ nsAt[c] \in Locating
  BY DEF ThreadStep, PlaceFile, Locating
<1>1. PICK u \in Users : u = socketLock[c] /\ u # Nobody /\ Finding(u, c)
  BY <1>0, AtWork
<1>2. PICK id : id = nsFloc[c].fd
  OBVIOUS
<1>3. PICK f : f = nsFloc[c].file
  OBVIOUS
<1>4. /\ f \in DOMAIN idmap /\ idmap[f] = id /\ f \in Files
  BY <1>0, <1>2, <1>3 DEF TableInv, Placing, TablesOK
<1>5. ConnOf[u] = c /\ userAt[u] = "wait" /\ command[u] # "cluster" /\ request[u].file = f
      /\ toClient[c] = <<>>
  BY <1>1, <1>3 DEF TalkInv, SocketInv, Finding
<1>6. f # NoFile /\ AskedFile(u) = f /\ ToldPlace(u) = NoFloc
  BY <1>0, <1>4, <1>5, MetaAssumption DEF AskedFile, ToldPlace
<1>7. /\ UNCHANGED <<idmap, toClient, userAt, command, request, userFloc, fileidcounter>>
      /\ nsAt'[c] = "found" /\ nsFloc'[c] = files'[id]
  BY <1>2 DEF PlaceFile, Goto, uservars, ThreadsOK
<1>8. AskedFile(u)' = f /\ ToldPlace(u)' = PlaceOf(files'[id])
  <2>1. AskedFile(u)' = f
    BY <1>6, <1>7 DEF AskedFile
  <2> QED BY <1>5, <1>6, <1>7, <2>1 DEF ToldPlace, PlaceOf
<1>9. \A v \in Users \ {u} : AskedFile(v)' = AskedFile(v) /\ ToldPlace(v)' = ToldPlace(v)
  <2> TAKE v \in Users \ {u}
  <2>1. CASE ConnOf[v] # c
    BY <1>0, <2>1, OthersTold
  <2>2. CASE ConnOf[v] = c
    <3>1. ~(AskedFile(v) # NoFile /\ userAt[v] # "transfer")
      BY <1>1, <2>2, Waits
    <3> QED BY <1>7, <3>1, ToldFrame
  <2> QED BY <2>1, <2>2
<1>10. PICK m : m = PlaceOf(files'[id])
  OBVIOUS
<1>11. /\ askedBar' = [askedBar EXCEPT ![u] = f]
       /\ toldBar' = [toldBar EXCEPT ![u] = m]
       /\ askedBar[u] = f /\ toldBar[u] = NoFloc
  BY <1>6, <1>8, <1>9, <1>10, OneUserBars
<1>12. UNCHANGED askedBar
  BY <1>11 DEF askedBar
<1>13. /\ DOMAIN tableBar = {g \in DOMAIN idmap : Placed(g)}
       /\ DOMAIN tableBar' = {g \in DOMAIN idmap : idmap[g] \in DOMAIN files'}
       /\ \A g \in DOMAIN tableBar' : tableBar'[g] = PlaceOf(files'[idmap[g]])
  BY <1>7 DEF tableBar, Placed, PlaceOf
<1>14. CASE id \in DOMAIN files
  <2>1. UNCHANGED files /\ UNCHANGED IdsGiven
    BY <1>2, <1>14, PlaceIds DEF PlaceFile
  <2>2. UNCHANGED tableBar /\ f \in DOMAIN tableBar
    BY <1>4, <1>7, <1>14, <2>1 DEF tableBar, Placed
  <2>3. tableBar'[f] = m
    BY <1>4, <1>10, <1>13, <2>2
  <2>4. Abstract!Locate(u)
    BY <1>6, <1>11, <1>12, <2>1, <2>2, <2>3 DEF Abstract!Locate
  <2> QED BY <2>4
<1>15. CASE id \notin DOMAIN files
  <2>1. /\ IdsGiven = id /\ IdsGiven' = IdsGiven + 1
        /\ \A g \in DOMAIN idmap : idmap[g] # id => idmap[g] \in DOMAIN files
    BY <1>2, <1>15, PlaceIds
  <2>2. PICK w : w = [nsFloc[c] EXCEPT !.server = srvs[currentSvr + 1]]
    OBVIOUS
  <2>3. files' = Put(files, id, w)
    BY <1>2, <1>15, <2>2 DEF PlaceFile
  <2>4. srvs[currentSvr + 1] \in Servers
    BY <1>2, <1>15 DEF PlaceFile, TablesOK
  <2>5. PICK s \in Servers : s = srvs[currentSvr + 1]
    BY <2>4
  <2>6. w.fd = id /\ w.server = s
    BY <1>2, <2>2, <2>5 DEF ThreadsOK, Floc
  <2>7. /\ DOMAIN files' = DOMAIN files \cup {id} /\ files'[id] = w
        /\ \A i \in DOMAIN files : files'[i] = files[i]
    BY <1>15, <2>3 DEF Put
  <2>8. m = [fd |-> IdsGiven, server |-> s]
    BY <1>10, <2>1, <2>6, <2>7 DEF PlaceOf
  <2>9. f \notin DOMAIN tableBar
    BY <1>4, <1>13, <1>15 DEF Placed
  <2>10. \A g \in DOMAIN idmap : idmap[g] = id => g = f
    BY <1>4 DEF TableInv
  <2>11. DOMAIN tableBar' = DOMAIN tableBar \cup {f}
    BY <1>4, <1>13, <2>7, <2>10 DEF Placed
  <2>12. \A g \in DOMAIN tableBar : tableBar'[g] = tableBar[g] /\ g # f
    <3> TAKE g \in DOMAIN tableBar
    <3>1. g \in DOMAIN idmap /\ idmap[g] \in DOMAIN files /\ g # f
      BY <1>13, <2>9 DEF Placed
    <3>2. tableBar[g] = PlaceOf(files[idmap[g]])
      BY <1>13 DEF tableBar
    <3>3. tableBar'[g] = PlaceOf(files[idmap[g]])
      BY <1>13, <2>7, <2>11, <3>1
    <3> QED BY <3>1, <3>2, <3>3
  <2>13. tableBar'[f] = m
    BY <1>4, <1>10, <1>13, <2>11
  <2>14. tableBar' = [g \in DOMAIN tableBar \cup {f} |->
                         IF g = f THEN [fd |-> IdsGiven, server |-> s] ELSE tableBar[g]]
    <3>1. tableBar' = [g \in DOMAIN tableBar' |-> tableBar'[g]]
      BY DEF tableBar
    <3>2. PICK t, t1 : t = tableBar /\ t1 = tableBar'
      OBVIOUS
    <3>3. t1 = [g \in DOMAIN t1 |-> t1[g]]
      BY <3>1, <3>2
    <3>4. /\ DOMAIN t1 = DOMAIN t \cup {f} /\ t1[f] = [fd |-> IdsGiven, server |-> s]
          /\ \A g \in DOMAIN t : t1[g] = t[g] /\ g # f
      BY <2>8, <2>11, <2>12, <2>13, <3>2
    <3>5. t1 = [g \in DOMAIN t \cup {f} |->
                   IF g = f THEN [fd |-> IdsGiven, server |-> s] ELSE t[g]]
      BY <3>3, <3>4
    <3> QED BY <3>2, <3>5
  <2>15. Abstract!Locate(u)
    BY <1>6, <1>11, <1>12, <2>1, <2>9, <2>13, <2>14 DEF Abstract!Locate
  <2> QED BY <2>15
<1> QED BY <1>14, <1>15

\* A step of one user is nothing to the others.
LEMMA OtherUsersTold ==
    ASSUME TypeInv, TalkInv, NEW u \in Users, UserStep(u) \/ Command(u)
    PROVE  \A v \in Users \ {u} :
               AskedFile(v)' = AskedFile(v) /\ ToldPlace(v)' = ToldPlace(v)
<1>1. /\ \A v \in Users \ {u} :
             /\ userAt'[v] = userAt[v] /\ command'[v] = command[v]
             /\ request'[v] = request[v] /\ userFloc'[v] = userFloc[v]
      /\ \A d \in Conns \ {ConnOf[u]} : toClient'[d] = toClient[d]
      /\ UNCHANGED <<nsAt, nsFloc>>
  BY OnlyHis DEF threads
<1> TAKE v \in Users \ {u}
<1>2. AskedFile(v) # NoFile /\ userAt[v] # "transfer" => toClient'[ConnOf[v]] = toClient[ConnOf[v]]
  <2> SUFFICES ASSUME AskedFile(v) # NoFile /\ userAt[v] # "transfer"
               PROVE  toClient'[ConnOf[v]] = toClient[ConnOf[v]]
    OBVIOUS
  <2>1. socketLock[ConnOf[v]] = v /\ v # Nobody /\ ConnOf[v] \in Conns
    BY Waits, UserAssumption
  <2>2. CASE ConnOf[v] # ConnOf[u]
    BY <1>1, <2>1, <2>2
  <2>3. CASE ConnOf[v] = ConnOf[u]
    <3>1. userAt[u] \notin {"wait", "list"} /\ socketLock[ConnOf[u]] # Nobody
      BY <2>1, <2>3 DEF TalkInv, SocketInv
    <3>2. ~Ask(u) /\ ~TakeLocation(u) /\ ~TakeCount(u) /\ ~TakeRecord(u)
      BY <3>1 DEF Ask, SocketFree, TakeLocation, TakeCount, TakeRecord
    <3>3. UNCHANGED toClient
      BY <3>2 DEF UserStep, Command, Give, Transfer, nsvars
    <3> QED BY <3>3
  <2> QED BY <2>2, <2>3
<1> QED BY <1>1, <1>2, ToldFrame

\* Steps of users leave the table.
LEMMA UserKeepsTable ==
    ASSUME TypeInv, NEW u \in Users, UserStep(u) \/ Command(u)
    PROVE  UNCHANGED <<tableBar, IdsGiven>>
<1>1. UNCHANGED <<idmap, fileidcounter, files>>
  BY OnlyHis DEF tables
<1> QED BY <1>1 DEF tableBar, Placed, IdsGiven, IdPending

\* A user that asks for no file before and after a step is not told anything.
LEMMA NotAsking ==
    ASSUME TypeInv, TalkInv, NEW u \in Users, UserStep(u) \/ Command(u),
           AskedFile(u) = NoFile, AskedFile(u)' = NoFile
    PROVE  UNCHANGED bars
<1>1. ToldPlace(u) = NoFloc /\ ToldPlace(u)' = NoFloc
  BY DEF ToldPlace
<1>2. \A v \in Users : AskedFile(v)' = AskedFile(v) /\ ToldPlace(v)' = ToldPlace(v)
  BY <1>1, OtherUsersTold
<1> QED BY <1>2, UserBars, UserKeepsTable DEF bars

\* A request for a location is an Ask of the abstract table; one for a deletion
\* or a listing is nothing to it.
LEMMA AskIsAsk ==
    ASSUME TypeInv, TalkInv, NEW u \in Users, Ask(u)
    PROVE  (\E f \in Files : Abstract!Ask(u, f)) \/ UNCHANGED bars
<1> USE DEF TypeInv, TypeOK
<1>0. UserStep(u) /\ userAt[u] = "ask" /\ AskedFile(u) = NoFile
  BY DEF Ask, UserStep, AskedFile
<1>1. CASE command[u] \in {"rm", "cluster"}
  <2>1. userAt'[u] = "idle" \/ command'[u] = "cluster"
    BY <1>1 DEF Ask, Done, UserGoto, UsersOK
  <2>2. AskedFile(u)' = NoFile
    BY <2>1 DEF AskedFile
  <2> QED BY <1>0, <2>2, NotAsking
<1>2. CASE command[u] \notin {"rm", "cluster"}
  <2>1. command[u] \in {"touch", "stat"}
    BY <1>0, <1>2, UserAssumption DEF TalkInv, SocketInv
  <2>2. PICK f \in Files : f = request[u].file
    BY <2>1 DEF TalkInv, SocketInv
  <2>3. PICK c \in Conns : c = ConnOf[u]
    BY UserAssumption
  <2>4. toClient[c] = <<>> /\ nsAt[c] # "found"
    <3>1. socketLock[c] = Nobody /\ Talk(c)
      BY <2>3 DEF Ask, SocketFree, TalkInv
    <3> QED BY <3>1 DEF Talk, Quiet, Resting
  <2>5. /\ userAt'[u] = "wait" /\ command'[u] = command[u] /\ request'[u] = request[u]
        /\ UNCHANGED <<toClient, nsAt>>
    BY <1>2 DEF Ask, UserGoto, UsersOK, threads
  <2>6. AskedFile(u)' = f /\ f # NoFile
    BY <1>2, <2>2, <2>5, MetaAssumption DEF AskedFile
  <2>7. ToldPlace(u)' = NoFloc /\ ToldPlace(u) = NoFloc
    BY <1>0, <2>3, <2>4, <2>5, <2>6 DEF ToldPlace
  <2>8. /\ askedBar' = [askedBar EXCEPT ![u] = f]
        /\ toldBar' = [toldBar EXCEPT ![u] = NoFloc]
        /\ askedBar[u] = NoFile /\ toldBar[u] = NoFloc
    BY <1>0, <2>6, <2>7, OtherUsersTold, OneUserBars
  <2>9. UNCHANGED toldBar
    BY <2>8 DEF toldBar
  <2>10. Abstract!Ask(u, f)
    BY <1>0, <2>8, <2>9, UserKeepsTable DEF Abstract!Ask
  <2> QED BY <2>10
<1> QED BY <1>1, <1>2

\* The answer goes from the connection to the user: the same was told.
LEMMA TakeIsNothing ==
    ASSUME TypeInv, TalkInv, NEW u \in Users, TakeLocation(u)
    PROVE  UNCHANGED bars
<1> USE DEF TypeInv, TypeOK
<1>1. PICK c \in Conns : c = ConnOf[u]
  BY UserAssumption
<1>2. Answered(u, c) /\ userAt'[u] = "transfer"
  BY <1>1, TakeLocationTalk
<1>3. /\ userAt[u] = "wait" /\ command[u] \in {"touch", "stat"} /\ toClient[c] # <<>>
      /\ userFloc'[u] = Taken(u).floc /\ UNCHANGED <<command, request>>
  BY <1>1, <1>2 DEF TakeLocation, Take, UserGoto, Done, UsersOK
<1>4. AskedFile(u)' = AskedFile(u)
  BY <1>2, <1>3 DEF AskedFile
<1>5. PICK m : m = Taken(u).floc
  OBVIOUS
<1>6. ToldPlace(u)' = ToldPlace(u)
  <2>1. CASE AskedFile(u) = NoFile
    BY <1>4, <2>1 DEF ToldPlace
  <2>2. CASE AskedFile(u) # NoFile
    <3>1. ToldPlace(u) = PlaceOf(m)
      BY <1>1, <1>3, <1>5, <2>2 DEF ToldPlace
    <3>2. ToldPlace(u)' = PlaceOf(m)
      BY <1>2, <1>3, <1>4, <1>5, <2>2 DEF ToldPlace, PlaceOf
    <3> QED BY <3>1, <3>2
  <2> QED BY <2>1, <2>2
<1>7. UserStep(u)
  BY DEF UserStep
<1>8. \A v \in Users : AskedFile(v)' = AskedFile(v) /\ ToldPlace(v)' = ToldPlace(v)
  BY <1>4, <1>6, <1>7, OtherUsersTold
<1> QED BY <1>7, <1>8, UserBars, UserKeepsTable DEF bars

\* The transfer ends what was asked.
LEMMA TransferIsFinish ==
    ASSUME TypeInv, TalkInv, NEW u \in Users, Transfer(u)
    PROVE  Abstract!Finish(u)
<1> USE DEF TypeInv, TypeOK
<1>1. UserStep(u) /\ userAt[u] = "transfer" /\ userAt'[u] = "idle"
  BY DEF UserStep, Transfer, Done, UserGoto, UsersOK
<1>2. command[u] \in {"touch", "stat"} /\ request[u].file \in Files
  BY <1>1 DEF TalkInv, SocketInv
<1>3. AskedFile(u) # NoFile
  BY <1>1, <1>2, MetaAssumption DEF AskedFile
<1>4. ToldPlace(u) # NoFloc
  BY <1>1, <1>3, PlaceIsSome DEF ToldPlace
<1>5. AskedFile(u)' = NoFile
  BY <1>1 DEF AskedFile
<1>6. ToldPlace(u)' = NoFloc
  BY <1>5 DEF ToldPlace
<1>7. /\ askedBar' = [askedBar EXCEPT ![u] = NoFile]
      /\ toldBar' = [toldBar EXCEPT ![u] = NoFloc]
      /\ toldBar[u] # NoFloc
  BY <1>1, <1>4, <1>5, <1>6, OtherUsersTold, OneUserBars
<1> QED BY <1>1, <1>7, UserKeepsTable DEF Abstract!Finish

\* Every step is one of the abstract table, or nothing to it.
LEMMA BarStep ==
    MetaInvariant /\ PlaceInv /\ TalkInv /\ [Next]_vars => [Abstract!Next]_bars
<1> SUFFICES ASSUME MetaInvariant, PlaceInv, TalkInv, [Next]_vars
             PROVE  Abstract!Next \/ UNCHANGED bars
  OBVIOUS
<1>0. TypeInv
  BY DEF MetaInvariant
<1>1. CASE \E c \in Conns : ThreadStep(c) /\ UNCHANGED uservars
  <2>1. PICK c \in Conns : ThreadStep(c) /\ UNCHANGED uservars
    BY <1>1
  <2>2. CASE PlaceFile(c)
    BY <2>1, <2>2, PlaceIsLocate DEF Abstract!Next
  <2>3. CASE UnmapFile(c)
    BY <2>1, <2>3, UnmapIsDelete DEF Abstract!Next
  <2>4. CASE ~PlaceFile(c) /\ ~UnmapFile(c)
    BY <1>0, <2>1, <2>4, ThreadKeepsTable, ThreadTold DEF bars
  <2> QED BY <2>2, <2>3, <2>4
<1>2. CASE \E u \in Users : UserStep(u) \/ Command(u)
  <2>1. PICK u \in Users : UserStep(u) \/ Command(u)
    BY <1>2
  <2>2. CASE Ask(u)
    BY <1>0, <2>2, AskIsAsk DEF Abstract!Next
  <2>3. CASE TakeLocation(u)
    BY <1>0, <2>3, TakeIsNothing
  <2>4. CASE Transfer(u)
    BY <1>0, <2>4, TransferIsFinish DEF Abstract!Next
  <2>5. CASE TakeCount(u) \/ TakeRecord(u)
    <3>1. UserStep(u) /\ command[u] = "cluster"
      BY <2>5 DEF UserStep, TakeCount, TakeRecord, TalkInv, SocketInv
    <3>2. userAt'[u] = "idle" \/ command'[u] = "cluster"
      BY <1>0, <2>5, <3>1 DEF TakeCount, TakeRecord, Listing, Done, UserGoto,
                              TypeInv, TypeOK, UsersOK
    <3>3. AskedFile(u) = NoFile /\ AskedFile(u)' = NoFile
      BY <3>1, <3>2 DEF AskedFile
    <3> QED BY <1>0, <3>1, <3>3, NotAsking
  <2>6. CASE Command(u)
    <3>1. userAt[u] = "idle" /\ userAt'[u] = "ask"
      BY <1>0, <2>6 DEF Command, Give, UserGoto, TypeInv, TypeOK, UsersOK
    <3>2. AskedFile(u) = NoFile /\ AskedFile(u)' = NoFile
      BY <3>1 DEF AskedFile
    <3> QED BY <1>0, <2>6, <3>2, NotAsking
  <2> QED BY <2>1, <2>2, <2>3, <2>4, <2>5, <2>6 DEF UserStep
<1>3. CASE \/ UNCHANGED vars
           \/ \E s \in Servers : RegisterServer(s) /\ UNCHANGED uservars
  <2>1. /\ UNCHANGED <<idmap, fileidcounter, files, nsAt, nsFloc, toClient>>
        /\ UNCHANGED <<userAt, command, request, userFloc>>
    BY <1>3 DEF vars, nsvars, uservars, tables, threads, RegisterServer
  <2>2. UNCHANGED <<tableBar, IdsGiven>>
    BY <2>1 DEF tableBar, Placed, IdsGiven, IdPending
  <2>3. \A v \in Users : AskedFile(v)' = AskedFile(v) /\ ToldPlace(v)' = ToldPlace(v)
    BY <1>0, <2>1, ToldFrame
  <2> QED BY <2>2, <2>3, UserBars DEF bars
<1> QED BY <1>1, <1>2, <1>3 DEF Next, NsStep

\* FindFile, DeleteFile and the clients' RequireLocation, in threads that
\* interleave, are lookups and deletions of one table, each done in one step
\* between the request and its answer.
THEOREM FileTableImplemented ==
    ASSUME ListingsAlone
    PROVE  Spec => ImplementsFileTable
<1>1. Init => Abstract!Init
  <2> SUFFICES ASSUME Init PROVE Abstract!Init
    OBVIOUS
  <2>1. idmap = <<>> /\ fileidcounter = 0 /\ \A u \in Users : userAt[u] = "idle"
    BY DEF Init, NsInit
  <2>2. DOMAIN idmap = {}
    BY <2>1
  <2>3. tableBar = [f \in {} |-> NoFloc] /\ IdsGiven = 0
    BY <2>1, <2>2 DEF tableBar, IdsGiven, IdPending
  <2>4. \A u \in Users : AskedFile(u) = NoFile /\ ToldPlace(u) = NoFloc
    BY <2>1 DEF AskedFile, ToldPlace
  <2> QED BY <2>3, <2>4 DEF Abstract!Init, askedBar, toldBar
<1>2. Spec => [](MetaInvariant /\ PlaceInv /\ TalkInv)
  BY MetaInvariantHolds, PlacesKnown, TalkInvariantHolds, PTL
<1> QED BY <1>1, <1>2, BarStep, PTL
        DEF Spec, ImplementsFileTable, Abstract!Spec, Abstract!vars, bars
-----------------------------------------------------------------------------
(* What clients do at the data servers (MetaStore).                        *)

\* Of a step with data servers, the name server and the users see a step of
\* theirs, or nothing; storing, reading and exit are nothing to them.
LEMMA StoreStep == [StoreNext]_allVars => [Next]_vars
<1> SUFFICES ASSUME StoreNext \/ UNCHANGED allVars PROVE Next \/ UNCHANGED vars
  OBVIOUS
<1>1. CASE NsStep /\ UNCHANGED <<uservars, storeVars>>
  BY <1>1 DEF Next
<1>2. CASE \E u \in Users : StoreUserStep(u) \/ (Command(u) /\ UNCHANGED storeVars)
  BY <1>2 DEF StoreUserStep, Upload, AskData, SendData, FileMissing, Next, UserStep
<1>3. CASE \E x \in uploads : StoreSegment(x)
  BY <1>3 DEF StoreSegment
<1>4. CASE UNCHANGED allVars
  BY <1>4 DEF allVars
<1> QED BY <1>1, <1>2, <1>3, <1>4 DEF StoreNext

\* The clients with the data servers they use behave towards the name server
\* as MetaDFS says: whatever is proved of Spec holds of them.
THEOREM StoreImplementsUsers == StoreSpec => Spec
<1>1. StoreInit => Init
  BY DEF StoreInit
<1> QED BY <1>1, StoreStep, PTL DEF StoreSpec, Spec

\* The places that answers on the way tell.
LEMMA AnswersAre ==
    /\ \A p : p \in AnswerPlaces <=>
           \E c \in Conns : \E i \in AnswersTo(c) : p = PlaceOf(toClient[c][i].floc)
    /\ \A p : p \in AnswerPlaces' <=>
           \E c \in Conns : \E i \in AnswersTo(c)' : p = PlaceOf(toClient'[c][i].floc)
<1>1. \A p : p \in AnswerPlaces <=>
           \E c \in Conns : \E i \in AnswersTo(c) : p = PlaceOf(toClient[c][i].floc)
  <2> SUFFICES ASSUME NEW p
               PROVE  p \in AnswerPlaces <=>
                   \E c \in Conns : p \in {PlaceOf(toClient[c][i].floc) : i \in AnswersTo(c)}
    OBVIOUS
  <2> QED BY Zenon DEF AnswerPlaces
<1>2. \A p : p \in AnswerPlaces' <=>
           \E c \in Conns : \E i \in AnswersTo(c)' : p = PlaceOf(toClient'[c][i].floc)
  <2> SUFFICES ASSUME NEW p
               PROVE  p \in AnswerPlaces' <=>
                   \E c \in Conns : p \in {PlaceOf(toClient'[c][i].floc) : i \in AnswersTo(c)'}
    OBVIOUS
  <2> QED BY Zenon DEF AnswerPlaces, PlaceOf
<1> QED BY <1>1, <1>2

\* A location a thread writes is the one it found or copied.
LEMMA AnswersFrom ==
    ASSUME TypeInv, NEW c \in Conns, ThreadStep(c)
    PROVE  AnswerPlaces' \subseteq AnswerPlaces \cup ThreadPlaces
<1>1. ASSUME NEW m, Write(c, m),
             m.type = "FILELOCATION" => PlaceOf(m.floc) \in ThreadPlaces
      PROVE  AnswerPlaces' \subseteq AnswerPlaces \cup ThreadPlaces
  <2> SUFFICES ASSUME NEW d \in Conns, NEW i \in AnswersTo(d)'
               PROVE  PlaceOf(toClient'[d][i].floc) \in AnswerPlaces \cup ThreadPlaces
    BY AnswersAre
  <2>1. toClient'[d] = IF d = c THEN Append(toClient[c], m) ELSE toClient[d]
    BY <1>1 DEF Write, TypeInv, TypeOK, ThreadsOK
  <2>2. toClient[c] \in Seq(Msg)
    BY DEF TypeInv, TypeOK, ThreadsOK
  <2>3. i \in 1..Len(toClient'[d]) /\ toClient'[d][i].type = "FILELOCATION"
    BY DEF AnswersTo
  <2>4. CASE i \in 1..Len(toClient[d]) /\ toClient'[d][i] = toClient[d][i]
    <3>1. i \in AnswersTo(d)
      BY <2>3, <2>4 DEF AnswersTo
    <3> QED BY <2>4, <3>1 DEF AnswerPlaces
  <2>5. \/ i \in 1..Len(toClient[d]) /\ toClient'[d][i] = toClient[d][i]
        \/ toClient'[d][i] = m
    BY <2>1, <2>2, <2>3
  <2> QED BY <1>1, <2>3, <2>4, <2>5
<1>2. CASE SendLocation(c) \/ SendRecord(c)
  <2>1. PICK m : /\ m = [type |-> "FILELOCATION", floc |-> nsFloc[c], num |-> 0]
                 /\ Write(c, m)
    BY <1>2 DEF SendLocation, SendRecord, Reply
  <2>2. PlaceOf(nsFloc[c]) \in ThreadPlaces
    BY <1>2 DEF SendLocation, SendRecord, ThreadPlaces
  <2> QED BY <1>1, <2>1, <2>2
<1>3. CASE SendCount(c)
  <2>1. PICK m : /\ m = [type |-> "ALLINFORMATION", floc |-> NoFloc, num |-> ItemNum]
                 /\ Write(c, m)
    BY <1>3 DEF SendCount
  <2>2. m.type # "FILELOCATION"
    BY <2>1
  <2> QED BY <1>1, <2>1, <2>2
<1>4. CASE ~(SendLocation(c) \/ SendRecord(c) \/ SendCount(c))
  <2>1. UNCHANGED toClient
    BY <1>4 DEF ThreadStep, ReadRequest, TakeLock, MapFile, PlaceFile, DeleteUnknown,
                UnmapFile, EraseFile, BeginWalk, NextRecord
  <2> QED BY <2>1 DEF AnswerPlaces, AnswersTo
<1> QED BY <1>2, <1>3, <1>4

\* A thread that does not give a file its place records none, and what it finds
\* or copies is on record.
LEMMA PlacesFrom ==
    ASSUME TypeInv, NEW c \in Conns, ThreadStep(c), ~PlaceFile(c)
    PROVE  /\ RecordedPlaces' \subseteq RecordedPlaces
           /\ ThreadPlaces' \subseteq ThreadPlaces \cup RecordedPlaces
<1> USE DEF TypeInv, TypeOK, ThreadsOK
<1>1. \A d \in Conns \ {c} : nsAt'[d] = nsAt[d] /\ nsFloc'[d] = nsFloc[d]
  BY OtherThreads
<1>2. RecordedPlaces' \subseteq RecordedPlaces
  <2>1. DOMAIN files' \subseteq DOMAIN files /\ \A id \in DOMAIN files' : files'[id] = files[id]
    <3>1. CASE EraseFile(c)
      BY <3>1 DEF EraseFile, Erased, Without, Restrict
    <3>2. CASE ~EraseFile(c)
      BY <3>2 DEF ThreadStep, ReadRequest, TakeLock, MapFile, SendLocation, DeleteUnknown,
                  UnmapFile, SendCount, BeginWalk, SendRecord, NextRecord, tables
    <3> QED BY <3>1, <3>2
  <2> QED BY <2>1 DEF RecordedPlaces, PlaceOf
<1>3. \/ nsAt'[c] \notin {"found", "send", "next"}
      \/ nsAt[c] \in {"found", "send", "next"} /\ nsFloc'[c] = nsFloc[c]
      \/ \E id \in DOMAIN files : nsFloc'[c] = files[id]
  <2>1. CASE ReadRequest(c) \/ TakeLock(c) \/ MapFile(c) \/ SendLocation(c)
    BY <2>1 DEF ReadRequest, HandlerOf, TakeLock, MapFile, SendLocation, Goto, Return
  <2>2. CASE DeleteUnknown(c) \/ UnmapFile(c) \/ EraseFile(c)
    BY <2>2 DEF DeleteUnknown, UnmapFile, EraseFile, Goto, Return
  <2>3. CASE SendCount(c) \/ SendRecord(c)
    BY <2>3 DEF SendCount, SendRecord, Goto
  <2>4. ASSUME NEW S \in SUBSET DOMAIN files, Advance(c, S)
        PROVE  \/ nsAt'[c] = "read"
               \/ \E id \in DOMAIN files : nsFloc'[c] = files[id]
    BY <2>4 DEF Advance, Return, Goto
  <2>5. CASE BeginWalk(c) \/ NextRecord(c)
    <3>1. \E S \in SUBSET DOMAIN files : Advance(c, S)
      BY <2>5 DEF BeginWalk, NextRecord
    <3> QED BY <2>4, <3>1
  <2> QED BY <2>1, <2>2, <2>3, <2>5 DEF ThreadStep
<1>4. PlaceOf(nsFloc'[c]) \in ThreadPlaces \cup RecordedPlaces
      \/ nsAt'[c] \notin {"found", "send", "next"}
  BY <1>3 DEF ThreadPlaces, RecordedPlaces
<1>5. ThreadPlaces' \subseteq ThreadPlaces \cup RecordedPlaces
  BY <1>1, <1>4 DEF ThreadPlaces, PlaceOf
<1> QED BY <1>2, <1>5

\* FindFile gives a file a place of an id that nobody knows, or finds one.
LEMMA PlaceKnown ==
    ASSUME MetaInvariant, PlaceInv, NEW c \in Conns, PlaceFile(c)
    PROVE  \E p : /\ RecordedPlaces' \subseteq RecordedPlaces \cup {p}
                  /\ ThreadPlaces' \subseteq ThreadPlaces \cup {p}
                  /\ \/ p \in RecordedPlaces /\ IdsGiven' = IdsGiven
                     \/ p.fd = IdsGiven /\ IdsGiven' = IdsGiven + 1
<1> DEFINE id == nsFloc[c].fd
           p == PlaceOf(files'[id])
<1> USE DEF MetaInvariant, TypeInv, TypeOK, ThreadsOK
<1>1. \A d \in Conns \ {c} : nsAt'[d] = nsAt[d] /\ nsFloc'[d] = nsFloc[d]
  BY OtherThreads DEF ThreadStep
<1>2. nsFloc'[c] = files'[id]
  BY DEF PlaceFile
<1>3. ThreadPlaces' \subseteq ThreadPlaces \cup {p}
  <2> SUFFICES ASSUME NEW d \in Conns, nsAt'[d] \in {"found", "send", "next"}
               PROVE  PlaceOf(nsFloc'[d]) \in ThreadPlaces \cup {p}
    BY DEF ThreadPlaces, PlaceOf
  <2>1. CASE d = c
    BY <1>2, <2>1
  <2>2. CASE d # c
    BY <1>1, <2>2 DEF ThreadPlaces
  <2> QED BY <2>1, <2>2
<1>4. CASE id \in DOMAIN files
  <2>1. UNCHANGED files /\ p \in RecordedPlaces
    BY <1>4 DEF PlaceFile, RecordedPlaces
  <2>2. RecordedPlaces' \subseteq RecordedPlaces
    BY <2>1 DEF RecordedPlaces, PlaceOf
  <2>3. IdsGiven' = IdsGiven
    BY <1>4, PlaceIds
  <2> QED BY <1>3, <2>1, <2>2, <2>3
<1>5. CASE id \notin DOMAIN files
  <2>1. PICK w : w = [nsFloc[c] EXCEPT !.server = srvs[currentSvr + 1]]
    OBVIOUS
  <2>2. w.fd = id
    BY <2>1 DEF Floc
  <2>3. files' = Put(files, id, w)
    BY <1>5, <2>1 DEF PlaceFile
  <2>4. /\ DOMAIN files' = DOMAIN files \cup {id}
        /\ files'[id] = w
        /\ \A i \in DOMAIN files : files'[i] = files[i]
    BY <1>5, <2>3 DEF Put
  <2>5. RecordedPlaces' \subseteq RecordedPlaces \cup {p}
    BY <2>4 DEF RecordedPlaces, PlaceOf
  <2>6. p.fd = id
    BY <2>2, <2>4 DEF PlaceOf
  <2>7. IdsGiven = id /\ IdsGiven' = IdsGiven + 1
    BY <1>5, PlaceIds
  <2> QED BY <1>3, <2>5, <2>6, <2>7
<1> QED BY <1>4, <1>5

\* Steps that tell nothing new.
LEMMA KnownFrame ==
    ASSUME StoreInv, KnownPlaces' \subseteq KnownPlaces, IdsGiven' = IdsGiven,
           DOMAIN disks' = Servers
    PROVE  StoreInv'
BY DEF StoreInv

\* A place of an id that nobody knew contradicts no other.
LEMMA KnownStep ==
    ASSUME StoreInv, IdsGiven \in Int, NEW p,
           KnownPlaces' \subseteq KnownPlaces \cup {p},
           p.fd = IdsGiven, IdsGiven' = IdsGiven + 1,
           DOMAIN disks' = Servers
    PROVE  StoreInv'
<1>1. \A q \in KnownPlaces : q.fd \in Int /\ q.fd < IdsGiven /\ q.fd # p.fd
  BY DEF StoreInv
<1>2. \A q \in KnownPlaces' : q \in KnownPlaces \/ q = p
  OBVIOUS
<1>3. \A q, r \in KnownPlaces : q.fd = r.fd => q.server = r.server
  BY DEF StoreInv
<1>4. \A q \in KnownPlaces' : q.fd \in Int /\ q.fd < IdsGiven'
  BY <1>1, <1>2
<1>5. \A q, r \in KnownPlaces' : q.fd = r.fd => q.server = r.server
  BY <1>1, <1>2, <1>3
<1> QED BY <1>4, <1>5 DEF StoreInv

\* A step of a thread of the name server.
LEMMA ThreadKnown ==
    ASSUME MetaInvariant, PlaceInv, StoreInv, NEW c \in Conns, ThreadStep(c),
           UNCHANGED <<uservars, storeVars>>
    PROVE  StoreInv'
<1>1. TypeInv /\ IdsGiven \in Int
  BY DEF MetaInvariant, TypeInv, TypeOK, TablesOK, IdsGiven
<1>2. AnswerPlaces' \subseteq AnswerPlaces \cup ThreadPlaces
  BY <1>1, AnswersFrom
<1>3. UNCHANGED <<UserPlaces, UploadPlaces, DiskPlaces>> /\ DOMAIN disks' = Servers
  BY DEF UserPlaces, UploadPlaces, DiskPlaces, uservars, storeVars, StoreInv
<1>4. CASE PlaceFile(c)
  <2>1. PICK p : /\ RecordedPlaces' \subseteq RecordedPlaces \cup {p}
                 /\ ThreadPlaces' \subseteq ThreadPlaces \cup {p}
                 /\ \/ p \in RecordedPlaces /\ IdsGiven' = IdsGiven
                    \/ p.fd = IdsGiven /\ IdsGiven' = IdsGiven + 1
    BY <1>4, PlaceKnown
  <2>2. KnownPlaces' \subseteq KnownPlaces \cup {p}
    BY <1>2, <1>3, <2>1 DEF KnownPlaces
  <2>3. CASE p \in RecordedPlaces /\ IdsGiven' = IdsGiven
    <3>1. KnownPlaces' \subseteq KnownPlaces
      BY <2>2, <2>3 DEF KnownPlaces
    <3> QED BY <1>3, <2>3, <3>1, KnownFrame
  <2>4. CASE p.fd = IdsGiven /\ IdsGiven' = IdsGiven + 1
    BY <1>1, <1>3, <2>2, <2>4, KnownStep
  <2> QED BY <2>1, <2>3, <2>4
<1>5. CASE ~PlaceFile(c)
  <2>1. KnownPlaces' \subseteq KnownPlaces
    <3>1. /\ RecordedPlaces' \subseteq RecordedPlaces
          /\ ThreadPlaces' \subseteq ThreadPlaces \cup RecordedPlaces
      BY <1>1, <1>5, PlacesFrom
    <3> QED BY <1>2, <1>3, <3>1 DEF KnownPlaces
  <2>2. IdsGiven' = IdsGiven
    <3>1. CASE MapFile(c)
      BY <3>1, MapIds
    <3>2. CASE UnmapFile(c) \/ EraseFile(c)
      BY <3>2, DeleteIds
    <3>3. CASE ~MapFile(c) /\ ~UnmapFile(c) /\ ~EraseFile(c)
      <4>1. UNCHANGED <<idmap, fileidcounter, files>>
        BY <1>5, <3>3 DEF ThreadStep, ReadRequest, TakeLock, SendLocation, DeleteUnknown,
             SendCount, BeginWalk, SendRecord, NextRecord, tables
      <4> QED BY <4>1 DEF IdsGiven, IdPending, Placed
    <3> QED BY <3>1, <3>2, <3>3
  <2> QED BY <1>3, <2>1, <2>2, KnownFrame
<1> QED BY <1>4, <1>5

\* A user learns a place from an answer, and what is left on the connection was
\* there before.
LEMMA TakeKnown ==
    ASSUME TypeInv, NEW u \in Users, Take(u)
    PROVE  /\ AnswerPlaces' \subseteq AnswerPlaces
           /\ Taken(u).type = "FILELOCATION" => PlaceOf(Taken(u).floc) \in AnswerPlaces
<1> DEFINE c == ConnOf[u]
<1>1. c \in Conns /\ toClient \in [Conns -> Seq(Msg)]
  BY UserAssumption DEF TypeInv, TypeOK, ThreadsOK
<1>2. toClient[c] # <<>> /\ toClient' = [toClient EXCEPT ![c] = Tail(@)]
  BY DEF Take
<1>3. Taken(u) = toClient[c][1] /\ 1 \in 1..Len(toClient[c])
  BY <1>1, <1>2 DEF Taken
<1>4. Taken(u).type = "FILELOCATION" => PlaceOf(Taken(u).floc) \in AnswerPlaces
  BY <1>1, <1>3 DEF AnswerPlaces, AnswersTo
<1>5. ASSUME NEW d \in Conns, NEW i \in AnswersTo(d)'
      PROVE  PlaceOf(toClient'[d][i].floc) \in AnswerPlaces
  <2>1. i \in 1..Len(toClient'[d]) /\ toClient'[d][i].type = "FILELOCATION"
    BY <1>5 DEF AnswersTo
  <2>2. PICK j \in 1..Len(toClient[d]) : toClient[d][j] = toClient'[d][i]
    <3>1. CASE d = c
      <4>1. PICK q \in Seq(Msg) : q = toClient[c] /\ q # <<>>
        BY <1>1, <1>2
      <4>2. toClient'[d] = Tail(q)
        BY <1>1, <1>2, <3>1, <4>1
      <4>3. i + 1 \in 1..Len(q) /\ q[i + 1] = Tail(q)[i]
        BY <2>1, <4>1, <4>2
      <4> QED BY <3>1, <4>1, <4>2, <4>3
    <3>2. CASE d # c
      BY <1>1, <1>2, <2>1, <3>2
    <3> QED BY <3>1, <3>2
  <2>3. j \in AnswersTo(d)
    BY <2>1, <2>2 DEF AnswersTo
  <2> QED BY <2>2, <2>3 DEF AnswerPlaces
<1>6. AnswerPlaces' \subseteq AnswerPlaces
  BY <1>5, AnswersAre
<1> QED BY <1>4, <1>6

\* A command is given: the name server does not know of it yet.
LEMMA CommandFrame ==
    ASSUME NEW u \in Users, Command(u)
    PROVE  /\ UNCHANGED <<nsvars, userFloc>>
           /\ userAt' = [userAt EXCEPT ![u] = "ask"]
<1>1. PICK cmd, f, n : Give(u, cmd, f, n)
  BY DEF Command
<1> QED BY <1>1 DEF Give, UserGoto

\* A step of a user towards the name server, and the end of a transfer.
LEMMA UserKnown ==
    ASSUME TypeInv, NEW u \in Users, UserStep(u) \/ Command(u)
    PROVE  /\ AnswerPlaces' \subseteq AnswerPlaces
           /\ UserPlaces' \subseteq UserPlaces \cup AnswerPlaces
           /\ UNCHANGED <<RecordedPlaces, ThreadPlaces, IdsGiven>>
<1> USE DEF TypeInv, TypeOK, UsersOK
<1>1. UNCHANGED <<idmap, fileidcounter, files, nsAt, nsFloc>>
  <2>1. CASE Ask(u) \/ Transfer(u)
    BY <2>1 DEF Ask, Transfer, nsvars, tables, threads
  <2>2. CASE Take(u)
    BY <2>2 DEF Take, tables, threads
  <2>3. CASE Command(u)
    <3>1. UNCHANGED nsvars
      BY <2>3, CommandFrame
    <3> QED BY <3>1 DEF nsvars, tables, threads
  <2> QED BY <2>1, <2>2, <2>3 DEF UserStep, TakeLocation, TakeCount, TakeRecord
<1>2. UNCHANGED <<RecordedPlaces, ThreadPlaces, IdsGiven>>
  BY <1>1 DEF RecordedPlaces, ThreadPlaces, IdsGiven, IdPending, Placed
<1>3. ASSUME \A v \in Users : userAt'[v] = "transfer" =>
                 \/ userAt[v] = "transfer" /\ userFloc'[v] = userFloc[v]
                 \/ PlaceOf(userFloc'[v]) \in AnswerPlaces
      PROVE  UserPlaces' \subseteq UserPlaces \cup AnswerPlaces
  BY <1>3 DEF UserPlaces, PlaceOf
<1>4. CASE TakeLocation(u)
  <2>1. /\ AnswerPlaces' \subseteq AnswerPlaces
        /\ Taken(u).type = "FILELOCATION" => PlaceOf(Taken(u).floc) \in AnswerPlaces
    BY <1>4, TakeKnown DEF TakeLocation
  <2>2. \A v \in Users : userAt'[v] = "transfer" =>
                 \/ userAt[v] = "transfer" /\ userFloc'[v] = userFloc[v]
                 \/ PlaceOf(userFloc'[v]) \in AnswerPlaces
    BY <1>4, <2>1 DEF TakeLocation, Done, UserGoto
  <2> QED BY <1>2, <1>3, <2>1, <2>2
<1>5. CASE TakeCount(u) \/ TakeRecord(u)
  <2>1. AnswerPlaces' \subseteq AnswerPlaces
    BY <1>5, TakeKnown DEF TakeCount, TakeRecord
  <2>2. \A v \in Users : userAt'[v] = "transfer" =>
                 userAt[v] = "transfer" /\ userFloc'[v] = userFloc[v]
    BY <1>5 DEF TakeCount, TakeRecord, Listing, Done, UserGoto
  <2> QED BY <1>2, <1>3, <2>1, <2>2
<1>6. CASE Ask(u) \/ Transfer(u) \/ Command(u)
  <2>1. AnswerPlaces' = AnswerPlaces
    <3>1. Command(u) => UNCHANGED nsvars
      BY CommandFrame
    <3>2. UNCHANGED toClient
      BY <1>6, <3>1 DEF Ask, Transfer, nsvars
    <3> QED BY <3>2 DEF AnswerPlaces, AnswersTo
  <2>2. \A v \in Users : userAt'[v] = "transfer" =>
                 userAt[v] = "transfer" /\ userFloc'[v] = userFloc[v]
    <3>1. CASE Ask(u) \/ Transfer(u)
      BY <3>1 DEF Ask, Transfer, Done, UserGoto
    <3>2. CASE Command(u)
      <4>1. UNCHANGED userFloc /\ userAt' = [userAt EXCEPT ![u] = "ask"]
        BY <3>2, CommandFrame
      <4> QED BY <4>1
    <3> QED BY <1>6, <3>1, <3>2
  <2> QED BY <1>2, <1>3, <2>1, <2>2
<1> QED BY <1>4, <1>5, <1>6 DEF UserStep

\* An upload is of the id and to the server its user was told.
LEMMA UploadKnown ==
    ASSUME NEW u \in Users, Upload(u)
    PROVE  UploadPlaces' \subseteq UploadPlaces \cup UserPlaces
<1> DEFINE n == [at |-> userFloc[u].server, seg |-> Segment(u)]
<1>1. uploads' = uploads \cup {n}
  BY DEF Upload
<1>2. [fd |-> n.seg[2], server |-> n.at] = PlaceOf(userFloc[u])
  BY DEF Segment, PlaceOf
<1>3. PlaceOf(userFloc[u]) \in UserPlaces
  BY DEF Upload, Transfer, UserPlaces
<1> QED BY <1>1, <1>2, <1>3 DEF UploadPlaces

\* The places that stored data tells.
LEMMA DisksAre ==
    /\ \A p : p \in DiskPlaces <=>
           \E s \in Servers : \E seg \in disks[s] : p = [fd |-> seg[2], server |-> s]
    /\ \A p : p \in DiskPlaces' <=>
           \E s \in Servers : \E seg \in disks'[s] : p = [fd |-> seg[2], server |-> s]
<1>1. \A p : p \in DiskPlaces <=>
           \E s \in Servers : p \in {[fd |-> seg[2], server |-> s] : seg \in disks[s]}
  BY Zenon DEF DiskPlaces
<1>2. \A p : p \in DiskPlaces' <=>
           \E s \in Servers : p \in {[fd |-> seg[2], server |-> s] : seg \in disks'[s]}
  BY Zenon DEF DiskPlaces
<1> QED BY <1>1, <1>2

\* What is stored was sent there.
LEMMA StoreKnown ==
    ASSUME StoreInv, NEW x \in uploads, StoreSegment(x)
    PROVE  /\ UploadPlaces' \subseteq UploadPlaces
           /\ DiskPlaces' \subseteq DiskPlaces \cup UploadPlaces
           /\ DOMAIN disks' = Servers
<1>1. /\ uploads' \subseteq uploads
      /\ DOMAIN disks' = Servers
      /\ \A s \in Servers : disks'[s] \subseteq disks[s] \cup (IF s = x.at THEN {x.seg} ELSE {})
  BY DEF StoreSegment, StoreInv
<1>2. [fd |-> x.seg[2], server |-> x.at] \in UploadPlaces
  BY DEF UploadPlaces
<1>3. DiskPlaces' \subseteq DiskPlaces \cup UploadPlaces
  <2> SUFFICES ASSUME NEW s \in Servers, NEW seg \in disks'[s]
               PROVE  [fd |-> seg[2], server |-> s] \in DiskPlaces \cup UploadPlaces
    BY DisksAre
  <2>1. seg \in disks[s] \/ (s = x.at /\ seg = x.seg)
    BY <1>1
  <2> QED BY <1>2, <2>1, DisksAre
<1> QED BY <1>1, <1>3 DEF UploadPlaces

\* Every step keeps an id with one server.
LEMMA StoreInvNext ==
    MetaInvariant /\ PlaceInv /\ StoreInv /\ [StoreNext]_allVars => StoreInv'
<1> SUFFICES ASSUME MetaInvariant, PlaceInv, StoreInv, StoreNext \/ UNCHANGED allVars
             PROVE  StoreInv'
  OBVIOUS
<1>0. TypeInv /\ DOMAIN disks = Servers
  BY DEF MetaInvariant, StoreInv
<1>1. CASE \E c \in Conns : ThreadStep(c) /\ UNCHANGED <<uservars, storeVars>>
  BY <1>1, ThreadKnown
<1>2. ASSUME NEW u \in Users, UserStep(u) \/ Command(u), UNCHANGED disks,
             UploadPlaces' \subseteq UploadPlaces \cup UserPlaces
      PROVE  StoreInv'
  <2>1. DiskPlaces' = DiskPlaces
    BY <1>2 DEF DiskPlaces
  <2>2. /\ AnswerPlaces' \subseteq AnswerPlaces
        /\ UserPlaces' \subseteq UserPlaces \cup AnswerPlaces
        /\ UNCHANGED <<RecordedPlaces, ThreadPlaces, IdsGiven>>
    BY <1>0, <1>2, UserKnown
  <2>3. KnownPlaces' \subseteq KnownPlaces
    BY <1>2, <2>1, <2>2 DEF KnownPlaces
  <2> QED BY <1>0, <1>2, <2>2, <2>3, KnownFrame
<1>3. ASSUME UNCHANGED <<idmap, fileidcounter, files, nsAt, nsFloc, toClient, userAt, userFloc>>
      PROVE  UNCHANGED <<RecordedPlaces, ThreadPlaces, AnswerPlaces, UserPlaces, IdsGiven>>
  BY <1>3 DEF RecordedPlaces, ThreadPlaces, AnswerPlaces, AnswersTo, UserPlaces, IdsGiven,
              IdPending, Placed
<1>4. CASE \E x \in uploads : StoreSegment(x)
  <2>1. UNCHANGED <<RecordedPlaces, ThreadPlaces, AnswerPlaces, UserPlaces, IdsGiven>>
    BY <1>3, <1>4 DEF StoreSegment, vars, nsvars, uservars, tables, threads
  <2>2. KnownPlaces' \subseteq KnownPlaces /\ DOMAIN disks' = Servers
    BY <1>4, <2>1, StoreKnown DEF KnownPlaces
  <2> QED BY <2>1, <2>2, KnownFrame
<1>5. CASE /\ UNCHANGED <<idmap, fileidcounter, files, nsAt, nsFloc, toClient, userAt, userFloc>>
           /\ UNCHANGED <<uploads, disks>>
  <2>1. UNCHANGED <<RecordedPlaces, ThreadPlaces, AnswerPlaces, UserPlaces, IdsGiven>>
    BY <1>3, <1>5
  <2>2. KnownPlaces' \subseteq KnownPlaces
    BY <1>5, <2>1 DEF KnownPlaces, UploadPlaces, DiskPlaces
  <2> QED BY <1>0, <1>5, <2>1, <2>2, KnownFrame
<1>6. CASE \E s \in Servers : RegisterServer(s) /\ UNCHANGED <<uservars, storeVars>>
  BY <1>5, <1>6 DEF RegisterServer, threads, uservars, storeVars
<1>7. CASE UNCHANGED allVars
  BY <1>5, <1>7 DEF allVars, vars, nsvars, uservars, tables, threads, storeVars
<1>8. CASE \E u \in Users : StoreUserStep(u) \/ (Command(u) /\ UNCHANGED storeVars)
  <2>1. PICK u \in Users : StoreUserStep(u) \/ (Command(u) /\ UNCHANGED storeVars)
    BY <1>8
  <2>2. CASE Upload(u)
    BY <1>2, <2>2, UploadKnown DEF Upload, UserStep
  <2>3. CASE AskData(u) \/ FileMissing(u)
    BY <1>5, <2>3 DEF AskData, FileMissing, vars, nsvars, uservars, tables, threads
  <2>4. CASE (UserStep(u) \/ Command(u)) /\ UNCHANGED <<uploads, disks>>
    <3>1. UploadPlaces' = UploadPlaces
      BY <2>4 DEF UploadPlaces
    <3> QED BY <1>2, <2>4, <3>1
  <2> QED BY <2>1, <2>2, <2>3, <2>4 DEF StoreUserStep, SendData, UserStep, storeVars
<1> QED BY <1>1, <1>4, <1>6, <1>7, <1>8 DEF StoreNext, NsStep

\* An id stands for one data server for ever, with everybody who knows it: the
\* name server, its threads, answers on the way, users, and the data servers
\* by what was sent to them.
THEOREM IdsKeepTheirServer == StoreSpec => []StoreInv
<1>1. StoreInit => StoreInv
  <2> SUFFICES ASSUME StoreInit PROVE StoreInv
    OBVIOUS
  <2>1. RecordedPlaces = {} /\ ThreadPlaces = {}
    BY DEF StoreInit, Init, NsInit, RecordedPlaces, ThreadPlaces
  <2>2. AnswerPlaces = {}
    BY DEF StoreInit, Init, NsInit, AnswerPlaces, AnswersTo
  <2>3. UserPlaces = {} /\ UploadPlaces = {} /\ DiskPlaces = {}
    BY DEF StoreInit, Init, UserPlaces, UploadPlaces, DiskPlaces
  <2>4. KnownPlaces = {}
    BY <2>1, <2>2, <2>3 DEF KnownPlaces
  <2> QED BY <2>4 DEF StoreInv, StoreInit
<1>2. StoreSpec => [](MetaInvariant /\ PlaceInv)
  BY StoreImplementsUsers, MetaInvariantHolds, PlacesKnown, PTL
<1> QED BY <1>1, <1>2, StoreInvNext, PTL DEF StoreSpec

\* A read of a file never goes to another data server than the one that was
\* sent or has data under the name the reader asks for, whatever was deleted
\* and placed anew meanwhile.
THEOREM ReadersFindTheServer == StoreSpec => []ReadsWhereStored
<1>1. StoreInv => ReadsWhereStored
  <2> SUFFICES ASSUME StoreInv, NEW u \in Users, NEW s \in Servers,
                      userAt[u] = "transfer",
                      Segment(u) \in disks[s] \cup {x.seg : x \in {y \in uploads : y.at = s}}
               PROVE  s = userFloc[u].server
    BY DEF ReadsWhereStored
  <2> DEFINE p == PlaceOf(userFloc[u])
             q == [fd |-> Segment(u)[2], server |-> s]
  <2>1. p \in UserPlaces
    BY DEF UserPlaces
  <2>2. q \in DiskPlaces \cup UploadPlaces
    <3>1. CASE Segment(u) \in disks[s]
      BY <3>1 DEF DiskPlaces
    <3>2. CASE \E x \in uploads : x.at = s /\ x.seg = Segment(u)
      BY <3>2 DEF UploadPlaces
    <3> QED BY <3>1, <3>2
  <2>3. q.fd = p.fd
    BY DEF Segment, PlaceOf
  <2>4. p.server = q.server
    BY <2>1, <2>2, <2>3 DEF StoreInv, KnownPlaces
  <2> QED BY <2>4 DEF PlaceOf
<1> QED BY <1>1, IdsKeepTheirServer, PTL
===============================================================================
