----------------------------- MODULE MiniProofs -----------------------------
(***************************************************************************)
(* Proofs about miniDFS, for any data servers, clients and lengths: the    *)
(* data servers of the whole program form a ring, the name server gives    *)
(* the segments to them in turn, every segment ends up in three places,    *)
(* and a client reads back the file that it uploaded.                      *)
(***************************************************************************)
EXTENDS MiniInv, FiniteSetTheorems, SequenceTheorems, TLAPS

\* The ring of the program is the ring of the proofs.
Proven == INSTANCE RingProofs

\* When the clients run and when they wait before they read, the steps are these.
AnyNext == Next \/ PatientNext

\* The neighbours are changed by the steps of the ring only.
LEMMA RingOnly ==
    ASSUME [AnyNext]_vars
    PROVE  [Proven!SerialNext]_(Proven!vars)
  <1>1. CASE UNCHANGED ringVars
    BY <1>1 DEF ringVars, Proven!vars
  <1>2. CASE \E s \in Servers : RingStep(s)
    <2>1. PICK s \in Servers : RingStep(s)  BY <1>2
    <2>2. \/ Proven!Idle /\ Proven!Register(s)
          \/ Proven!DSRegister(s)
          \/ Proven!UpdateMyNeighbors(s)
      BY <2>1 DEF RingStep, Ring!Idle, Proven!Idle, Ring!Register, Proven!Register,
                  Ring!DSRegister, Proven!DSRegister, Ring!UpdateMyNeighbors, Proven!UpdateMyNeighbors,
                  Ring!PushBack, Proven!PushBack, Ring!Pushed, Proven!Pushed,
                  Ring!TellNew, Proven!TellNew, Ring!TellFront, Proven!TellFront,
                  Ring!TellFirst, Proven!TellFirst, Ring!ToFirst, Proven!ToFirst,
                  Ring!LastBut1, Proven!LastBut1, Ring!Updated, Proven!Updated,
                  Ring!Goto, Proven!Goto, Ring!Write, Proven!Write
    <2> QED  BY <2>2 DEF Proven!SerialNext
  <1>3. CASE \E c \in Clients : ClientStep(c)
    BY <1>1, <1>3 DEF ClientStep, LocateUpload, UploadSegment, StartRead, ReadSegment
  <1>4. CASE \E t \in tasks : TaskStep(t)
    BY <1>1, <1>4 DEF TaskStep, OpenSegment, WriteSegment, DeliverToNeighbor, Delivered,
                      StoreAgain, EndThread
  <1>5. CASE UNCHANGED vars
    BY <1>1, <1>5 DEF vars
  <1> QED
    BY <1>2, <1>3, <1>4, <1>5 DEF AnyNext, Next, PatientNext, PatientStep

\* Whatever the clients and the threads that store segments do, the neighbours
\* of data servers that register one at a time form a ring in the order of
\* registration once all messages of DSRegister have arrived.
THEOREM MiniRingCloses == (Spec => []RingClosed) /\ (PatientSpec => []RingClosed)
  <1>1. NoServer \notin Servers  BY DFSAssumption
  <1>2. Proven!SerialSpec => []Proven!RingClosed  BY <1>1, Proven!RingCloses
  <1>3. Init => Proven!Init  BY DEF Init, Ring!Init, Proven!Init
  <1>4. Proven!RingClosed => RingClosed
    BY DEF RingClosed, Ring!RingClosed, Proven!RingClosed, Ring!Settled, Proven!Settled,
           Ring!Idle, Proven!Idle
  <1>5. [Next]_vars => [Proven!SerialNext]_(Proven!vars)  BY RingOnly DEF AnyNext
  <1>6. [PatientNext]_vars => [Proven!SerialNext]_(Proven!vars)  BY RingOnly DEF AnyNext
  <1> QED  BY <1>2, <1>3, <1>4, <1>5, <1>6, PTL DEF Spec, PatientSpec, Proven!SerialSpec

\* Whatever the clients and the threads that store segments do, updateMyNeighbors
\* gives a data server other than the first a front neighbour once, and behind it
\* only the first server or the one registered after it: the neighbours to which
\* deliverToNeighbor passed copies stay its neighbours.
THEOREM MiniNeighboursStay == (Spec => NeighboursStay) /\ (PatientSpec => NeighboursStay)
  <1>1. NoServer \notin Servers  BY DFSAssumption
  <1>2. Proven!SerialSpec => Proven!NeighboursStay  BY <1>1, Proven!NeighboursStayPut
  <1>3. Init => Proven!Init  BY DEF Init, Ring!Init, Proven!Init
  <1>4. Proven!NeighboursStay => NeighboursStay
    BY DEF NeighboursStay, Ring!NeighboursStay, Proven!NeighboursStay, Ring!vars, Proven!vars
  <1>5. [Next]_vars => [Proven!SerialNext]_(Proven!vars)  BY RingOnly DEF AnyNext
  <1>6. [PatientNext]_vars => [Proven!SerialNext]_(Proven!vars)  BY RingOnly DEF AnyNext
  <1> QED  BY <1>2, <1>3, <1>4, <1>5, <1>6, PTL DEF Spec, PatientSpec, Proven!SerialSpec
-----------------------------------------------------------------------------
\* Round robin: counting on from a remainder.
LEMMA ModUnique ==
    ASSUME NEW n \in Nat \ {0}, NEW q \in Int, NEW r \in 0..(n - 1)
    PROVE  (n * q + r) % n = r
  BY Z3

\* A number is its quotient times the divisor, and its remainder.
LEMMA DivMod ==
    ASSUME NEW n \in Nat \ {0}, NEW c \in Nat
    PROVE  c = n * (c \div n) + (c % n) /\ c % n \in 0..(n - 1) /\ c \div n \in Int
  BY Z3

\* The remainder of the next number.
LEMMA ModNext ==
    ASSUME NEW n \in Nat \ {0}, NEW c \in Nat
    PROVE  ((c % n) + 1) % n = (c + 1) % n
  <1>1. PICK q \in Int, r \in 0..(n - 1) : c = n * q + r /\ r = c % n  BY DivMod
  <1>2. CASE r + 1 < n
    <2>1. r + 1 \in 0..(n - 1) /\ c + 1 = n * q + (r + 1) /\ r + 1 = n * 0 + (r + 1)
      BY <1>1, <1>2
    <2>2. (n * q + (r + 1)) % n = r + 1  BY <2>1, ModUnique
    <2>3. (n * 0 + (r + 1)) % n = r + 1  BY <2>1, ModUnique
    <2> QED  BY <1>1, <2>1, <2>2, <2>3
  <1>3. CASE r + 1 = n
    <2>1. 0 \in 0..(n - 1) /\ c + 1 = n * (q + 1) + 0 /\ r + 1 = n * 1 + 0 /\ q + 1 \in Int
      BY <1>1, <1>3
    <2>2. (n * (q + 1) + 0) % n = 0  BY <2>1, ModUnique
    <2>3. (n * 1 + 0) % n = 0  BY <2>1, ModUnique
    <2> QED  BY <1>1, <2>1, <2>2, <2>3
  <1> QED  BY <1>2, <1>3

\* Once a segment has a place the ring is complete, and the next place is as
\* many servers on as there are segments.
Done == \A s \in Servers : nsAt[s] = "done"
TurnInv ==
    /\ srvs \in Seq(Servers)
    /\ IsFiniteSet(DOMAIN files)
    /\ DOMAIN files # {} => Done /\ srvs # <<>>
    /\ srvs = <<>> => currentSvr = 0
    /\ srvs # <<>> => currentSvr = Cardinality(DOMAIN files) % Len(srvs)

\* The places are changed by FindSegment only, which keeps those it has and adds
\* one at most.
Placed == \A k \in DOMAIN files' :
             IF k \in DOMAIN files THEN files'[k] = files[k]
             ELSE files'[k] = srvs[(Cardinality(DOMAIN files) % Len(srvs)) + 1]

\* A lookup gives a new segment the server whose turn it is.
LEMMA FindKeeps ==
    ASSUME TurnInv, Done, UNCHANGED <<srvs, nsAt>>,
           NEW named, NEW file, NEW fd, NEW segno, FindSegment(named, file, fd, segno)
    PROVE  TurnInv' /\ Placed
  <1> DEFINE ids == IF named /\ file \notin DOMAIN idmap
                    THEN With(idmap, file, Cardinality(DOMAIN idmap)) ELSE idmap
             key == Key(IF named THEN ids[file] ELSE fd, segno)
  <1>1. /\ srvs # <<>> /\ srvs' = srvs /\ Done'
        /\ \/ key \in DOMAIN files /\ files' = files /\ currentSvr' = currentSvr
           \/ /\ key \notin DOMAIN files
              /\ files' = [k \in DOMAIN files \cup {key} |->
                             IF k = key THEN srvs[currentSvr + 1] ELSE files[k]]
              /\ currentSvr' = (currentSvr + 1) % Len(srvs)
    BY DEF FindSegment, NextServer, Done, With
  <1> HIDE DEF key, ids
  <1>2. CASE key \in DOMAIN files /\ files' = files /\ currentSvr' = currentSvr
    BY <1>1, <1>2 DEF TurnInv, Placed
  <1>3. CASE /\ key \notin DOMAIN files
             /\ files' = [k \in DOMAIN files \cup {key} |->
                            IF k = key THEN srvs[currentSvr + 1] ELSE files[k]]
             /\ currentSvr' = (currentSvr + 1) % Len(srvs)
    <2>1. /\ DOMAIN files' = DOMAIN files \cup {key}
          /\ \A k \in DOMAIN files : files'[k] = files[k]
          /\ files'[key] = srvs[currentSvr + 1]
      BY <1>3
    <2>2. /\ IsFiniteSet(DOMAIN files')
          /\ Cardinality(DOMAIN files') = Cardinality(DOMAIN files) + 1
          /\ Cardinality(DOMAIN files) \in Nat
      BY <1>3, <2>1, FS_AddElement, FS_CardinalityType DEF TurnInv
    <2>3. Len(srvs) \in Nat \ {0}  BY <1>1 DEF TurnInv
    <2>4. currentSvr = Cardinality(DOMAIN files) % Len(srvs)  BY <1>1 DEF TurnInv
    <2>5. currentSvr' = Cardinality(DOMAIN files') % Len(srvs)
      BY <1>3, <2>2, <2>3, <2>4, ModNext
    <2>6. TurnInv'  BY <1>1, <2>2, <2>5 DEF TurnInv
    <2>7. Placed  BY <2>1, <2>4 DEF Placed
    <2> QED  BY <2>6, <2>7
  <1> QED  BY <1>1, <1>2, <1>3

\* Every step keeps TurnInv, and places are given in turn.
LEMMA TurnKeeps ==
    ASSUME TurnInv, [AnyNext]_vars
    PROVE  TurnInv' /\ (UNCHANGED files \/ (Placed /\ UNCHANGED srvs))
  <1>1. CASE UNCHANGED <<srvs, nsAt, nsVars>>
    BY <1>1 DEF nsVars, TurnInv, Done
  <1>2. CASE \E s \in Servers : RingStep(s)
    <2>1. PICK s \in Servers : RingStep(s)  BY <1>2
    <2>2. files' = files /\ currentSvr' = currentSvr  BY <2>1 DEF RingStep, nsVars
    <2>3. CASE UNCHANGED <<srvs, nsAt>>
      BY <1>1, <2>2, <2>3 DEF TurnInv, Done
    <2>4. CASE srvs' = srvs /\ nsAt[s] # "done"
      <3>1. DOMAIN files = {}  BY <2>4 DEF TurnInv, Done
      <3> QED  BY <2>2, <2>4, <3>1 DEF TurnInv
    <2>5. CASE srvs' = Append(srvs, s) /\ nsAt[s] # "done"
      <3>1. DOMAIN files = {}  BY <2>5 DEF TurnInv, Done
      <3>2. Cardinality(DOMAIN files) = 0  BY <3>1, FS_EmptySet
      <3>3. Len(srvs) \in Nat /\ Len(srvs') = Len(srvs) + 1 /\ srvs' \in Seq(Servers) /\ srvs' # <<>>
        BY <2>5 DEF TurnInv
      <3>4. currentSvr = 0
        <4>1. CASE srvs = <<>>  BY <4>1 DEF TurnInv
        <4>2. CASE srvs # <<>>
          <5>1. Len(srvs) \in Nat \ {0}  BY <3>3, <4>2 DEF TurnInv
          <5>2. (Len(srvs) * 0 + 0) % Len(srvs) = 0  BY <5>1, ModUnique
          <5> QED  BY <3>2, <4>2, <5>1, <5>2 DEF TurnInv
        <4> QED  BY <4>1, <4>2
      <3>5. 0 % Len(srvs') = 0
        <4>1. (Len(srvs') * 0 + 0) % Len(srvs') = 0
          <5>1. Len(srvs') \in Nat \ {0}  BY <3>3
          <5>2. PICK n \in Nat \ {0} : n = Len(srvs')  BY <5>1
          <5>3. (n * 0 + 0) % n = 0  BY ModUnique
          <5> QED  BY <5>2, <5>3
        <4> QED  BY <3>3, <4>1
      <3> QED  BY <2>2, <3>1, <3>2, <3>3, <3>4, <3>5 DEF TurnInv
    <2> QED
      BY <2>1, <2>3, <2>4, <2>5
         DEF RingStep, Ring!Register, Ring!DSRegister, Ring!UpdateMyNeighbors, Ring!PushBack,
             Ring!Pushed, Ring!TellNew, Ring!TellFront, Ring!TellFirst
  <1>3. CASE \E c \in Clients : ClientStep(c)
    <2>1. PICK c \in Clients : ClientStep(c)  BY <1>3
    <2>2. Done /\ UNCHANGED <<srvs, nsAt>>
      BY <2>1 DEF ClientStep, RingReady, Done, ringVars, LocateUpload, UploadSegment, StartRead,
                  ReadSegment
    <2>3. \/ UNCHANGED nsVars
          \/ \E named, file, fd, segno : FindSegment(named, file, fd, segno)
      BY <2>1 DEF ClientStep, LocateUpload, UploadSegment, StartRead, ReadSegment
    <2> QED  BY <1>1, <2>2, <2>3, FindKeeps
  <1>4. CASE \E t \in tasks : TaskStep(t)
    BY <1>1, <1>4 DEF TaskStep, OpenSegment, WriteSegment, DeliverToNeighbor, Delivered,
                      StoreAgain, EndThread, ringVars
  <1>5. CASE UNCHANGED vars
    BY <1>1, <1>5 DEF vars, ringVars
  <1> QED
    BY <1>2, <1>3, <1>4, <1>5 DEF AnyNext, Next, PatientNext, PatientStep

\* A segment keeps the data server it got, and FindSegment gives the servers in
\* turn, whichever clients ask for which files, and also when they read segments
\* that nobody uploaded.
THEOREM MiniPlacedInTurn == (Spec => PlacedInTurn) /\ (PatientSpec => PlacedInTurn)
  <1> DEFINE InTurn == \A k \in DOMAIN files' :
                          IF k \in DOMAIN files THEN files'[k] = files[k]
                          ELSE files'[k] = srvs[(Cardinality(DOMAIN files) % Len(srvs)) + 1]
  <1>1. Init => TurnInv
    <2>1. ASSUME Init PROVE DOMAIN files = {} /\ srvs = <<>> /\ currentSvr = 0
      BY <2>1 DEF Init, Ring!Init
    <2> QED  BY <2>1, FS_EmptySet DEF TurnInv
  <1>2. TurnInv /\ [AnyNext]_vars => TurnInv' /\ [InTurn]_vars
    BY TurnKeeps DEF Placed
  <1>3. TurnInv /\ [Next]_vars => TurnInv' /\ [InTurn]_vars  BY <1>2 DEF AnyNext
  <1>4. TurnInv /\ [PatientNext]_vars => TurnInv' /\ [InTurn]_vars  BY <1>2 DEF AnyNext
  <1> QED  BY <1>1, <1>3, <1>4, PTL DEF Spec, PatientSpec, PlacedInTurn

-----------------------------------------------------------------------------
\* The copies of a segment and what is read back, with two data servers or more:
\* a single one has no neighbours.
TwoServers == \E s, t \in Servers : s # t

\* The ring is right, and so is the name server's turn.
Base == TurnInv /\ Ring!TypeOK /\ RingClosed /\ Known

\* The neighbours of a server in a ring of two or more are others.
LEMMA Neighbours ==
    ASSUME TwoServers, Base, RingReady, NEW i \in 1..Len(srvs)
    PROVE  /\ front[srvs[i]] \in Servers /\ front[srvs[i]] # srvs[i]
           /\ behind[srvs[i]] \in Servers /\ behind[srvs[i]] # srvs[i]
           /\ srvs[i] \in Servers
  <1>1. /\ srvs \in Seq(Servers)
        /\ \A j, k \in 1..Len(srvs) : srvs[j] = srvs[k] => j = k
    BY DEF Base, Ring!TypeOK
  <1>2. PICK n : n = Len(srvs)  OBVIOUS
  <1>3. n \in Nat  BY <1>1, <1>2
  <1>4. n >= 2
    <2>1. PICK s, t \in Servers : s # t  BY DEF TwoServers
    <2>2. \A r \in Servers : \E j \in 1..n : srvs[j] = r
      BY <1>2 DEF Base, Known, RingReady
    <2>3. PICK j \in 1..n, k \in 1..n : srvs[j] = s /\ srvs[k] = t  BY <2>2
    <2> QED  BY <1>3, <2>1, <2>3
  <1>5. \A j \in 1..n : LET next == (j % n) + 1 IN
            /\ behind[srvs[j]] = srvs[next]
            /\ front[srvs[next]] = srvs[j]
    BY <1>2, <1>4 DEF Base, RingClosed, Ring!RingClosed, RingReady
  <1>6. \A j \in 1..n : IF j < n THEN j % n = j ELSE j % n = 0
    <2> TAKE j \in 1..n
    <2>1. CASE j < n
      <3>1. j \in 0..(n - 1) /\ n * 0 + j = j /\ n \in Nat \ {0}  BY <1>3, <1>4, <2>1
      <3>2. (n * 0 + j) % n = j  BY <3>1, ModUnique
      <3> QED  BY <2>1, <3>1, <3>2
    <2>2. CASE j = n
      <3>1. 0 \in 0..(n - 1) /\ n * 1 + 0 = j /\ n \in Nat \ {0}  BY <1>3, <1>4, <2>2
      <3>2. (n * 1 + 0) % n = 0  BY <3>1, ModUnique
      <3> QED  BY <1>3, <2>2, <3>1, <3>2
    <2> QED  BY <1>3, <2>1, <2>2
  <1>7. i \in 1..n  BY <1>2
  <1>8. PICK next \in 1..n : next # i /\ behind[srvs[i]] = srvs[next]
    <2>1. (i % n) + 1 \in 1..n /\ (i % n) + 1 # i  BY <1>3, <1>4, <1>6, <1>7
    <2> QED  BY <1>5, <1>7, <2>1
  <1>9. PICK prev \in 1..n : prev # i /\ front[srvs[i]] = srvs[prev]
    <2>1. CASE i = 1
      <3>1. (n % n) + 1 = i /\ n \in 1..n /\ n # i  BY <1>3, <1>4, <1>6, <2>1
      <3> QED  BY <1>5, <3>1
    <2>2. CASE i # 1
      <3>1. ((i - 1) % n) + 1 = i /\ i - 1 \in 1..n /\ i - 1 # i  BY <1>3, <1>4, <1>6, <1>7, <2>2
      <3> QED  BY <1>5, <3>1
    <2> QED  BY <2>1, <2>2
  <1> QED  BY <1>1, <1>2, <1>7, <1>8, <1>9

\* The three places of a segment are servers, and the copies are not where its
\* server is.
LEMMA ThreePlaces ==
    ASSUME TwoServers, Base, PlacesInv, NEW k \in DOMAIN files
    PROVE  /\ files[k] \in Servers
           /\ front[files[k]] \in Servers /\ front[files[k]] # files[k]
           /\ behind[files[k]] \in Servers /\ behind[files[k]] # files[k]
  <1>1. PICK i \in 1..Len(srvs) : files[k] = srvs[i]  BY DEF PlacesInv
  <1>2. RingReady  BY DEF PlacesInv
  <1> QED  BY <1>1, <1>2, Neighbours

\* When the ring is ready nothing of it moves any more.
LEMMA RingRests ==
    ASSUME RingReady, NEW s \in Servers, RingStep(s)
    PROVE  FALSE
  BY DEF RingReady, Ring!Settled, RingStep, Ring!Register, Ring!DSRegister, Ring!UpdateMyNeighbors,
         Ring!PushBack, Ring!TellNew, Ring!TellFront, Ring!TellFirst

\* Segments of different clients, or different ones of a client, have different keys.
LEMMA KeysDiffer ==
    ASSUME IdsInv, NEW c \in Clients, NEW d \in Clients, NEW i, NEW j,
           cl[c].at = "send" \/ cl[c].seg > 0, cl[d].at = "send" \/ cl[d].seg > 0,
           KeyOf(c, i) = KeyOf(d, j)
    PROVE  c = d /\ i = j
  BY DEF IdsInv, IdsApart, KeyOf, Key

\* Two segments of clients have one key only if they are the same.
LEMMA SegmentKeys ==
    ASSUME ClientsInv, IdsInv, NEW c \in Clients, NEW d \in Clients,
           NEW i \in SegmentsOf(c), NEW j \in SegmentsOf(d), KeyOf(c, i) = KeyOf(d, j)
    PROVE  c = d /\ i = j
  <1>1. cl[c].seg \in Nat /\ cl[d].seg \in Nat  BY DEF ClientsInv
  <1>2. cl[c].seg > 0 /\ cl[d].seg > 0  BY <1>1 DEF SegmentsOf
  <1> QED  BY <1>2, KeysDiffer

\* What a thread stores is the segment its key stands for.
LEMMA MeantData ==
    ASSUME ClientsInv, IdsInv, NEW t, Meant(t), NEW c \in Clients, NEW i \in SegmentsOf(c),
           t.seg = KeyOf(c, i)
    PROVE  t.data = SegmentData(c, i)
  <1>1. PICK d \in Clients : \E j \in SegmentsOf(d) : t.seg = KeyOf(d, j) /\ t.data = SegmentData(d, j)
    BY DEF Meant
  <1>2. PICK j \in SegmentsOf(d) : t.seg = KeyOf(d, j) /\ t.data = SegmentData(d, j)  BY <1>1
  <1> QED  BY <1>2, SegmentKeys

\* What is written to one file of one data server changes no other.
Written(s, k, v) ==
    /\ StoreInv'
    /\ Stored(s, k, v)'
    /\ \A r \in Servers : \A j, d : r # s \/ j # k => (Stored(r, j, d) => Stored(r, j, d)')

\* A file that is written holds what was written, and no other file changes.
LEMMA StorePut ==
    ASSUME StoreInv, NEW s \in Servers, NEW k, NEW v \in Seq(Byte),
           \/ store' = [store EXCEPT ![s] = With(@, k, v)]
           \/ k \in DOMAIN store[s] /\ store' = [store EXCEPT ![s][k] = v]
    PROVE  Written(s, k, v)
  <1>1. PICK f : f = store'[s]  OBVIOUS
  <1>2. /\ DOMAIN f = DOMAIN store[s] \cup {k}
        /\ f[k] = v
        /\ \A j \in DOMAIN store[s] : j # k => f[j] = store[s][j]
        /\ f = [j \in DOMAIN f |-> f[j]]
        /\ \A r \in Servers : r # s => store'[r] = store[r]
        /\ DOMAIN store' = Servers
    <2>1. CASE store' = [store EXCEPT ![s] = With(@, k, v)]
      <3>1. f = With(store[s], k, v)  BY <1>1, <2>1 DEF StoreInv
      <3> QED  BY <2>1, <3>1 DEF StoreInv, With
    <2>2. CASE k \in DOMAIN store[s] /\ store' = [store EXCEPT ![s][k] = v]
      <3>1. f = [store[s] EXCEPT ![k] = v]  BY <1>1, <2>2 DEF StoreInv
      <3> QED  BY <2>2, <3>1 DEF StoreInv
    <2> QED  BY <2>1, <2>2
  <1>3. \A j \in DOMAIN store[s] : store[s][j] \in Seq(Byte)  BY DEF StoreInv
  <1>4. \A j \in DOMAIN f : f[j] \in Seq(Byte)  BY <1>2, <1>3
  <1>5. f \in [DOMAIN f -> Seq(Byte)]  BY <1>2, <1>4
  <1>6. StoreInv'  BY <1>1, <1>2, <1>5 DEF StoreInv
  <1>7. Stored(s, k, v)'  BY <1>1, <1>2 DEF Stored
  <1>8. ASSUME NEW r \in Servers, NEW j, NEW d, r # s \/ j # k, Stored(r, j, d)
        PROVE  Stored(r, j, d)'
    BY <1>1, <1>2, <1>8 DEF Stored
  <1> QED  BY <1>6, <1>7, <1>8 DEF Written

\* The segment of a thread is one that a client has sent.
LEMMA OfClient ==
    ASSUME PlacesInv, TasksInv, NEW t \in tasks
    PROVE  /\ t \in Threads /\ Meant(t)
           /\ t.seg \in DOMAIN files /\ RingReady
           /\ \E c \in Clients : \E i \in SegmentsOf(c) :
                 t.seg = KeyOf(c, i) /\ t.data = SegmentData(c, i)
  BY DEF PlacesInv, TasksInv, Meant

\* p has sent its segment to the neighbour where t stores it.
Waiter(p, t) ==
    /\ p.role = "primary" /\ p.seg = t.seg
    /\ p.at = IF t.role = "front" THEN "waitFront" ELSE "waitBehind"
    /\ \A u \in tasks : u.seg = t.seg => u \in {p, t} \/ u.at = "again"

\* The thread of the segment's server is alone until it waits for a neighbour,
\* and a neighbour's thread that is not done has it waiting, and nobody else but
\* those that store no bytes.
LEMMA Roles ==
    ASSUME ClientsInv, IdsInv, PlacesInv, TasksInv, CopiesInv, NEW t \in tasks
    PROVE  /\ t.role = "primary" => Passing(t, t.seg, t.data)
           /\ t.role # "primary" /\ t.at # "again" =>
                 \E p \in tasks : Waiter(p, t)
  <1>1. PICK c \in Clients : \E i \in SegmentsOf(c) :
                 t.seg = KeyOf(c, i) /\ t.data = SegmentData(c, i)
    BY OfClient
  <1>2. PICK i \in SegmentsOf(c) : t.seg = KeyOf(c, i) /\ t.data = SegmentData(c, i)
    BY <1>1
  <1>3. Copying(t.seg, t.data)  BY <1>2 DEF CopiesInv
  <1>4. ASSUME t.role # "primary", t.at # "again"
        PROVE  \E p \in tasks : Waiter(p, t)
    <2>1. ~ Copied(t.seg, t.data)  BY <1>4 DEF Copied
    <2>2. PICK p \in tasks : p.seg = t.seg /\ p.role = "primary"  BY <1>3, <2>1 DEF Copying
    <2>3. Passing(p, t.seg, t.data)  BY <1>3, <2>2 DEF Copying
    <2>4. p.at \in {"open", "write", "front", "waitFront", "behind", "waitBehind", "end"}
      BY <2>2 DEF TasksInv, Meant
    <2>5. t.role \in {"front", "behind"} /\ p # t  BY <1>4, <2>2 DEF TasksInv, Threads
    <2>6. p.at = IF t.role = "front" THEN "waitFront" ELSE "waitBehind"
      BY <1>4, <2>3, <2>4, <2>5 DEF Passing
    <2>7. ASSUME NEW u \in tasks, u.seg = t.seg, u # p, u # t
          PROVE  u.at = "again"
      <3>1. u.role \in {"primary", "front", "behind"} /\ u.role # "primary" /\ u.role # t.role
        BY <2>2, <2>7 DEF TasksInv, Threads
      <3> QED  BY <2>3, <2>5, <2>6, <2>7, <3>1 DEF Passing
    <2> QED  BY <2>2, <2>6, <2>7 DEF Waiter
  <1>5. t.role = "primary" => Passing(t, t.seg, t.data)  BY <1>3 DEF Copying
  <1> QED  BY <1>4, <1>5

\* A segment no thread of which moves, and whose copies are not written to, is
\* as far as it was.
LEMMA OtherSegment ==
    ASSUME NEW k, NEW d, Copying(k, d), UNCHANGED <<files, front, behind>>,
           k \in DOMAIN files, TwoServers, Base, PlacesInv,
           \A u : u.seg = k => (u \in tasks <=> u \in tasks'),
           \A s \in Servers : Stored(s, k, d) => Stored(s, k, d)'
    PROVE  Copying(k, d)'
  <1>1. files'[k] = files[k] /\ front'[files'[k]] = front[files[k]] /\ behind'[files'[k]] = behind[files[k]]
    OBVIOUS
  <1>2. files[k] \in Servers /\ front[files[k]] \in Servers /\ behind[files[k]] \in Servers
    BY ThreePlaces
  <1>3. \A s \in {files[k], front[files[k]], behind[files[k]]} : Stored(s, k, d) => Stored(s, k, d)'
    BY <1>2
  <1>4. Copied(k, d) => Copied(k, d)'  BY <1>1, <1>3 DEF Copied
  <1>5. ASSUME NEW t \in tasks, t.seg = k, Passing(t, k, d) PROVE Passing(t, k, d)'
    BY <1>1, <1>3, <1>5 DEF Passing
  <1> QED  BY <1>4, <1>5 DEF Copying

CopyBase == TwoServers /\ Base /\ CopyInv

\* What a step of a thread of the segment k leaves alone.
Apart(k) ==
    /\ UNCHANGED <<ringVars, nsVars, cl, down>>
    /\ \A u : u.seg # k => (u \in tasks <=> u \in tasks')
    /\ \A r \in Servers : \A j, d : j # k => (Stored(r, j, d) => Stored(r, j, d)')
    /\ StoreInv'

\* A thread that is where its role may be is meant for what it stores.
Fits(u) ==
    /\ u \in Threads
    /\ u.role = "primary" => u.ds = files[u.seg]
    /\ u.role = "front" => u.ds = front[files[u.seg]]
    /\ u.role = "behind" => u.ds = behind[files[u.seg]]
    /\ u.role = "primary" =>
          u.at \in {"open", "write", "front", "waitFront", "behind", "waitBehind", "end"}
    /\ u.role # "primary" => u.at \in {"open", "write", "answer", "again"}

\* What is on the disk of a thread's server.
OnDisk(u) ==
    /\ u.at = "write" => Stored(u.ds, u.seg, <<>>)
    /\ u.at = "answer" => Stored(u.ds, u.seg, u.data)
    /\ u.at = "again" => u.data = <<>>

\* To keep the invariants a step of a thread has to keep them for its segment.
LEMMA OneSegment ==
    ASSUME CopyBase, NEW t \in tasks, Apart(t.seg),
           \A u \in tasks' : u.seg = t.seg => Fits(u) /\ u.data = t.data /\ OnDisk(u)',
           \A u, w \in tasks' : u.seg = t.seg /\ w.seg = t.seg /\ u.role = w.role => u = w,
           Copying(t.seg, t.data)'
    PROVE  CopyInv'
  <1>1. /\ ClientsInv /\ IdsInv /\ PlacesInv /\ StoreInv /\ TasksInv /\ CopiesInv
        /\ TwoServers /\ Base
    BY DEF CopyBase, CopyInv
  <1>2. /\ cl' = cl /\ files' = files /\ front' = front /\ behind' = behind /\ idmap' = idmap
        /\ srvs' = srvs /\ nsAt' = nsAt /\ toDs' = toDs
    BY DEF Apart, ringVars, nsVars
  <1>3. ClientsInv'  BY <1>1, <1>2 DEF ClientsInv
  <1>4. IdsInv'  BY <1>1, <1>2 DEF IdsInv, IdsApart
  <1>5. RingReady'  BY <1>1, <1>2, OfClient DEF RingReady, Ring!Settled, Ring!Idle
  <1>6. PlacesInv'  BY <1>1, <1>2, <1>5 DEF PlacesInv, KeyOf, SegmentsOf
  <1>7. StoreInv'  BY DEF Apart
  <1>8. /\ t \in Threads
        /\ \E c \in Clients : \E i \in SegmentsOf(c) :
                 t.seg = KeyOf(c, i) /\ t.data = SegmentData(c, i)
    BY <1>1, OfClient
  <1>9. TasksInv'
    <2>1. ASSUME NEW u \in tasks' PROVE u \in Threads /\ Meant(u)' /\ OnDisk(u)'
      <3>1. CASE u.seg = t.seg
        BY <1>2, <1>8, <3>1 DEF Fits, Meant, SegmentsOf, KeyOf
      <3>2. CASE u.seg # t.seg
        <4>1. u \in tasks  BY <3>2 DEF Apart
        <4>2. u \in Threads /\ Meant(u) /\ OnDisk(u)  BY <1>1, <4>1 DEF TasksInv, OnDisk
        <4>3. u.ds \in Servers  BY <4>2 DEF Threads
        <4>4. OnDisk(u)'  BY <3>2, <4>2, <4>3 DEF Apart, OnDisk
        <4>5. Meant(u)'  BY <1>2, <4>2 DEF Meant, SegmentsOf, KeyOf
        <4> QED  BY <4>2, <4>4, <4>5
      <3> QED  BY <3>1, <3>2
    <2>2. ASSUME NEW u \in tasks', NEW w \in tasks', u.seg = w.seg, u.role = w.role
          PROVE  u = w
      <3>1. u.seg # t.seg => u \in tasks /\ w \in tasks  BY <2>2 DEF Apart
      <3> QED  BY <1>1, <2>2, <3>1 DEF TasksInv
    <2> QED  BY <2>1, <2>2 DEF TasksInv, OnDisk
  <1>10. CopiesInv'
    <2> SUFFICES ASSUME NEW c \in Clients, NEW i \in SegmentsOf(c)
                 PROVE  Copying(KeyOf(c, i), SegmentData(c, i))'
      BY <1>2 DEF CopiesInv, SegmentsOf, KeyOf
    <2>1. PICK k : k = KeyOf(c, i)  OBVIOUS
    <2>2. KeyOf(c, i)' = k  BY <1>2, <2>1 DEF KeyOf
    <2>3. PICK d : d = SegmentData(c, i)  OBVIOUS
    <2>4. SegmentData(c, i)' = d  BY <2>3 DEF SegmentData
    <2>5. CASE k = t.seg
      <3>1. t.data = d  BY <1>1, <2>1, <2>3, <2>5, MeantData DEF TasksInv
      <3> QED  BY <2>2, <2>4, <2>5, <3>1
    <2>6. CASE k # t.seg
      <3>1. Copying(k, d)  BY <1>1, <2>1, <2>3 DEF CopiesInv
      <3>2. k \in DOMAIN files  BY <1>1, <2>1 DEF PlacesInv
      <3>3. \A u : u.seg = k => (u \in tasks <=> u \in tasks')  BY <2>6 DEF Apart
      <3>4. \A s \in Servers : Stored(s, k, d) => Stored(s, k, d)'  BY <2>6 DEF Apart
      <3>5. Copying(k, d)'  BY <1>1, <1>2, <3>1, <3>2, <3>3, <3>4, OtherSegment
      <3> QED  BY <2>2, <2>4, <3>5
    <2> QED  BY <2>5, <2>6
  <1> QED  BY <1>3, <1>4, <1>6, <1>7, <1>9, <1>10 DEF CopyInv

\* What holds of a thread and of those that store the same segment.
LEMMA ThreadFacts ==
    ASSUME CopyBase, NEW t \in tasks
    PROVE  /\ t \in Threads /\ Fits(t) /\ OnDisk(t)
           /\ t.seg \in DOMAIN files /\ RingReady
           /\ files[t.seg] \in Servers
           /\ front[files[t.seg]] \in Servers /\ front[files[t.seg]] # files[t.seg]
           /\ behind[files[t.seg]] \in Servers /\ behind[files[t.seg]] # files[t.seg]
           /\ \A u \in tasks : u.seg = t.seg => u \in Threads /\ Fits(u) /\ OnDisk(u) /\ u.data = t.data
           /\ \A u, w \in tasks : u.seg = t.seg /\ w.seg = t.seg /\ u.role = w.role => u = w
  <1>1. /\ ClientsInv /\ IdsInv /\ PlacesInv /\ StoreInv /\ TasksInv /\ CopiesInv
        /\ TwoServers /\ Base
    BY DEF CopyBase, CopyInv
  <1>2. t.seg \in DOMAIN files /\ RingReady  BY <1>1, OfClient
  <1>3. PICK c \in Clients : \E i \in SegmentsOf(c) :
                 t.seg = KeyOf(c, i) /\ t.data = SegmentData(c, i)
    BY <1>1, OfClient
  <1>4. PICK i \in SegmentsOf(c) : t.seg = KeyOf(c, i) /\ t.data = SegmentData(c, i)
    BY <1>3
  <1>5. ASSUME NEW u \in tasks, u.seg = t.seg PROVE u.data = t.data
    BY <1>1, <1>4, <1>5, MeantData DEF TasksInv
  <1>6. \A u \in tasks : u \in Threads /\ Fits(u) /\ OnDisk(u)
    BY <1>1 DEF TasksInv, Meant, Fits, OnDisk
  <1>7. \A u, w \in tasks : u.seg = w.seg /\ u.role = w.role => u = w
    BY <1>1 DEF TasksInv
  <1> QED  BY <1>1, <1>2, <1>5, <1>6, <1>7, ThreePlaces

\* While a copy is stored at a neighbour the thread that sent it waits; writing
\* that neighbour's file does not disturb what the other servers have.
LEMMA WaiterKeeps ==
    ASSUME CopyBase, NEW t \in tasks, t.role # "primary", t.at # "again",
           NEW w, w.seg = t.seg, w.role = t.role,
           tasks' = (tasks \ {t}) \cup {w},
           UNCHANGED <<files, front, behind>>,
           \A r \in Servers : \A j, d : r # t.ds => (Stored(r, j, d) => Stored(r, j, d)')
    PROVE  Copying(t.seg, t.data)'
  <1> DEFINE k == t.seg  d == t.data
  <1>1. /\ ClientsInv /\ IdsInv /\ PlacesInv /\ StoreInv /\ TasksInv /\ CopiesInv
    BY DEF CopyBase, CopyInv
  <1>2. PICK p \in tasks : Waiter(p, t)
    BY <1>1, Roles
  <1>21. p.role = "primary" /\ p.seg = k /\ p.at = IF t.role = "front" THEN "waitFront" ELSE "waitBehind"
    BY <1>2 DEF Waiter
  <1>3. Passing(p, p.seg, p.data)  BY <1>1, <1>21, Roles
  <1>22. p.data = d  BY <1>21, ThreadFacts
  <1>4. Passing(p, k, d)  BY <1>21, <1>22, <1>3
  <1>5. p \in tasks' /\ p # t  BY <1>21
  <1>6. \A u \in tasks' : u.seg = k /\ u.role = "primary" => u = p
    BY <1>21, ThreadFacts
  <1>7. /\ t.ds # files[k]
        /\ t.ds = IF t.role = "front" THEN front[files[k]] ELSE behind[files[k]]
        /\ files[k] \in Servers /\ front[files[k]] \in Servers /\ behind[files[k]] \in Servers
        /\ t.role \in {"front", "behind"}
    BY ThreadFacts DEF Fits, Threads
  <1>8. Stored(files[k], k, d)'  BY <1>21, <1>4, <1>7 DEF Passing
  <1>9. Passing(p, k, d)'
    <2>1. CASE t.role = "front"
      <3>1. p.at = "waitFront" /\ \A u \in tasks : u.seg = k => u.role # "behind"
        BY <1>21, <1>4, <2>1 DEF Passing
      <3>2. \A u \in tasks' : u.seg = k => u.role # "behind"  BY <2>1, <3>1
      <3> QED  BY <1>8, <3>1, <3>2 DEF Passing
    <2>2. CASE t.role = "behind"
      <3>0. p.at = "waitBehind"  BY <1>21, <2>2
      <3>1. /\ \A u \in tasks : u.seg = k /\ u.role = "front" => u.at = "again"
            /\ Stored(front[files[k]], k, d) \/ front[files[k]] = behind[files[k]]
        BY <1>4, <3>0 DEF Passing
      <3>2. \A u \in tasks' : u.seg = k /\ u.role = "front" => u.at = "again"  BY <2>2, <3>1
      <3>3. Stored(front[files[k]], k, d)' \/ front[files[k]] = behind[files[k]]
        BY <1>7, <2>2, <3>1
      <3> QED  BY <1>8, <3>0, <3>1, <3>2, <3>3 DEF Passing
    <2> QED  BY <1>7, <2>1, <2>2
  <1> QED  BY <1>21, <1>5, <1>6, <1>9 DEF Copying

\* saveToLocalFile opens the file, and writes to it: only this thread's copy is
\* changed, and no other thread relies on it.
LEMMA StoringKeeps ==
    ASSUME CopyBase, NEW t \in tasks, NEW v, NEW w \in Threads,
           t.at \in {"open", "write"},
           w.seg = t.seg, w.role = t.role, w.ds = t.ds, w.data = t.data,
           tasks' = (tasks \ {t}) \cup {w},
           UNCHANGED <<ringVars, nsVars, cl, down>>,
           Written(t.ds, t.seg, v),
           \/ w.at = "write" /\ v = <<>>
           \/ w.at = (IF t.role = "primary" THEN "front" ELSE "answer") /\ v = t.data
    PROVE  CopyInv'
  <1> DEFINE k == t.seg  d == t.data
  <1>1. /\ ClientsInv /\ IdsInv /\ PlacesInv /\ StoreInv /\ TasksInv /\ CopiesInv
    BY DEF CopyBase, CopyInv
  <1>2. t.ds \in Servers  BY ThreadFacts DEF Threads
  <1>3. /\ StoreInv' /\ Stored(t.ds, k, v)'
        /\ \A r \in Servers : \A j, e : r # t.ds \/ j # k => (Stored(r, j, e) => Stored(r, j, e)')
    BY DEF Written
  <1>4. Apart(k)  BY <1>3 DEF Apart
  <1>5. Fits(w)  BY ThreadFacts DEF Fits
  <1>6. OnDisk(w)'  BY <1>3 DEF OnDisk
  <1>7. UNCHANGED <<files, front, behind>>  BY DEF ringVars, nsVars
  <1>8. CASE t.role = "primary"
    <2>1. Passing(t, k, d)  BY <1>1, <1>8, Roles
    <2>2. \A u \in tasks : u.seg = k => u = t  BY <2>1 DEF Passing
    <2>3. \A u \in tasks' : u.seg = k => u = w  BY <2>2
    <2>4. files[k] = t.ds  BY <1>8, ThreadFacts DEF Fits
    <2>5. Passing(w, k, d)'  BY <1>3, <1>7, <1>8, <2>3, <2>4 DEF Passing
    <2>6. w \in tasks' /\ w.role = "primary"  BY <1>8
    <2>7. Copying(k, d)'  BY <2>3, <2>5, <2>6 DEF Copying
    <2> QED  BY <1>4, <1>5, <1>6, <2>3, <2>7, OneSegment
  <1>9. CASE t.role # "primary"
    <2>1. PICK p \in tasks : Waiter(p, t)
      BY <1>1, <1>9, Roles
    <2>2. Copying(k, d)'
      <3>1. \A r \in Servers : \A j, e : r # t.ds => (Stored(r, j, e) => Stored(r, j, e)')  BY <1>3
      <3> QED  BY <1>7, <1>9, <3>1, WaiterKeeps
    <2>3. \A u \in tasks' : u.seg = k => Fits(u) /\ u.data = d /\ OnDisk(u)'
      <3>1. ASSUME NEW u \in tasks, u # t, u.seg = k PROVE Fits(u) /\ u.data = d /\ OnDisk(u)'
        <4>1. Fits(u) /\ u.data = d /\ OnDisk(u)  BY <3>1, ThreadFacts
        <4>2. u.at \in {"waitFront", "waitBehind", "again"}  BY <2>1, <3>1 DEF Waiter
        <4> QED  BY <4>1, <4>2 DEF OnDisk
      <3> QED  BY <1>5, <1>6, <3>1
    <2>4. \A u, x \in tasks' : u.seg = k /\ x.seg = k /\ u.role = x.role => u = x
      BY ThreadFacts
    <2> QED  BY <1>4, <2>2, <2>3, <2>4, OneSegment
  <1> QED  BY <1>8, <1>9

\* A thread that truncates its file keeps CopyInv: that copy did not count, or is empty.
LEMMA OpenKeeps ==
    ASSUME CopyBase, NEW t \in tasks, OpenSegment(t)
    PROVE  CopyInv'
  <1>1. t \in Threads /\ t.ds \in Servers  BY ThreadFacts DEF Threads
  <1>2. PICK w : w = [t EXCEPT !.at = "write"]  OBVIOUS
  <1>3. w \in Threads /\ w.seg = t.seg /\ w.role = t.role /\ w.ds = t.ds /\ w.data = t.data /\ w.at = "write"
    BY <1>1, <1>2 DEF Threads
  <1>4. tasks' = (tasks \ {t}) \cup {w}  BY <1>2 DEF OpenSegment, Becomes
  <1>5. Written(t.ds, t.seg, <<>>)
    <2>1. StoreInv  BY DEF CopyBase, CopyInv
    <2>2. <<>> \in Seq(Byte)  OBVIOUS
    <2>3. store' = [store EXCEPT ![t.ds] = With(@, t.seg, <<>>)]  BY DEF OpenSegment
    <2> QED  BY <1>1, <2>1, <2>2, <2>3, StorePut
  <1>6. t.at = "open" /\ UNCHANGED <<ringVars, nsVars, cl, down>>  BY DEF OpenSegment
  <1> QED  BY <1>3, <1>4, <1>5, <1>6, StoringKeeps

\* What is written over an empty file is the file.
LEMMA OverEmpty ==
    ASSUME NEW S, NEW d \in Seq(S)
    PROVE  Overlaid(<<>>, d) = d
  <1>1. Len(d) \in Nat  OBVIOUS
  <1>2. SubSeq(<<>>, Len(d) + 1, Len(<<>>)) = <<>>  BY <1>1
  <1> QED  BY <1>2 DEF Overlaid

\* A thread that writes its file keeps CopyInv: the copy it was to write stands.
LEMMA WriteKeeps ==
    ASSUME CopyBase, NEW t \in tasks, WriteSegment(t)
    PROVE  CopyInv'
  <1> DEFINE place == IF t.role = "primary" THEN "front" ELSE "answer"
  <1>1. t \in Threads /\ t.ds \in Servers /\ t.data \in Seq(Byte)  BY ThreadFacts DEF Threads
  <1>2. PICK w : w = [t EXCEPT !.at = place]  OBVIOUS
  <1>3. w \in Threads /\ w.seg = t.seg /\ w.role = t.role /\ w.ds = t.ds /\ w.data = t.data /\ w.at = place
    BY <1>1, <1>2 DEF Threads
  <1>4. tasks' = (tasks \ {t}) \cup {w}  BY <1>2 DEF WriteSegment, Becomes
  <1>5. t.at = "write" /\ UNCHANGED <<ringVars, nsVars, cl, down>>  BY DEF WriteSegment
  <1>6. Written(t.ds, t.seg, t.data)
    <2>1. StoreInv  BY DEF CopyBase, CopyInv
    <2>2. Stored(t.ds, t.seg, <<>>)  BY <1>5, ThreadFacts DEF OnDisk
    <2>3. Overlaid(store[t.ds][t.seg], t.data) = t.data  BY <1>1, <2>2, OverEmpty DEF Stored
    <2>4. store' = [store EXCEPT ![t.ds][t.seg] = Overlaid(@, t.data)]  BY DEF WriteSegment
    <2>5. store' = [store EXCEPT ![t.ds][t.seg] = t.data]  BY <2>3, <2>4
    <2>6. t.seg \in DOMAIN store[t.ds]  BY <2>2 DEF Stored
    <2> QED  BY <1>1, <2>1, <2>5, <2>6, StorePut
  <1> QED  BY <1>3, <1>4, <1>5, <1>6, StoringKeeps

\* The disks are not written to.
LEMMA SameDisks ==
    ASSUME UNCHANGED store
    PROVE  /\ StoreInv => StoreInv'
           /\ \A r, j, e : Stored(r, j, e) <=> Stored(r, j, e)'
           /\ \A u : OnDisk(u) => OnDisk(u)'
  <1>1. \A r, j, e : Stored(r, j, e) <=> Stored(r, j, e)'  BY DEF Stored
  <1> QED  BY <1>1 DEF StoreInv, OnDisk

\* deliverToNeighbor: there is a neighbour, and no copy is on its way to it.
LEMMA DeliverKeeps ==
    ASSUME CopyBase, NEW t \in tasks, DeliverToNeighbor(t)
    PROVE  CopyInv'
  <1> DEFINE k == t.seg  d == t.data
  <1>1. /\ ClientsInv /\ IdsInv /\ PlacesInv /\ StoreInv /\ TasksInv /\ CopiesInv
        /\ NoServer \notin Servers
    BY DFSAssumption DEF CopyBase, CopyInv
  <1>2. /\ t.role = "primary" /\ t.at \in {"front", "behind"}
        /\ UNCHANGED <<ringVars, nsVars, store, cl, down>>
    BY DEF DeliverToNeighbor
  <1>3. PICK n : n = NeighbourFor(t)  OBVIOUS
  <1>4. n \in Servers /\ n = IF t.at = "front" THEN front[files[k]] ELSE behind[files[k]]
    BY <1>2, <1>3, ThreadFacts DEF NeighbourFor, Fits
  <1>5. PICK w, r : /\ w = [t EXCEPT !.at = IF @ = "front" THEN "waitFront" ELSE "waitBehind"]
                    /\ r = [t EXCEPT !.ds = n, !.role = t.at, !.at = "open"]
    OBVIOUS
  <1>6. tasks' = (tasks \ {t}) \cup {w, r}
    BY <1>1, <1>3, <1>4, <1>5 DEF DeliverToNeighbor
  <1>7. t \in Threads  BY ThreadFacts
  <1>8. /\ w \in Threads /\ w.seg = k /\ w.data = d /\ w.role = "primary" /\ w.ds = t.ds
        /\ w.at = IF t.at = "front" THEN "waitFront" ELSE "waitBehind"
        /\ r \in Threads /\ r.seg = k /\ r.data = d /\ r.role = t.at /\ r.ds = n /\ r.at = "open"
    BY <1>2, <1>4, <1>5, <1>7 DEF Threads
  <1>9. Passing(t, k, d)  BY <1>1, <1>2, Roles
  <1>10. Apart(k)  BY <1>1, <1>2, <1>6, <1>8, SameDisks DEF Apart
  <1>11. UNCHANGED <<files, front, behind>>  BY <1>2 DEF ringVars, nsVars
  <1>12. Fits(w) /\ Fits(r) /\ OnDisk(w)' /\ OnDisk(r)'
    BY <1>2, <1>4, <1>8, ThreadFacts DEF Fits, OnDisk
  <1>13. \A u \in tasks : u.seg = k /\ u # t => t.at = "behind" /\ u.role = "front" /\ u.at = "again"
    <2> TAKE u \in tasks
    <2> HAVE u.seg = k /\ u # t
    <2>1. t.at = "behind"  BY <1>2, <1>9 DEF Passing
    <2>2. u.role # "behind"  BY <1>9, <2>1 DEF Passing
    <2>3. u.role \in {"primary", "front", "behind"} /\ u.role # "primary"
      BY <1>2, ThreadFacts DEF Threads
    <2> QED  BY <1>9, <2>1, <2>2, <2>3 DEF Passing
  <1>14. \A u \in tasks' : u.seg = k => Fits(u) /\ u.data = d /\ OnDisk(u)'
    BY <1>2, <1>6, <1>8, <1>12, ThreadFacts, SameDisks
  <1>15. \A u, x \in tasks' : u.seg = k /\ x.seg = k /\ u.role = x.role => u = x
    BY <1>2, <1>6, <1>8, <1>13, ThreadFacts
  <1>16. Passing(w, k, d)'
    <2>0. Stored(files[k], k, d)  BY <1>2, <1>9 DEF Passing
    <2>1. Stored(files[k], k, d)'  BY <1>2, <1>11, <2>0 DEF Stored
    <2>2. CASE t.at = "front"
      <3>1. \A u \in tasks' : u.seg = k => u.role # "behind"  BY <1>6, <1>8, <1>13, <2>2
      <3> QED  BY <1>8, <1>11, <2>1, <2>2, <3>1 DEF Passing
    <2>3. CASE t.at = "behind"
      <3>1. \A u \in tasks' : u.seg = k /\ u.role = "front" => u.at = "again"
        BY <1>6, <1>8, <1>13, <2>3
      <3>0. Stored(front[files[k]], k, d)  BY <1>9, <2>3 DEF Passing
      <3>2. Stored(front[files[k]], k, d)'  BY <1>2, <1>11, <3>0 DEF Stored
      <3> QED  BY <1>8, <1>11, <2>1, <2>3, <3>1, <3>2 DEF Passing
    <2> QED  BY <1>2, <2>2, <2>3
  <1>17. Copying(k, d)'
    <2>1. \A u \in tasks' : u.seg = k /\ u.role = "primary" => u = w  BY <1>8, <1>6, <1>15
    <2> QED  BY <1>6, <1>8, <1>16, <2>1 DEF Copying
  <1> QED  BY <1>10, <1>14, <1>15, <1>17, OneSegment

\* The neighbour has answered: its copy stands, and the next neighbour's turn
\* comes, or the thread is at its end.
LEMMA DeliveredKeeps ==
    ASSUME CopyBase, NEW t \in tasks, Delivered(t)
    PROVE  CopyInv'
  <1> DEFINE k == t.seg  d == t.data
  <1>1. /\ ClientsInv /\ IdsInv /\ PlacesInv /\ StoreInv /\ TasksInv /\ CopiesInv
    BY DEF CopyBase, CopyInv
  <1>2. PICK r \in tasks :
            /\ t.at \in {"waitFront", "waitBehind"} /\ r.seg = k /\ r.at = "answer"
            /\ r.role = IF t.at = "waitFront" THEN "front" ELSE "behind"
            /\ tasks' = (tasks \ {t, r})
                    \cup {[t EXCEPT !.at = IF @ = "waitFront" THEN "behind" ELSE "end"]}
                    \cup (IF r.data = <<>> THEN {[r EXCEPT !.at = "again"]} ELSE {})
            /\ UNCHANGED <<ringVars, nsVars, store, cl, down>>
    BY DEF Delivered, Answered
  <1>3. t \in Threads /\ t.role = "primary" /\ t.ds = files[k]
    BY <1>2, ThreadFacts DEF Fits, Threads
  <1>4. r \in Threads /\ r.data = d /\ Stored(r.ds, k, d)
        /\ r.ds = IF t.at = "waitFront" THEN front[files[k]] ELSE behind[files[k]]
    BY <1>2, ThreadFacts DEF Fits, OnDisk
  <1>5. PICK w, z : /\ w = [t EXCEPT !.at = IF @ = "waitFront" THEN "behind" ELSE "end"]
                    /\ z = [r EXCEPT !.at = "again"]
    OBVIOUS
  <1>6. tasks' \subseteq (tasks \ {t, r}) \cup {w, z} /\ tasks \ {t, r} \subseteq tasks' /\ w \in tasks'
        /\ (z \in tasks' => d = <<>> \/ z \in tasks \ {t, r} \/ z = w)
    BY <1>2, <1>4, <1>5
  <1>8. /\ w \in Threads /\ w.seg = k /\ w.data = d /\ w.role = "primary" /\ w.ds = t.ds
        /\ w.at = IF t.at = "waitFront" THEN "behind" ELSE "end"
        /\ z \in Threads /\ z.seg = k /\ z.data = d /\ z.role = r.role /\ z.ds = r.ds /\ z.at = "again"
    BY <1>2, <1>3, <1>4, <1>5 DEF Threads
  <1>81. z # w /\ z # t /\ z # r  BY <1>2, <1>3, <1>8
  <1>9. Passing(t, k, d)  BY <1>1, <1>3, Roles
  <1>10. Apart(k)  BY <1>1, <1>2, <1>6, <1>8, SameDisks DEF Apart
  <1>11. UNCHANGED <<files, front, behind>>  BY <1>2 DEF ringVars, nsVars
  <1>111. z \in tasks' => d = <<>>
    BY <1>1, <1>4, <1>6, <1>8, <1>81 DEF TasksInv
  <1>12. Fits(w) /\ Fits(z) /\ OnDisk(w)' /\ (z \in tasks' => OnDisk(z)')
    BY <1>2, <1>3, <1>4, <1>8, <1>111, ThreadFacts DEF Fits, OnDisk
  <1>14. \A u \in tasks' : u.seg = k => Fits(u) /\ u.data = d /\ OnDisk(u)'
    <2> TAKE u \in tasks'
    <2> HAVE u.seg = k
    <2>1. u \in tasks \/ u = w \/ u = z  BY <1>6
    <2>2. u \in tasks => Fits(u) /\ u.data = d /\ OnDisk(u)  BY ThreadFacts
    <2>3. u \in tasks => OnDisk(u)'  BY <1>2, <2>2, SameDisks
    <2> QED  BY <1>8, <1>12, <2>1, <2>2, <2>3
  <1>15. \A u, x \in tasks' : u.seg = k /\ x.seg = k /\ u.role = x.role => u = x
    BY <1>2, <1>3, <1>6, <1>8, ThreadFacts
  <1>16. Passing(w, k, d)'
    <2>0. Stored(files[k], k, d)  BY <1>2, <1>9 DEF Passing
    <2>1. Stored(files[k], k, d)'  BY <1>2, <1>11, <2>0 DEF Stored
    <2>2. CASE t.at = "waitFront"
      <3>1. \A u \in tasks' : u.seg = k => u.role # "behind"
        <4>1. \A u \in tasks : u.seg = k => u.role # "behind"  BY <1>9, <2>2 DEF Passing
        <4> QED  BY <1>2, <1>6, <1>8, <2>2, <4>1
      <3>2. \A u \in tasks' : u.seg = k /\ u.role = "front" => u.at = "again"
        <4>1. \A u \in tasks : u.seg = k /\ u.role = "front" => u = r  BY <1>2, <2>2, ThreadFacts
        <4> QED  BY <1>6, <1>8, <4>1
      <3>3. Stored(front[files[k]], k, d)'  BY <1>2, <1>4, <1>11, <2>2 DEF Stored
      <3> QED  BY <1>8, <1>11, <2>1, <2>2, <3>1, <3>2, <3>3 DEF Passing
    <2>3. CASE t.at = "waitBehind"
      <3>1. \A u \in tasks' : u.seg = k /\ u.role = "front" => u.at = "again"
        <4>1. \A u \in tasks : u.seg = k /\ u.role = "front" => u.at = "again"
          BY <1>9, <2>3 DEF Passing
        <4> QED  BY <1>6, <1>8, <4>1
      <3>2. \A u \in tasks' : u.seg = k /\ u.role = "behind" => u.at = "again"
        <4>1. \A u \in tasks : u.seg = k /\ u.role = "behind" => u = r  BY <1>2, <2>3, ThreadFacts
        <4> QED  BY <1>6, <1>8, <4>1
      <3>3. Stored(behind[files[k]], k, d)'  BY <1>2, <1>4, <1>11, <2>3 DEF Stored
      <3>4. Stored(front[files[k]], k, d) \/ front[files[k]] = behind[files[k]]
        BY <1>9, <2>3 DEF Passing
      <3>5. Stored(front[files[k]], k, d)'  BY <1>2, <1>11, <3>3, <3>4 DEF Stored
      <3> QED  BY <1>8, <1>11, <2>1, <2>3, <3>1, <3>2, <3>3, <3>5 DEF Passing
    <2> QED  BY <1>2, <2>2, <2>3
  <1>17. Copying(k, d)'
    <2>1. \A u \in tasks' : u.seg = k /\ u.role = "primary" => u = w  BY <1>8, <1>6, <1>15
    <2> QED  BY <1>6, <1>8, <1>16, <2>1 DEF Copying
  <1> QED  BY <1>10, <1>14, <1>15, <1>17, OneSegment

\* A thread that stores no bytes for ever leaves what there is as it is.
LEMMA AgainKeeps ==
    ASSUME CopyBase, NEW t \in tasks, StoreAgain(t)
    PROVE  CopyInv'
  <1> DEFINE k == t.seg  d == t.data
  <1>1. /\ ClientsInv /\ IdsInv /\ PlacesInv /\ StoreInv /\ TasksInv /\ CopiesInv
    BY DEF CopyBase, CopyInv
  <1>2. /\ t.at = "again" /\ tasks' = tasks
        /\ store' = [store EXCEPT ![t.ds] = With(@, k, <<>>)]
        /\ UNCHANGED <<ringVars, nsVars, tasks, cl, down>>
    BY DEF StoreAgain
  <1>3. d = <<>> /\ t.ds \in Servers  BY <1>2, ThreadFacts DEF OnDisk, Threads
  <1>4. Written(t.ds, k, <<>>)
    <2>1. <<>> \in Seq(Byte)  OBVIOUS
    <2> QED  BY <1>1, <1>2, <1>3, <2>1, StorePut
  <1>5. /\ StoreInv'
        /\ \A r \in Servers : \A j, e : j # k => (Stored(r, j, e) => Stored(r, j, e)')
        /\ \A r \in Servers : Stored(r, k, <<>>) => Stored(r, k, <<>>)'
    <2>1. /\ StoreInv' /\ Stored(t.ds, k, <<>>)'
          /\ \A r \in Servers : \A j, e : r # t.ds \/ j # k => (Stored(r, j, e) => Stored(r, j, e)')
      BY <1>4 DEF Written
    <2> QED  BY <2>1
  <1>6. Apart(k)  BY <1>2, <1>5 DEF Apart
  <1>7. UNCHANGED <<files, front, behind>>  BY <1>2 DEF ringVars, nsVars
  <1>8. \A u \in tasks' : u.seg = k => Fits(u) /\ u.data = d /\ OnDisk(u)'
    <2> TAKE u \in tasks'
    <2> HAVE u.seg = k
    <2>1. Fits(u) /\ u.data = d /\ OnDisk(u) /\ u.ds \in Servers  BY <1>2, ThreadFacts DEF Threads
    <2> QED  BY <1>3, <1>5, <2>1 DEF OnDisk
  <1>9. \A u, x \in tasks' : u.seg = k /\ x.seg = k /\ u.role = x.role => u = x
    BY <1>2, ThreadFacts
  <1>10. Copying(k, d)
    <2>1. PICK c \in Clients : \E i \in SegmentsOf(c) : k = KeyOf(c, i) /\ d = SegmentData(c, i)
      BY <1>1, OfClient
    <2> QED  BY <1>1, <2>1 DEF CopiesInv
  <1>11. k \in DOMAIN files /\ TwoServers /\ Base  BY ThreadFacts DEF CopyBase
  <1>12. Copying(k, d)'  BY <1>1, <1>2, <1>3, <1>5, <1>7, <1>10, <1>11, OtherSegment
  <1> QED  BY <1>6, <1>8, <1>9, <1>12, OneSegment

\* A thread that ends keeps CopyInv: it has done what it had to.
LEMMA EndKeeps ==
    ASSUME CopyBase, NEW t \in tasks, EndThread(t)
    PROVE  CopyInv'
  <1> DEFINE k == t.seg  d == t.data
  <1>1. /\ ClientsInv /\ IdsInv /\ PlacesInv /\ StoreInv /\ TasksInv /\ CopiesInv
    BY DEF CopyBase, CopyInv
  <1>2. /\ t.at = "end" /\ tasks' = tasks \ {t}
        /\ UNCHANGED <<ringVars, nsVars, store, cl, down>>
    BY DEF EndThread
  <1>3. t.role = "primary"  BY <1>2, ThreadFacts DEF Fits
  <1>4. Passing(t, k, d)  BY <1>1, <1>3, Roles
  <1>5. Apart(k)  BY <1>1, <1>2, SameDisks DEF Apart
  <1>6. UNCHANGED <<files, front, behind>>  BY <1>2 DEF ringVars, nsVars
  <1>7. \A u \in tasks' : u.seg = k => Fits(u) /\ u.data = d /\ OnDisk(u)'
    BY <1>2, ThreadFacts, SameDisks
  <1>8. \A u, x \in tasks' : u.seg = k /\ x.seg = k /\ u.role = x.role => u = x
    BY <1>2, ThreadFacts
  <1>9. Copied(k, d)'
    <2>1. Stored(files[k], k, d) /\ Stored(front[files[k]], k, d) /\ Stored(behind[files[k]], k, d)
      BY <1>2, <1>4 DEF Passing
    <2>2. Stored(files[k], k, d)' /\ Stored(front[files[k]], k, d)' /\ Stored(behind[files[k]], k, d)'
      BY <1>2, <1>6, <2>1 DEF Stored
    <2>3. ASSUME NEW u \in tasks', u.seg = k PROVE u.at = "again"
      <3>1. u \in tasks /\ u # t  BY <1>2
      <3>2. u.role \in {"front", "behind"}  BY <1>3, <2>3, <3>1, ThreadFacts DEF Threads
      <3> QED  BY <1>2, <1>4, <2>3, <3>1, <3>2 DEF Passing
    <2> QED  BY <1>6, <2>2, <2>3 DEF Copied
  <1>10. \A u \in tasks' : u.seg = k => u.role # "primary"  BY <1>2, <1>3, ThreadFacts
  <1>11. Copying(k, d)'  BY <1>9, <1>10 DEF Copying
  <1> QED  BY <1>5, <1>7, <1>8, <1>11, OneSegment

\* Multiples of the size of a segment.
LEMMA MultipleBelow ==
    ASSUME NEW n \in Nat \ {0}, NEW m \in Nat, NEW i \in Nat, i <= m \div n
    PROVE  i * n <= m
  <1>1. PICK q \in Int, r \in 0..(n - 1) : m = n * q + r /\ q = m \div n  BY DivMod
  <1>2. i <= q  BY <1>1
  <1>3. q - i \in Nat  BY <1>1, <1>2
  <1>4. n * (q - i) \in Nat  BY <1>3
  <1>5. n * (q - i) = n * q - i * n  BY <1>1, Z3
  <1> QED  BY <1>1, <1>4, <1>5, Z3

\* What is no more than m after multiplication is no more than m \div n.
LEMMA BelowMultiple ==
    ASSUME NEW n \in Nat \ {0}, NEW m \in Nat, NEW i \in Nat, i * n <= m
    PROVE  i <= m \div n
  <1>1. PICK q \in Int, r \in 0..(n - 1) : m = n * q + r /\ q = m \div n  BY DivMod
  <1>2. SUFFICES ASSUME i > q PROVE FALSE  BY <1>1
  <1>3. i - q - 1 \in Nat  BY <1>1, <1>2
  <1>4. n * (i - q - 1) \in Nat  BY <1>3
  <1>5. n * (i - q - 1) = i * n - n * q - n  BY <1>1, Z3
  <1> QED  BY <1>1, <1>4, <1>5, Z3

\* The bytes of a segment, in number and by position.
LEMMA SegmentTypes ==
    ASSUME NEW c \in Clients, NEW i \in Nat, i <= LastSegment(c)
    PROVE  /\ SegmentData(c, i) \in Seq(Byte)
           /\ Len(SegmentData(c, i)) = Smaller(SEG_SIZE, FileLen[c] - i * SEG_SIZE)
           /\ \A p \in 1..Smaller(SEG_SIZE, FileLen[c] - i * SEG_SIZE) :
                 SegmentData(c, i)[p] = <<c, i * SEG_SIZE + p>>
  <1>1. PICK S \in Nat \ {0} : S = SEG_SIZE  BY DFSAssumption
  <1>2. PICK L \in Nat : L = FileLen[c]  BY DFSAssumption
  <1>3. PICK b \in Nat : b = i * S  OBVIOUS
  <1>4. b <= L  BY <1>1, <1>2, <1>3, MultipleBelow DEF LastSegment
  <1>5. PICK n \in Nat : n = Smaller(S, L - b) /\ b + n <= L  BY <1>4 DEF Smaller
  <1>6. SegmentData(c, i) = SubSeq(Content(c), b + 1, b + n)
    BY <1>1, <1>2, <1>3, <1>5 DEF SegmentData
  <1>7. \A p \in (b + 1)..(b + n) : Content(c)[p] = <<c, p>> /\ Content(c)[p] \in Byte
    BY <1>2, <1>5 DEF Content, Byte
  <1>8. /\ SubSeq(Content(c), b + 1, b + n) \in Seq(Byte)
        /\ Len(SubSeq(Content(c), b + 1, b + n)) = IF b + 1 <= b + n THEN b + n - (b + 1) + 1 ELSE 0
        /\ \A p \in 1..(b + n - (b + 1) + 1) :
              SubSeq(Content(c), b + 1, b + n)[p] = Content(c)[b + 1 + p - 1]
    <2>1. b + 1 \in Int /\ b + n \in Int  OBVIOUS
    <2> QED  BY <1>7, <2>1, SubSeqProperties
  <1>9. \A p \in 1..n : SubSeq(Content(c), b + 1, b + n)[p] = <<c, b + p>>
    <2> TAKE p \in 1..n
    <2>1. b + 1 + p - 1 = b + p /\ b + p \in (b + 1)..(b + n) /\ p \in 1..(b + n - (b + 1) + 1)
      OBVIOUS
    <2> QED  BY <1>7, <1>8, <2>1
  <1>10. Len(SubSeq(Content(c), b + 1, b + n)) = n  BY <1>8
  <1> QED  BY <1>1, <1>2, <1>3, <1>5, <1>6, <1>8, <1>9, <1>10

-----------------------------------------------------------------------------
\* FindSegment keeps the ids and places that there are, and knows what it was asked.
LEMMA Located ==
    ASSUME TurnInv, IdsApart, PlacesInv, UNCHANGED srvs,
           NEW named, NEW file, NEW fd, NEW segno, FindSegment(named, file, fd, segno)
    PROVE  /\ IdsApart'
           /\ \A f \in DOMAIN idmap : f \in DOMAIN idmap' /\ idmap'[f] = idmap[f]
           /\ IF named THEN file \in DOMAIN idmap' ELSE idmap' = idmap
           /\ Key(IF named THEN idmap'[file] ELSE fd, segno) \in DOMAIN files'
           /\ \A k \in DOMAIN files : k \in DOMAIN files' /\ files'[k] = files[k]
           /\ \A k \in DOMAIN files' : \E i \in 1..Len(srvs) : files'[k] = srvs[i]
  <1>1. PICK ids : ids = IF named /\ file \notin DOMAIN idmap
                         THEN With(idmap, file, Cardinality(DOMAIN idmap)) ELSE idmap
    OBVIOUS
  <1>2. PICK key : key = Key(IF named THEN ids[file] ELSE fd, segno)  OBVIOUS
  <1>3. /\ srvs # <<>> /\ idmap' = ids
        /\ IF key \in DOMAIN files THEN UNCHANGED <<files, currentSvr>>
           ELSE /\ files' = With(files, key, srvs[currentSvr + 1])
                /\ currentSvr' = NextServer(segno)
    BY <1>1, <1>2 DEF FindSegment
  <1>4. PICK n : n = Cardinality(DOMAIN idmap)  OBVIOUS
  <1>5. n \in Nat  BY <1>4, FS_CardinalityType DEF IdsApart
  <1>6. /\ IdsApart'
        /\ \A f \in DOMAIN idmap : f \in DOMAIN idmap' /\ idmap'[f] = idmap[f]
        /\ IF named THEN file \in DOMAIN idmap' ELSE idmap' = idmap
    <2>1. CASE named /\ file \notin DOMAIN idmap
      <3>1. /\ DOMAIN idmap' = DOMAIN idmap \cup {file}
            /\ idmap'[file] = n
            /\ \A f \in DOMAIN idmap : idmap'[f] = idmap[f]
        BY <1>1, <1>3, <1>4, <2>1 DEF With
      <3>2. /\ IsFiniteSet(DOMAIN idmap')
            /\ Cardinality(DOMAIN idmap') = n + 1
        BY <1>4, <2>1, <3>1, FS_AddElement DEF IdsApart
      <3>3. \A f \in DOMAIN idmap : idmap[f] \in Nat /\ idmap[f] < n  BY <1>4 DEF IdsApart
      <3>4. \A f, g \in DOMAIN idmap : idmap[f] = idmap[g] => f = g  BY DEF IdsApart
      <3>5. \A f, g \in DOMAIN idmap' : idmap'[f] = idmap'[g] => f = g
        BY <1>5, <3>1, <3>3, <3>4
      <3>6. \A f \in DOMAIN idmap' : idmap'[f] \in Nat /\ idmap'[f] < n + 1
        BY <1>5, <3>1, <3>3
      <3>7. IdsApart'  BY <3>2, <3>5, <3>6 DEF IdsApart
      <3> QED  BY <2>1, <3>1, <3>7
    <2>2. CASE ~(named /\ file \notin DOMAIN idmap)
      <3>1. idmap' = idmap  BY <1>1, <1>3, <2>2
      <3> QED  BY <2>2, <3>1 DEF IdsApart
    <2> QED  BY <2>1, <2>2
  <1>7. PICK p : p = srvs[currentSvr + 1]  OBVIOUS
  <1>8. \E i \in 1..Len(srvs) : p = srvs[i]
    <2>1. PICK m \in Nat \ {0} : m = Len(srvs)  BY <1>3 DEF TurnInv
    <2>2. PICK k \in Nat : k = Cardinality(DOMAIN files)  BY FS_CardinalityType DEF TurnInv
    <2>3. currentSvr = k % m  BY <1>3, <2>1, <2>2 DEF TurnInv
    <2>4. k % m \in 0..(m - 1)  BY DivMod
    <2>5. currentSvr + 1 \in 1..m  BY <2>3, <2>4
    <2> QED  BY <1>7, <2>1, <2>5
  <1>9. /\ DOMAIN files' = DOMAIN files \cup {key}
        /\ \A k \in DOMAIN files : files'[k] = files[k]
        /\ key \notin DOMAIN files => files'[key] = p
    BY <1>3, <1>7 DEF With
  <1>10. \A k \in DOMAIN files : \E i \in 1..Len(srvs) : files[k] = srvs[i]  BY DEF PlacesInv
  <1>11. \A k \in DOMAIN files' : \E i \in 1..Len(srvs) : files'[k] = srvs[i]
    BY <1>8, <1>9, <1>10
  <1>12. Key(IF named THEN idmap'[file] ELSE fd, segno) = key  BY <1>2, <1>3
  <1> QED  BY <1>6, <1>9, <1>11, <1>12

\* A client that goes on with the segments it has sent, while the name server
\* may learn of more, leaves threads and copies as they are.
LEMMA Growing ==
    ASSUME CopyBase, UNCHANGED <<ringVars, tasks, store>>,
           \A k \in DOMAIN files : k \in DOMAIN files' /\ files'[k] = files[k],
           \A c \in Clients : /\ cl'[c].seg = cl[c].seg
                              /\ cl[c].seg > 0 => cl'[c].id = cl[c].id
    PROVE  /\ StoreInv' /\ TasksInv' /\ CopiesInv'
           /\ \A c \in Clients : \A i \in SegmentsOf(c)' : KeyOf(c, i)' \in DOMAIN files'
           /\ DOMAIN files # {} \/ tasks # {} => RingReady'
  <1>1. /\ ClientsInv /\ IdsInv /\ PlacesInv /\ StoreInv /\ TasksInv /\ CopiesInv
        /\ TwoServers /\ Base
    BY DEF CopyBase, CopyInv
  <1>2. /\ front' = front /\ behind' = behind /\ srvs' = srvs /\ nsAt' = nsAt /\ toDs' = toDs
        /\ tasks' = tasks /\ store' = store
    BY DEF ringVars
  <1>3. \A c \in Clients : cl[c].seg \in Nat  BY <1>1 DEF ClientsInv
  <1>4. ASSUME NEW c \in Clients
        PROVE  /\ SegmentsOf(c)' = SegmentsOf(c)
               /\ \A i \in SegmentsOf(c) : KeyOf(c, i)' = KeyOf(c, i)
    <2>1. SegmentsOf(c)' = SegmentsOf(c)  BY DEF SegmentsOf
    <2>2. ASSUME NEW i \in SegmentsOf(c) PROVE KeyOf(c, i)' = KeyOf(c, i)
      <3>1. cl[c].seg > 0  BY <1>3, <2>2 DEF SegmentsOf
      <3> QED  BY <3>1 DEF KeyOf
    <2> QED  BY <2>1, <2>2
  <1>5. \A c \in Clients : \A i \in SegmentsOf(c)' : KeyOf(c, i)' \in DOMAIN files'
    <2> TAKE c \in Clients
    <2> TAKE i \in SegmentsOf(c)'
    <2>1. i \in SegmentsOf(c) /\ KeyOf(c, i)' = KeyOf(c, i)  BY <1>4
    <2> QED  BY <1>1, <2>1 DEF PlacesInv
  <1>6. ASSUME NEW t \in tasks PROVE Meant(t)'
    <2>1. Meant(t) /\ t.seg \in DOMAIN files  BY <1>1, <1>6, OfClient
    <2>2. PICK c \in Clients : \E i \in SegmentsOf(c) :
             t.seg = KeyOf(c, i) /\ t.data = SegmentData(c, i)
      BY <2>1 DEF Meant
    <2>3. \E i \in SegmentsOf(c)' : t.seg = KeyOf(c, i)' /\ t.data = SegmentData(c, i)
      BY <1>4, <2>2
    <2> QED  BY <1>2, <2>1, <2>3 DEF Meant, SegmentData
  <1>7. TasksInv'  BY <1>1, <1>2, <1>6 DEF TasksInv, Stored
  <1>8. StoreInv'  BY <1>1, <1>2 DEF StoreInv
  <1>9. CopiesInv'
    <2> SUFFICES ASSUME NEW c \in Clients, NEW i \in SegmentsOf(c)'
                 PROVE  Copying(KeyOf(c, i), SegmentData(c, i))'
      BY DEF CopiesInv
    <2>1. i \in SegmentsOf(c) /\ KeyOf(c, i)' = KeyOf(c, i)  BY <1>4
    <2>2. PICK k, d : k = KeyOf(c, i) /\ d = SegmentData(c, i)  OBVIOUS
    <2>3. KeyOf(c, i)' = k /\ SegmentData(c, i)' = d  BY <2>1, <2>2 DEF SegmentData
    <2>4. Copying(k, d) /\ k \in DOMAIN files  BY <1>1, <2>1, <2>2 DEF CopiesInv, PlacesInv
    <2>5. files'[k] = files[k]  BY <2>4
    <2>6. Copying(k, d)'  BY <1>2, <2>4, <2>5 DEF Copying, Copied, Passing, Stored
    <2> QED  BY <2>3, <2>6
  <1>10. DOMAIN files # {} \/ tasks # {} => RingReady'
    BY <1>1, <1>2 DEF PlacesInv, RingReady, Ring!Settled, Ring!Idle
  <1> QED  BY <1>5, <1>7, <1>8, <1>9, <1>10

\* The client c alone has moved.
Moved(c, r) ==
    /\ r \in [at : Places, seg : Nat, id : Nat, buff : Seq(Byte)]
    /\ cl' = [cl EXCEPT ![c] = r]

\* A client that moves on, in bounds, keeps ClientsInv.
LEMMA ClientMoves ==
    ASSUME ClientsInv, NEW c \in Clients, NEW r, Moved(c, r),
           r.at \in {"locate", "send"} => r.seg <= LastSegment(c),
           r.at \in {"send", "read"} => FileLen[c] > 0,
           r.at \in {"uploaded", "read", "done"} =>
                r.seg = IF FileLen[c] > 0 THEN LastSegment(c) + 1 ELSE 0
    PROVE  /\ ClientsInv' /\ cl'[c] = r
           /\ \A d \in Clients : d # c => cl'[d] = cl[d]
  <1>1. cl' = [cl EXCEPT ![c] = r] /\ r \in [at : Places, seg : Nat, id : Nat, buff : Seq(Byte)]
    BY DEF Moved
  <1>2. cl'[c] = r /\ \A d \in Clients : d # c => cl'[d] = cl[d]
    BY <1>1 DEF ClientsInv
  <1>3. cl' \in [Clients -> [at : Places, seg : Nat, id : Nat, buff : Seq(Byte)]]
    BY <1>1 DEF ClientsInv
  <1>4. \A d \in Clients :
          /\ cl'[d].at \in {"locate", "send"} => cl'[d].seg <= LastSegment(d)
          /\ cl'[d].at \in {"send", "read"} => FileLen[d] > 0
          /\ cl'[d].at \in {"uploaded", "read", "done"} =>
                cl'[d].seg = IF FileLen[d] > 0 THEN LastSegment(d) + 1 ELSE 0
    BY <1>2 DEF ClientsInv
  <1>5. ClientsInv'  BY <1>3, <1>4 DEF ClientsInv, LastSegment
  <1> QED  BY <1>2, <1>5

\* An empty file has one segment, 0.
LEMMA LastOfEmpty ==
    ASSUME NEW c \in Clients
    PROVE  LastSegment(c) \in Nat /\ (FileLen[c] = 0 => LastSegment(c) = 0)
  <1>1. PICK S \in Nat \ {0} : S = SEG_SIZE  BY DFSAssumption
  <1>2. PICK L \in Nat : L = FileLen[c]  BY DFSAssumption
  <1>3. L \div S \in Nat  BY Z3
  <1>4. 0 \div S = 0
    <2>1. 0 = S * (0 \div S) + (0 % S) /\ 0 % S \in 0..(S - 1) /\ 0 \div S \in Int  BY DivMod
    <2> QED  BY <2>1, Z3
  <1> QED  BY <1>1, <1>2, <1>3, <1>4 DEF LastSegment

\* UploadSegment's question to the name server.
LEMMA LocateKeeps ==
    ASSUME CopyBase, RingReady, NEW c \in Clients, LocateUpload(c)
    PROVE  CopyInv'
  <1>1. /\ ClientsInv /\ IdsInv /\ IdsApart /\ PlacesInv /\ StoreInv /\ TasksInv /\ CopiesInv
        /\ TwoServers /\ Base /\ TurnInv
    BY DEF CopyBase, CopyInv, IdsInv, Base
  <1>2. /\ cl[c].at = "locate"
        /\ UNCHANGED <<ringVars, tasks, store, down>> /\ srvs' = srvs
    BY DEF LocateUpload, ringVars
  <1>3. /\ cl[c] \in [at : Places, seg : Nat, id : Nat, buff : Seq(Byte)]
        /\ cl[c].seg \in Nat /\ cl[c].seg <= LastSegment(c) /\ FileLen[c] \in Nat
        /\ cl \in [Clients -> [at : Places, seg : Nat, id : Nat, buff : Seq(Byte)]]
    BY <1>1, <1>2, DFSAssumption DEF ClientsInv
  <1>4. CASE FileLen[c] = 0
    <2>1. cl' = [cl EXCEPT ![c].at = "uploaded"] /\ UNCHANGED nsVars  BY <1>4 DEF LocateUpload
    <2>2. PICK r : r = [cl[c] EXCEPT !.at = "uploaded"]  OBVIOUS
    <2>3. /\ r \in [at : Places, seg : Nat, id : Nat, buff : Seq(Byte)]
          /\ r.at = "uploaded" /\ r.seg = cl[c].seg /\ r.id = cl[c].id
      BY <1>3, <2>2 DEF Places
    <2>4. Moved(c, r)  BY <1>3, <2>1, <2>2, <2>3 DEF Moved
    <2>5. r.seg = 0  BY <1>3, <1>4, <2>3, LastOfEmpty
    <2>6. /\ ClientsInv' /\ cl'[c] = r
          /\ \A d \in Clients : d # c => cl'[d] = cl[d]
      BY <1>1, <1>4, <2>3, <2>4, <2>5, ClientMoves
    <2>7. files' = files /\ idmap' = idmap  BY <2>1 DEF nsVars
    <2>8. /\ StoreInv' /\ TasksInv' /\ CopiesInv'
          /\ \A d \in Clients : \A i \in SegmentsOf(d)' : KeyOf(d, i)' \in DOMAIN files'
          /\ DOMAIN files # {} \/ tasks # {} => RingReady'
      BY <1>2, <2>3, <2>6, <2>7, Growing
    <2>9. IdsInv'  BY <1>1, <2>3, <2>6, <2>7 DEF IdsInv, IdsApart
    <2>10. \A d \in Clients : cl'[d].at = "send" => KeyOf(d, cl[d].seg)' \in DOMAIN files'
      BY <1>1, <2>3, <2>6, <2>7 DEF PlacesInv, KeyOf
    <2>11. PlacesInv'  BY <1>1, <1>2, <2>7, <2>8, <2>10 DEF PlacesInv
    <2> QED  BY <2>6, <2>8, <2>9, <2>11 DEF CopyInv
  <1>5. CASE FileLen[c] # 0
    <2>1. /\ FindSegment(TRUE, c, 0, cl[c].seg)
          /\ cl' = [cl EXCEPT ![c].at = "send", ![c].id = idmap'[c]]
      BY <1>5 DEF LocateUpload
    <2>2. /\ IdsApart'
          /\ \A f \in DOMAIN idmap : f \in DOMAIN idmap' /\ idmap'[f] = idmap[f]
          /\ c \in DOMAIN idmap'
          /\ Key(idmap'[c], cl[c].seg) \in DOMAIN files'
          /\ \A k \in DOMAIN files : k \in DOMAIN files' /\ files'[k] = files[k]
          /\ \A k \in DOMAIN files' : \E i \in 1..Len(srvs) : files'[k] = srvs[i]
      BY <1>1, <1>2, <2>1, Located
    <2>3. idmap'[c] \in Nat  BY <2>2 DEF IdsApart
    <2>4. PICK r : r = [cl[c] EXCEPT !.at = "send", !.id = idmap'[c]]  OBVIOUS
    <2>5. /\ r \in [at : Places, seg : Nat, id : Nat, buff : Seq(Byte)]
          /\ r.at = "send" /\ r.seg = cl[c].seg /\ r.id = idmap'[c]
      BY <1>3, <2>3, <2>4 DEF Places
    <2>6. Moved(c, r)  BY <1>3, <2>1, <2>4, <2>5 DEF Moved
    <2>7. FileLen[c] > 0  BY <1>3, <1>5
    <2>8. /\ ClientsInv' /\ cl'[c] = r
          /\ \A d \in Clients : d # c => cl'[d] = cl[d]
      BY <1>1, <1>3, <2>5, <2>6, <2>7, ClientMoves
    <2>9. \A d \in Clients : /\ cl'[d].seg = cl[d].seg
                             /\ cl[d].seg > 0 => cl'[d].id = cl[d].id
      BY <1>1, <2>2, <2>5, <2>8 DEF IdsInv
    <2>10. /\ StoreInv' /\ TasksInv' /\ CopiesInv'
           /\ \A d \in Clients : \A i \in SegmentsOf(d)' : KeyOf(d, i)' \in DOMAIN files'
      BY <1>2, <2>2, <2>9, Growing
    <2>11. IdsInv'  BY <1>1, <2>2, <2>5, <2>8 DEF IdsInv
    <2>12. \A d \in Clients : cl'[d].at = "send" => KeyOf(d, cl[d].seg)' \in DOMAIN files'
      BY <1>1, <2>2, <2>5, <2>8 DEF PlacesInv, KeyOf
    <2>13. RingReady'  BY <1>2 DEF ringVars, RingReady, Ring!Settled, Ring!Idle
    <2>14. PlacesInv'  BY <1>2, <2>2, <2>10, <2>12, <2>13 DEF PlacesInv
    <2> QED  BY <2>8, <2>10, <2>11, <2>14 DEF CopyInv
  <1> QED  BY <1>4, <1>5

\* A client that starts to read keeps CopyInv.
LEMMA StartKeeps ==
    ASSUME CopyBase, NEW c \in Clients, StartRead(c)
    PROVE  CopyInv'
  <1>1. /\ ClientsInv /\ IdsInv /\ PlacesInv /\ StoreInv /\ TasksInv /\ CopiesInv
    BY DEF CopyBase, CopyInv
  <1>2. /\ cl[c].at = "uploaded"
        /\ cl' = [cl EXCEPT ![c].at = IF FileLen[c] > 0 THEN "read" ELSE "done"]
        /\ UNCHANGED <<ringVars, nsVars, tasks, store, down>>
        /\ srvs' = srvs /\ files' = files /\ idmap' = idmap
    BY DEF StartRead, ringVars, nsVars
  <1>3. /\ cl[c] \in [at : Places, seg : Nat, id : Nat, buff : Seq(Byte)]
        /\ cl[c].seg = IF FileLen[c] > 0 THEN LastSegment(c) + 1 ELSE 0
        /\ cl \in [Clients -> [at : Places, seg : Nat, id : Nat, buff : Seq(Byte)]]
    BY <1>1, <1>2 DEF ClientsInv
  <1>4. PICK r : r = [cl[c] EXCEPT !.at = IF FileLen[c] > 0 THEN "read" ELSE "done"]  OBVIOUS
  <1>5. /\ r \in [at : Places, seg : Nat, id : Nat, buff : Seq(Byte)]
        /\ r.at = IF FileLen[c] > 0 THEN "read" ELSE "done"
        /\ r.seg = cl[c].seg /\ r.id = cl[c].id
    BY <1>3, <1>4 DEF Places
  <1>6. Moved(c, r)  BY <1>2, <1>3, <1>4, <1>5 DEF Moved
  <1>7. /\ ClientsInv' /\ cl'[c] = r
        /\ \A d \in Clients : d # c => cl'[d] = cl[d]
    BY <1>1, <1>3, <1>5, <1>6, ClientMoves
  <1>8. /\ StoreInv' /\ TasksInv' /\ CopiesInv'
        /\ \A d \in Clients : \A i \in SegmentsOf(d)' : KeyOf(d, i)' \in DOMAIN files'
        /\ DOMAIN files # {} \/ tasks # {} => RingReady'
    BY <1>2, <1>5, <1>7, Growing
  <1>9. IdsInv'  BY <1>1, <1>2, <1>5, <1>7 DEF IdsInv, IdsApart
  <1>10. \A d \in Clients : cl'[d].at = "send" => KeyOf(d, cl[d].seg)' \in DOMAIN files'
    BY <1>1, <1>2, <1>5, <1>7 DEF PlacesInv, KeyOf
  <1>11. PlacesInv'  BY <1>1, <1>2, <1>8, <1>10 DEF PlacesInv
  <1> QED  BY <1>7, <1>8, <1>9, <1>11 DEF CopyInv

\* UploadSegment: no thread stores this segment yet.
LEMMA UploadKeeps ==
    ASSUME CopyBase, RingReady, NEW c \in Clients, UploadSegment(c)
    PROVE  CopyInv'
  <1>1. /\ ClientsInv /\ IdsInv /\ IdsApart /\ PlacesInv /\ StoreInv /\ TasksInv /\ CopiesInv
        /\ TwoServers /\ Base
    BY DEF CopyBase, CopyInv, IdsInv
  <1>2. PICK i, k, d : i = cl[c].seg /\ k = KeyOf(c, i) /\ d = SegmentData(c, i)  OBVIOUS
  <1>3. PICK t : t = [seg |-> k, ds |-> files[k], role |-> "primary", data |-> d, at |-> "open"]
    OBVIOUS
  <1>4. /\ cl[c].at = "send"
        /\ tasks' = tasks \cup {t}
        /\ cl' = [cl EXCEPT ![c].seg = i + 1,
                            ![c].at = IF i < LastSegment(c) THEN "locate" ELSE "uploaded"]
        /\ UNCHANGED <<ringVars, nsVars, store, down>>
    BY <1>2, <1>3 DEF UploadSegment, KeyOf
  <1>5. /\ cl[c] \in [at : Places, seg : Nat, id : Nat, buff : Seq(Byte)]
        /\ i \in Nat /\ i <= LastSegment(c) /\ FileLen[c] > 0 /\ cl[c].id \in Nat
        /\ cl \in [Clients -> [at : Places, seg : Nat, id : Nat, buff : Seq(Byte)]]
        /\ LastSegment(c) \in Nat
    BY <1>1, <1>2, <1>4, LastOfEmpty DEF ClientsInv
  <1>6. /\ k \in DOMAIN files
        /\ c \in DOMAIN idmap /\ idmap[c] = cl[c].id
    BY <1>1, <1>2, <1>4 DEF PlacesInv, IdsInv
  <1>7. /\ files' = files /\ idmap' = idmap /\ front' = front /\ behind' = behind
        /\ srvs' = srvs /\ nsAt' = nsAt /\ toDs' = toDs /\ store' = store
    BY <1>4 DEF ringVars, nsVars
  <1>71. PICK place \in Places : place = IF i < LastSegment(c) THEN "locate" ELSE "uploaded"
    BY DEF Places
  <1>72. PICK next \in Nat : next = i + 1  BY <1>5
  <1>8. PICK r : r = [cl[c] EXCEPT !.seg = next, !.at = place]  OBVIOUS
  <1>9. /\ r \in [at : Places, seg : Nat, id : Nat, buff : Seq(Byte)]
        /\ r.at = IF i < LastSegment(c) THEN "locate" ELSE "uploaded"
        /\ r.seg = i + 1 /\ r.id = cl[c].id
    BY <1>5, <1>71, <1>72, <1>8
  <1>10. Moved(c, r)
    <2>1. cl' = [cl EXCEPT ![c].seg = next, ![c].at = place]  BY <1>4, <1>71, <1>72
    <2>2. cl' = [cl EXCEPT ![c] = r]  BY <1>5, <1>8, <2>1
    <2> QED  BY <1>9, <2>2 DEF Moved
  <1>11. /\ ClientsInv' /\ cl'[c] = r
         /\ \A b \in Clients : b # c => cl'[b] = cl[b]
    BY <1>1, <1>5, <1>9, <1>10, ClientMoves
  <1>12. IdsInv'  BY <1>1, <1>6, <1>7, <1>9, <1>11 DEF IdsInv, IdsApart
  <1>13. \A b \in Clients : \A j : KeyOf(b, j)' = KeyOf(b, j)
    BY <1>9, <1>11 DEF KeyOf
  <1>14. \A b \in Clients : b # c => SegmentsOf(b)' = SegmentsOf(b)
    BY <1>11 DEF SegmentsOf
  <1>15. SegmentsOf(c)' = SegmentsOf(c) \cup {i}
    BY <1>2, <1>5, <1>9, <1>11 DEF SegmentsOf
  <1>16. \A b \in Clients : \A j \in SegmentsOf(b) : KeyOf(b, j) # k
    <2> TAKE b \in Clients
    <2> TAKE j \in SegmentsOf(b)
    <2> SUFFICES ASSUME KeyOf(b, j) = KeyOf(c, i) PROVE FALSE  BY <1>2
    <2>1. cl[b].seg \in Nat  BY <1>1 DEF ClientsInv
    <2>2. cl[b].seg > 0 /\ j < cl[b].seg  BY <2>1 DEF SegmentsOf
    <2>3. b = c /\ j = i  BY <1>1, <1>4, <2>2, KeysDiffer
    <2> QED  BY <1>2, <1>5, <2>1, <2>2, <2>3
  <1>17. \A u \in tasks : u.seg # k
    <2> TAKE u \in tasks
    <2>1. PICK b \in Clients : \E j \in SegmentsOf(b) : u.seg = KeyOf(b, j) /\ u.data = SegmentData(b, j)
      BY <1>1, OfClient
    <2> QED  BY <1>16, <2>1
  <1>18. d \in Seq(Byte)  BY <1>2, <1>5, SegmentTypes
  <1>19. files[k] \in Servers  BY <1>1, <1>6, ThreePlaces
  <1>20. k \in Nat \X Nat  BY <1>2, <1>5 DEF KeyOf, Key
  <1>21. t \in Threads /\ t.seg = k /\ t.ds = files[k] /\ t.role = "primary" /\ t.data = d /\ t.at = "open"
    BY <1>3, <1>18, <1>19, <1>20 DEF Threads
  <1>22. \A b, j : SegmentData(b, j)' = SegmentData(b, j)  BY DEF SegmentData
  <1>23. Meant(t)'
    <2>1. i \in SegmentsOf(c)' /\ KeyOf(c, i)' = k /\ SegmentData(c, i)' = d
      BY <1>2, <1>13, <1>15, <1>22
    <2> QED  BY <1>7, <1>21, <2>1 DEF Meant
  <1>24. ASSUME NEW u \in tasks PROVE Meant(u)'
    <2>1. Meant(u)  BY <1>1 DEF TasksInv
    <2>2. PICK b \in Clients : \E j \in SegmentsOf(b) : u.seg = KeyOf(b, j) /\ u.data = SegmentData(b, j)
      BY <1>1, OfClient
    <2>3. \E j \in SegmentsOf(b)' : u.seg = KeyOf(b, j)' /\ u.data = SegmentData(b, j)'
      BY <1>13, <1>14, <1>15, <1>22, <2>2
    <2> QED  BY <1>7, <2>1, <2>3 DEF Meant
  <1>25. TasksInv'
    BY <1>1, <1>4, <1>7, <1>17, <1>21, <1>23, <1>24 DEF TasksInv, Stored
  <1>26. StoreInv'  BY <1>1, <1>7 DEF StoreInv
  <1>27. RingReady'  BY <1>7 DEF RingReady, Ring!Settled, Ring!Idle
  <1>28. PlacesInv'
    <2>1. \A b \in Clients : \A j \in SegmentsOf(b)' : KeyOf(b, j)' \in DOMAIN files
      BY <1>1, <1>2, <1>6, <1>13, <1>14, <1>15 DEF PlacesInv
    <2>2. \A b \in Clients : cl'[b].at = "send" => KeyOf(b, cl[b].seg)' \in DOMAIN files
      BY <1>1, <1>9, <1>11 DEF PlacesInv, KeyOf
    <2> QED  BY <1>1, <1>7, <1>27, <2>1, <2>2 DEF PlacesInv
  <1>29. CopiesInv'
    <2> SUFFICES ASSUME NEW b \in Clients, NEW j \in SegmentsOf(b)'
                 PROVE  Copying(KeyOf(b, j), SegmentData(b, j))'
      BY DEF CopiesInv
    <2>1. PICK l, e : l = KeyOf(b, j) /\ e = SegmentData(b, j)  OBVIOUS
    <2>2. KeyOf(b, j)' = l /\ SegmentData(b, j)' = e  BY <1>13, <1>22, <2>1
    <2>3. CASE j \in SegmentsOf(b)
      <3>1. Copying(l, e) /\ l \in DOMAIN files /\ l # k
        BY <1>1, <1>16, <2>1, <2>3 DEF CopiesInv, PlacesInv
      <3>2. \A u : u.seg = l => (u \in tasks <=> u \in tasks')  BY <1>4, <1>21, <3>1
      <3>3. \A s \in Servers : Stored(s, l, e) => Stored(s, l, e)'  BY <1>7 DEF Stored
      <3>4. Copying(l, e)'  BY <1>1, <1>7, <3>1, <3>2, <3>3, OtherSegment
      <3> QED  BY <2>2, <3>4
    <2>4. CASE b = c /\ j = i
      <3>1. l = k /\ e = d  BY <1>2, <2>1, <2>4
      <3>2. \A u \in tasks' : u.seg = k => u = t  BY <1>4, <1>17
      <3>3. Passing(t, k, d)'  BY <1>21, <3>2 DEF Passing
      <3>4. Copying(k, d)'  BY <1>4, <1>21, <3>2, <3>3 DEF Copying
      <3> QED  BY <2>2, <3>1, <3>4
    <2> QED  BY <1>14, <1>15, <2>3, <2>4
  <1> QED  BY <1>11, <1>12, <1>25, <1>26, <1>28, <1>29 DEF CopyInv

\* What is read from a file is bytes, whatever is asked for.
LEMMA FromFileTypes ==
    ASSUME NEW s \in Seq(Byte), NEW o \in Nat, NEW l \in Int
    PROVE  FromFile(s, o, l) \in Seq(Byte)
  <1>1. PICK n \in Nat : 1..l = 1..n
    <2>1. CASE l \in Nat  BY <2>1
    <2>2. CASE l \notin Nat
      <3>1. 1..l = 1..0  BY <2>2
      <3> QED  BY <3>1
    <2> QED  BY <2>1, <2>2
  <1>2. Zero \in Byte  BY DEF Byte
  <1>3. ASSUME NEW p \in 1..l PROVE (IF o + p <= Len(s) THEN s[o + p] ELSE Zero) \in Byte
    <2>1. o + p <= Len(s) => o + p \in 1..Len(s)  OBVIOUS
    <2> QED  BY <1>2, <2>1
  <1>4. FromFile(s, o, l) = [p \in 1..n |-> IF o + p <= Len(s) THEN s[o + p] ELSE Zero]
    BY <1>1 DEF FromFile
  <1> QED  BY <1>1, <1>3, <1>4

\* Quotients and remainders are natural numbers.
LEMMA ModTypes ==
    ASSUME NEW n \in Nat \ {0}, NEW m \in Nat
    PROVE  m % n \in Nat /\ m \div n \in Nat
  BY Z3

\* Read's turns ask the name server, which knows the segments or takes them for new.
LEMMA ReadKeeps ==
    ASSUME CopyBase, RingReady, NEW c \in Clients, ReadSegment(c)
    PROVE  CopyInv'
  <1>1. /\ ClientsInv /\ IdsInv /\ IdsApart /\ PlacesInv /\ StoreInv /\ TasksInv /\ CopiesInv
        /\ TwoServers /\ Base /\ TurnInv /\ srvs \in Seq(Servers)
    BY DEF CopyBase, CopyInv, IdsInv, Base, TurnInv
  <1>2. PICK S \in Nat \ {0} : S = SEG_SIZE  BY DFSAssumption
  <1>3. PICK offset, length, segno, o, l, key :
            /\ offset = Len(cl[c].buff) /\ length = FileLen[c] - offset
            /\ o = offset % SEG_SIZE /\ segno = offset \div SEG_SIZE
            /\ l = Smaller(length - o, SEG_SIZE - o)
            /\ key = Key(cl[c].id, segno)
    OBVIOUS
  <1>4. /\ cl[c].at = "read"
        /\ FindSegment(FALSE, c, cl[c].id, segno)
        /\ \/ cl' = cl
           \/ cl' = [cl EXCEPT ![c].buff = @ \o FromFile(store[files'[key]][key], o, l),
                               ![c].at = IF l < length THEN "read" ELSE "done"]
              /\ key \in DOMAIN store[files'[key]]
        /\ UNCHANGED <<ringVars, tasks, store>> /\ srvs' = srvs
    BY <1>3 DEF ReadSegment, ringVars
  <1>5. /\ cl[c] \in [at : Places, seg : Nat, id : Nat, buff : Seq(Byte)]
        /\ cl \in [Clients -> [at : Places, seg : Nat, id : Nat, buff : Seq(Byte)]]
        /\ FileLen[c] > 0 /\ cl[c].seg = LastSegment(c) + 1 /\ cl[c].buff \in Seq(Byte)
    BY <1>1, <1>4 DEF ClientsInv
  <1>6. offset \in Nat /\ length \in Int  BY <1>3, <1>5, DFSAssumption
  <1>7. o \in Nat /\ l \in Int
    <2>1. offset % S \in Nat  BY <1>6, ModTypes
    <2>2. o = offset % S  BY <1>2, <1>3
    <2>3. o \in Nat  BY <2>1, <2>2
    <2>4. l = Smaller(length - o, S - o)  BY <1>2, <1>3
    <2> QED  BY <1>6, <2>3, <2>4 DEF Smaller
  <1>8. /\ IdsApart' /\ idmap' = idmap
        /\ key \in DOMAIN files'
        /\ \A k \in DOMAIN files : k \in DOMAIN files' /\ files'[k] = files[k]
        /\ \A k \in DOMAIN files' : \E i \in 1..Len(srvs) : files'[k] = srvs[i]
    BY <1>1, <1>3, <1>4, Located
  <1>9. files'[key] \in Servers  BY <1>1, <1>8
  <1>10. /\ ClientsInv'
         /\ \A d \in Clients : cl'[d].seg = cl[d].seg /\ cl'[d].id = cl[d].id
         /\ \A d \in Clients : cl'[d].at = "send" <=> cl[d].at = "send"
    <2>1. CASE cl' = cl  BY <1>1, <2>1 DEF ClientsInv, LastSegment
    <2>2. CASE /\ cl' = [cl EXCEPT ![c].buff = @ \o FromFile(store[files'[key]][key], o, l),
                                   ![c].at = IF l < length THEN "read" ELSE "done"]
               /\ key \in DOMAIN store[files'[key]]
      <3>1. PICK b : b = cl[c].buff \o FromFile(store[files'[key]][key], o, l)  OBVIOUS
      <3>2. store[files'[key]][key] \in Seq(Byte)  BY <1>1, <1>9, <2>2 DEF StoreInv
      <3>21. FromFile(store[files'[key]][key], o, l) \in Seq(Byte)
        BY <1>7, <3>2, FromFileTypes
      <3>3. b \in Seq(Byte)  BY <1>5, <3>1, <3>21, ConcatProperties
      <3>4. PICK r : r = [cl[c] EXCEPT !.buff = b, !.at = IF l < length THEN "read" ELSE "done"]
        OBVIOUS
      <3>5. /\ r \in [at : Places, seg : Nat, id : Nat, buff : Seq(Byte)]
            /\ r.at \in {"read", "done"}
            /\ r.seg = cl[c].seg /\ r.id = cl[c].id
        BY <1>5, <3>3, <3>4 DEF Places
      <3>6. cl' = [cl EXCEPT ![c] = r]  BY <1>5, <2>2, <3>1, <3>4
      <3>7. Moved(c, r)  BY <3>5, <3>6 DEF Moved
      <3>8. /\ ClientsInv' /\ cl'[c] = r
            /\ \A d \in Clients : d # c => cl'[d] = cl[d]
        BY <1>1, <1>5, <3>5, <3>7, ClientMoves
      <3> QED  BY <1>4, <3>5, <3>8
    <2> QED  BY <1>4, <2>1, <2>2
  <1>11. /\ StoreInv' /\ TasksInv' /\ CopiesInv'
         /\ \A d \in Clients : \A i \in SegmentsOf(d)' : KeyOf(d, i)' \in DOMAIN files'
    BY <1>4, <1>8, <1>10, Growing
  <1>12. IdsInv'  BY <1>1, <1>8, <1>10 DEF IdsInv
  <1>13. \A d \in Clients : cl'[d].at = "send" => KeyOf(d, cl[d].seg)' \in DOMAIN files'
    BY <1>1, <1>8, <1>10 DEF PlacesInv, KeyOf
  <1>14. RingReady'  BY <1>4 DEF ringVars, RingReady, Ring!Settled, Ring!Idle
  <1>15. PlacesInv'  BY <1>4, <1>8, <1>11, <1>13, <1>14 DEF PlacesInv
  <1> QED  BY <1>10, <1>11, <1>12, <1>15 DEF CopyInv

\* CopyInv holds when nothing is uploaded.
LEMMA CopyStart ==
    ASSUME Init
    PROVE  CopyInv /\ Known
  <1>1. /\ srvs = <<>> /\ nsAt = [s \in Servers |-> "off"]
        /\ idmap = <<>> /\ files = <<>> /\ tasks = {}
        /\ store = [s \in Servers |-> <<>>]
        /\ cl = [c \in Clients |-> [at |-> "locate", seg |-> 0, id |-> 0, buff |-> <<>>]]
    BY DEF Init, Ring!Init
  <1>2. DOMAIN idmap = {} /\ DOMAIN files = {}  BY <1>1
  <1>3. ClientsInv
    <2>1. <<>> \in Seq(Byte)  OBVIOUS
    <2>2. [at |-> "locate", seg |-> 0, id |-> 0, buff |-> <<>>]
             \in [at : Places, seg : Nat, id : Nat, buff : Seq(Byte)]
      BY <2>1 DEF Places
    <2>3. \A c \in Clients : cl[c].at = "locate" /\ cl[c].seg = 0 /\ 0 <= LastSegment(c)
      BY <1>1, LastOfEmpty
    <2> QED  BY <1>1, <2>2, <2>3 DEF ClientsInv
  <1>4. IdsInv  BY <1>1, <1>2, FS_EmptySet DEF IdsInv, IdsApart
  <1>5. \A c \in Clients : SegmentsOf(c) = {}  BY <1>1 DEF SegmentsOf
  <1>6. PlacesInv  BY <1>1, <1>2, <1>5 DEF PlacesInv
  <1>7. StoreInv
    <2>1. \A s \in Servers : store[s] = <<>>  BY <1>1
    <2>2. <<>> \in [DOMAIN <<>> -> Seq(Byte)]  OBVIOUS
    <2> QED  BY <1>1, <2>1, <2>2 DEF StoreInv
  <1>8. TasksInv  BY <1>1 DEF TasksInv
  <1>9. CopiesInv  BY <1>5 DEF CopiesInv
  <1>10. Known  BY <1>1 DEF Known
  <1> QED  BY <1>3, <1>4, <1>6, <1>7, <1>8, <1>9, <1>10 DEF CopyInv

\* Before the ring is ready there is nothing to copy.
LEMMA RingStepKeeps ==
    ASSUME CopyBase, NEW s \in Servers, RingStep(s)
    PROVE  CopyInv'
  <1>1. /\ ClientsInv /\ IdsInv /\ PlacesInv /\ StoreInv /\ TasksInv /\ CopiesInv
    BY DEF CopyBase, CopyInv
  <1>2. ~RingReady  BY RingRests
  <1>3. DOMAIN files = {} /\ tasks = {}  BY <1>1, <1>2 DEF PlacesInv
  <1>4. /\ files' = files /\ idmap' = idmap /\ tasks' = tasks /\ store' = store /\ cl' = cl
    BY DEF RingStep, nsVars
  <1>5. \A c \in Clients : SegmentsOf(c) = {} /\ SegmentsOf(c)' = {}
    <2>1. \A c \in Clients : SegmentsOf(c) = {}  BY <1>1, <1>3 DEF PlacesInv
    <2> QED  BY <1>4, <2>1 DEF SegmentsOf
  <1>6. ClientsInv'  BY <1>1, <1>4 DEF ClientsInv, LastSegment
  <1>7. IdsInv'  BY <1>1, <1>4 DEF IdsInv, IdsApart
  <1>8. PlacesInv'  BY <1>1, <1>3, <1>4, <1>5 DEF PlacesInv, KeyOf
  <1>9. StoreInv'  BY <1>1, <1>4 DEF StoreInv
  <1>10. TasksInv'  BY <1>3, <1>4 DEF TasksInv
  <1>11. CopiesInv'  BY <1>5 DEF CopiesInv
  <1> QED  BY <1>6, <1>7, <1>8, <1>9, <1>10, <1>11 DEF CopyInv

\* When nothing happens CopyInv stays.
LEMMA IdleKeeps ==
    ASSUME CopyBase, UNCHANGED vars
    PROVE  CopyInv'
  <1>1. /\ ClientsInv /\ IdsInv /\ PlacesInv /\ StoreInv /\ TasksInv /\ CopiesInv
    BY DEF CopyBase, CopyInv
  <1>2. /\ UNCHANGED <<ringVars, tasks, store>>
        /\ srvs' = srvs /\ files' = files /\ idmap' = idmap /\ cl' = cl
    BY DEF vars, ringVars, nsVars
  <1>3. /\ StoreInv' /\ TasksInv' /\ CopiesInv'
        /\ \A c \in Clients : \A i \in SegmentsOf(c)' : KeyOf(c, i)' \in DOMAIN files'
        /\ DOMAIN files # {} \/ tasks # {} => RingReady'
    BY <1>2, Growing
  <1>4. ClientsInv'  BY <1>1, <1>2 DEF ClientsInv, LastSegment
  <1>5. IdsInv'  BY <1>1, <1>2 DEF IdsInv, IdsApart
  <1>6. PlacesInv'  BY <1>1, <1>2, <1>3 DEF PlacesInv, KeyOf
  <1> QED  BY <1>3, <1>4, <1>5, <1>6 DEF CopyInv

\* Every step keeps CopyInv.
LEMMA CopyStep ==
    ASSUME CopyBase, [AnyNext]_vars
    PROVE  CopyInv'
  <1>1. CASE \E s \in Servers : RingStep(s)  BY <1>1, RingStepKeeps
  <1>2. CASE \E c \in Clients : ClientStep(c)
    BY <1>2, LocateKeeps, UploadKeeps, StartKeeps, ReadKeeps DEF ClientStep
  <1>3. CASE \E t \in tasks : TaskStep(t)
    BY <1>3, OpenKeeps, WriteKeeps, DeliverKeeps, DeliveredKeeps, AgainKeeps, EndKeeps DEF TaskStep
  <1>4. CASE UNCHANGED vars  BY <1>4, IdleKeeps
  <1> QED
    BY <1>1, <1>2, <1>3, <1>4 DEF AnyNext, Next, PatientNext, PatientStep

\* Every step keeps Known.
LEMMA KnownStep ==
    ASSUME Ring!TypeOK, Known, [AnyNext]_vars
    PROVE  Known'
  <1>1. CASE UNCHANGED <<srvs, nsAt>>  BY <1>1 DEF Known
  <1>2. CASE \E s \in Servers : RingStep(s)
    <2>1. PICK s \in Servers : RingStep(s)  BY <1>2
    <2>2. nsAt \in [Servers -> {"off", "push", "new", "front", "first", "done"}] /\ srvs \in Seq(Servers)
      BY DEF Ring!TypeOK
    <2>3. CASE Ring!Register(s)
      BY <2>2, <2>3 DEF Ring!Register, Ring!Goto, Known
    <2>4. CASE Ring!PushBack(s)
      <3>1. srvs' = Append(srvs, s) /\ nsAt' = [nsAt EXCEPT ![s] = "new"]
        BY <2>4 DEF Ring!PushBack, Ring!Pushed, Ring!Goto
      <3>2. /\ Len(srvs') = Len(srvs) + 1 /\ Len(srvs) \in Nat
            /\ \A i \in 1..Len(srvs) : srvs'[i] = srvs[i]
            /\ srvs'[Len(srvs) + 1] = s
        BY <2>2, <3>1
      <3>3. \A i \in 1..Len(srvs) : i \in 1..Len(srvs')  BY <3>2
      <3>4. Len(srvs) + 1 \in 1..Len(srvs')  BY <3>2
      <3> SUFFICES ASSUME NEW r \in Servers, nsAt'[r] \in {"new", "front", "first", "done"}
                   PROVE  \E i \in 1..Len(srvs') : srvs'[i] = r
        BY DEF Known
      <3>5. CASE r = s  BY <3>2, <3>4, <3>5
      <3>6. CASE r # s
        <4>1. PICK i \in 1..Len(srvs) : srvs[i] = r  BY <2>2, <3>1, <3>6 DEF Known
        <4> QED  BY <3>2, <3>3, <4>1
      <3> QED  BY <3>5, <3>6
    <2>5. CASE Ring!TellNew(s) \/ Ring!TellFront(s) \/ Ring!TellFirst(s)
      <3>1. /\ srvs' = srvs /\ nsAt[s] \in {"new", "front", "first"}
            /\ \E place : nsAt' = [nsAt EXCEPT ![s] = place]
        BY <2>5 DEF Ring!TellNew, Ring!TellFront, Ring!TellFirst, Ring!Goto
      <3> QED  BY <2>2, <3>1 DEF Known
    <2>6. CASE Ring!UpdateMyNeighbors(s)
      BY <1>1, <2>6 DEF Ring!UpdateMyNeighbors
    <2> QED  BY <2>1, <2>3, <2>4, <2>5, <2>6 DEF RingStep, Ring!DSRegister
  <1>3. CASE \E c \in Clients : ClientStep(c)
    BY <1>1, <1>3 DEF ClientStep, LocateUpload, UploadSegment, StartRead, ReadSegment, ringVars
  <1>4. CASE \E t \in tasks : TaskStep(t)
    BY <1>1, <1>4 DEF TaskStep, OpenSegment, WriteSegment, DeliverToNeighbor, Delivered,
                      StoreAgain, EndThread, ringVars
  <1>5. CASE UNCHANGED vars  BY <1>1, <1>5 DEF vars, ringVars
  <1> QED
    BY <1>2, <1>3, <1>4, <1>5 DEF AnyNext, Next, PatientNext, PatientStep

\* CopyBase holds in every reachable state, whether clients wait or not.
LEMMA BaseHolds ==
    ASSUME TwoServers
    PROVE  (Spec => []CopyBase) /\ (PatientSpec => []CopyBase)
  <1>1. NoServer \notin Servers  BY DFSAssumption
  <1>2. Proven!SerialSpec => []Proven!TypeOK  BY <1>1, Proven!RingTypes
  <1>3. Init => Proven!Init  BY DEF Init, Ring!Init, Proven!Init
  <1>4. Proven!TypeOK => Ring!TypeOK
    BY DEF Ring!TypeOK, Proven!TypeOK, Ring!Info, Proven!Info
  <1>5. [Next]_vars => [AnyNext]_vars  BY DEF AnyNext
  <1>6. [PatientNext]_vars => [AnyNext]_vars  BY DEF AnyNext
  <1>7. [AnyNext]_vars => [Proven!SerialNext]_(Proven!vars)  BY RingOnly
  <1>8. Init => CopyInv /\ Known  BY CopyStart
  <1>9. Init => TurnInv
    <2>1. ASSUME Init PROVE DOMAIN files = {} /\ srvs = <<>> /\ currentSvr = 0
      BY <2>1 DEF Init, Ring!Init
    <2> QED  BY <2>1, FS_EmptySet DEF TurnInv
  <1>10. TurnInv /\ [AnyNext]_vars => TurnInv'  BY TurnKeeps
  <1>11. Ring!TypeOK /\ Known /\ [AnyNext]_vars => Known'  BY KnownStep
  <1>12. TurnInv /\ Ring!TypeOK /\ RingClosed /\ Known /\ CopyInv /\ [AnyNext]_vars => CopyInv'
    BY CopyStep DEF CopyBase, Base
  <1>13. TurnInv /\ Ring!TypeOK /\ RingClosed /\ Known /\ CopyInv => CopyBase
    BY DEF CopyBase, Base
  <1>14. Spec => []Ring!TypeOK
    BY <1>2, <1>3, <1>4, <1>5, <1>7, PTL DEF Spec, Proven!SerialSpec
  <1>15. PatientSpec => []Ring!TypeOK
    BY <1>2, <1>3, <1>4, <1>6, <1>7, PTL DEF PatientSpec, Proven!SerialSpec
  <1>16. (Spec => []RingClosed) /\ (PatientSpec => []RingClosed)  BY MiniRingCloses
  <1>17. Spec => []CopyBase
    BY <1>5, <1>8, <1>9, <1>10, <1>11, <1>12, <1>13, <1>14, <1>16, PTL DEF Spec
  <1>18. PatientSpec => []CopyBase
    BY <1>6, <1>8, <1>9, <1>10, <1>11, <1>12, <1>13, <1>15, <1>16, PTL DEF PatientSpec
  <1> QED  BY <1>17, <1>18

\* With two data servers or more, once nothing is on its way every segment that
\* was uploaded is on the server the name server names and on both its
\* neighbours, byte for byte, whatever was stored at the same time.
THEOREM MiniThreeCopies ==
    ASSUME TwoServers
    PROVE  (Spec => []ThreeCopies) /\ (PatientSpec => []ThreeCopies)
  <1>1. CopyBase => ThreeCopies
    <2> SUFFICES ASSUME CopyBase, Quiet, NEW c \in Clients, NEW i \in 0..(cl[c].seg - 1)
                 PROVE  LET key == <<cl[c].id, i>> IN
                        \A s \in {files[key], front[files[key]], behind[files[key]]} :
                            key \in DOMAIN store[s] /\ store[s][key] = SegmentData(c, i)
      BY DEF ThreeCopies
    <2>1. PICK k : k = <<cl[c].id, i>>  OBVIOUS
    <2>2. i \in SegmentsOf(c) /\ k = KeyOf(c, i)  BY <2>1 DEF SegmentsOf, KeyOf, Key
    <2>3. Copying(k, SegmentData(c, i))  BY <2>2 DEF CopyBase, CopyInv, CopiesInv
    <2>4. \A t \in tasks : t.role # "primary"
      BY DEF Quiet, CopyBase, CopyInv, TasksInv, Meant
    <2>5. Copied(k, SegmentData(c, i))  BY <2>3, <2>4 DEF Copying
    <2> QED  BY <2>1, <2>5 DEF Copied, Stored
  <1>2. (Spec => []CopyBase) /\ (PatientSpec => []CopyBase)  BY BaseHolds
  <1> QED  BY <1>1, <1>2, PTL

\* No client's segment gets a thread of its server but by its upload.
LEMMA PrimariesStay ==
    ASSUME CopyBase, NEW t \in tasks, TaskStep(t), NEW u \in tasks', u.role = "primary"
    PROVE  \E v \in tasks : v.role = "primary" /\ v.seg = u.seg
  <1>1. t \in Threads  BY ThreadFacts
  <1>2. CASE OpenSegment(t) \/ WriteSegment(t)
    <2>1. PICK place : tasks' = (tasks \ {t}) \cup {[t EXCEPT !.at = place]}
      BY <1>2 DEF OpenSegment, WriteSegment, Becomes
    <2>2. u \in tasks \/ u = [t EXCEPT !.at = place]  BY <2>1
    <2> QED  BY <1>1, <2>2 DEF Threads
  <1>3. CASE DeliverToNeighbor(t)
    <2>1. t.role = "primary" /\ t.at \in {"front", "behind"}  BY <1>3 DEF DeliverToNeighbor
    <2>2. PICK place, n :
             tasks' \subseteq tasks \cup {[t EXCEPT !.at = place],
                                          [t EXCEPT !.ds = n, !.role = t.at, !.at = "open"]}
      BY <1>3 DEF DeliverToNeighbor, Becomes
    <2>3. u \in tasks \/ u = [t EXCEPT !.at = place]
      BY <1>1, <2>1, <2>2 DEF Threads
    <2> QED  BY <1>1, <2>3 DEF Threads
  <1>4. CASE Delivered(t)
    <2>0. PICK place : \E r \in tasks :
             tasks' \subseteq tasks \cup {[t EXCEPT !.at = place], [r EXCEPT !.at = "again"]}
      BY <1>4 DEF Delivered
    <2>1. PICK r \in tasks :
             tasks' \subseteq tasks \cup {[t EXCEPT !.at = place], [r EXCEPT !.at = "again"]}
      BY <2>0
    <2>2. r \in Threads  BY ThreadFacts
    <2>3. u \in tasks \/ u = [t EXCEPT !.at = place] \/ u = [r EXCEPT !.at = "again"]  BY <2>1
    <2> QED  BY <1>1, <2>2, <2>3 DEF Threads
  <1>5. CASE StoreAgain(t) \/ EndThread(t)
    BY <1>5 DEF StoreAgain, EndThread
  <1> QED  BY <1>2, <1>3, <1>4, <1>5 DEF TaskStep

\* A client that does not move has read what it has read.
LEMMA StillReads ==
    ASSUME NEW c \in Clients, Reads(c), cl'[c] = cl[c],
           \A u \in tasks' : u.role = "primary" =>
               \/ \E v \in tasks : v.role = "primary" /\ v.seg = u.seg
               \/ cl[c].at \in {"read", "done"} => \A i \in SegmentsOf(c) : u.seg # KeyOf(c, i)
    PROVE  Reads(c)'
  <1>1. SegmentsOf(c)' = SegmentsOf(c) /\ \A i : KeyOf(c, i)' = KeyOf(c, i)
    BY DEF SegmentsOf, KeyOf
  <1>2. ASSUME cl[c].at \in {"read", "done"}, NEW i \in SegmentsOf(c), NEW u \in tasks',
               u.seg = KeyOf(c, i)
        PROVE  u.role # "primary"
    BY <1>2 DEF Reads
  <1>3. \A n : Prefix(c, n)' = Prefix(c, n)  BY DEF Prefix
  <1> QED  BY <1>1, <1>2, <1>3 DEF Reads

\* The steps of data servers' threads keep ReadInv.
LEMMA TaskReads ==
    ASSUME CopyBase, ReadInv, NEW t \in tasks, TaskStep(t)
    PROVE  ReadInv'
  <1>1. cl' = cl /\ down' = down
    BY DEF TaskStep, OpenSegment, WriteSegment, DeliverToNeighbor, Delivered, StoreAgain, EndThread
  <1>2. \A u \in tasks' : u.role = "primary" => \E v \in tasks : v.role = "primary" /\ v.seg = u.seg
    BY PrimariesStay
  <1>3. \A c \in Clients : Reads(c)'  BY <1>1, <1>2, StillReads DEF ReadInv
  <1> QED  BY <1>1, <1>3 DEF ReadInv

\* The steps of uploads keep ReadInv.
LEMMA UploadReads ==
    ASSUME CopyBase, ReadInv, NEW c \in Clients, LocateUpload(c) \/ UploadSegment(c)
    PROVE  ReadInv'
  <1>1. ClientsInv /\ IdsInv  BY DEF CopyBase, CopyInv
  <1>2. /\ cl[c] \in [at : Places, seg : Nat, id : Nat, buff : Seq(Byte)]
        /\ cl \in [Clients -> [at : Places, seg : Nat, id : Nat, buff : Seq(Byte)]]
    BY <1>1 DEF ClientsInv
  <1>3. cl[c].at \in {"locate", "send"} /\ down' = down
    BY DEF LocateUpload, UploadSegment
  <1>4. /\ \A d \in Clients : d # c => cl'[d] = cl[d]
        /\ cl'[c].at \in {"locate", "send", "uploaded"} /\ cl'[c].buff = cl[c].buff
    <2>1. CASE LocateUpload(c)
      <3>1. \/ cl' = [cl EXCEPT ![c].at = "uploaded"]
            \/ \E i : cl' = [cl EXCEPT ![c].at = "send", ![c].id = i]
        BY <2>1 DEF LocateUpload
      <3> QED  BY <1>2, <3>1
    <2>2. CASE UploadSegment(c)
      <3>1. \E i : \E place \in {"locate", "uploaded"} : cl' = [cl EXCEPT ![c].seg = i, ![c].at = place]
        BY <2>2 DEF UploadSegment
      <3> QED  BY <1>2, <3>1
    <2> QED  BY <2>1, <2>2
  <1>5. Reads(c)'
    <2>1. cl[c].buff = <<>>  BY <1>3 DEF ReadInv, Reads
    <2> QED  BY <1>4, <2>1 DEF Reads
  <1>6. ASSUME NEW d \in Clients, d # c PROVE Reads(d)'
    <2>1. ASSUME NEW u \in tasks', u.role = "primary", cl[d].at \in {"read", "done"},
                 NEW i \in SegmentsOf(d), u.seg = KeyOf(d, i)
          PROVE  u \in tasks
      <3>1. CASE LocateUpload(c)  BY <3>1 DEF LocateUpload
      <3>2. CASE UploadSegment(c)
        <4>1. u \in tasks \/ u.seg = KeyOf(c, cl[c].seg)  BY <3>2 DEF UploadSegment, KeyOf
        <4>2. cl[d].seg > 0 /\ cl[c].at = "send"
          BY <1>1, <2>1, <3>2 DEF ClientsInv, SegmentsOf, UploadSegment
        <4> QED  BY <1>1, <1>6, <2>1, <4>1, <4>2, KeysDiffer
      <3> QED  BY <3>1, <3>2
    <2>2. Reads(d) /\ cl'[d] = cl[d]  BY <1>4, <1>6 DEF ReadInv
    <2> QED  BY <2>1, <2>2, StillReads
  <1> QED  BY <1>3, <1>5, <1>6 DEF ReadInv

\* Who waits until nothing is on its way finds no thread at work on its segments.
LEMMA StartReads ==
    ASSUME CopyBase, ReadInv, NEW c \in Clients, StartRead(c), Quiet
    PROVE  ReadInv'
  <1>1. /\ cl[c].at = "uploaded" /\ down' = down /\ tasks' = tasks
        /\ cl' = [cl EXCEPT ![c].at = IF FileLen[c] > 0 THEN "read" ELSE "done"]
    BY DEF StartRead
  <1>2. cl \in [Clients -> [at : Places, seg : Nat, id : Nat, buff : Seq(Byte)]]
    BY DEF CopyBase, CopyInv, ClientsInv
  <1>3. /\ \A d \in Clients : d # c => cl'[d] = cl[d]
        /\ cl'[c].at = IF FileLen[c] > 0 THEN "read" ELSE "done"
        /\ cl'[c].buff = cl[c].buff
    BY <1>1, <1>2
  <1>4. \A t \in tasks : t.role # "primary"
    BY DEF Quiet, CopyBase, CopyInv, TasksInv, Meant
  <1>5. cl[c].buff = <<>>  BY <1>1 DEF ReadInv, Reads
  <1>6. \A n : n = 0 => <<>> = Prefix(c, n)  BY DEF Prefix
  <1>7. Reads(c)'
    <2>1. \A n : Prefix(c, n)' = Prefix(c, n)  BY DEF Prefix
    <2>2. FileLen[c] \in Nat /\ SEG_SIZE \in Nat  BY DFSAssumption
    <2>3. 0 \in Nat /\ 0 * SEG_SIZE = 0  BY <2>2
    <2>4. CASE FileLen[c] > 0
      <3>1. <<>> = Prefix(c, 0 * SEG_SIZE)  BY <1>6, <2>3
      <3>2. 0 * SEG_SIZE < FileLen[c]  BY <2>3, <2>4
      <3>3. \E j \in Nat : j * SEG_SIZE < FileLen[c] /\ <<>> = Prefix(c, j * SEG_SIZE)
        BY <2>3, <3>1, <3>2
      <3> QED  BY <1>1, <1>3, <1>4, <1>5, <2>1, <2>4, <3>3 DEF Reads
    <2>5. CASE FileLen[c] = 0
      <3>1. <<>> = Prefix(c, FileLen[c])  BY <1>6, <2>5
      <3>2. cl'[c].at = "done"  BY <1>3, <2>5
      <3> QED  BY <1>1, <1>3, <1>4, <1>5, <2>1, <3>1, <3>2 DEF Reads
    <2> QED  BY <2>2, <2>4, <2>5
  <1>8. \A d \in Clients : d # c => Reads(d)'
    BY <1>1, <1>3, <1>4, StillReads DEF ReadInv
  <1> QED  BY <1>1, <1>7, <1>8 DEF ReadInv

\* A multiple of n, divided by n.
LEMMA DivMultiple ==
    ASSUME NEW n \in Nat \ {0}, NEW j \in Nat
    PROVE  (j * n) % n = 0 /\ (j * n) \div n = j
  <1>1. j * n \in Nat /\ j * n = n * j + 0  BY Z3
  <1>2. (n * j + 0) % n = 0  BY ModUnique
  <1>3. PICK q \in Int : j * n = n * q + 0 /\ q = (j * n) \div n
    BY <1>1, <1>2, DivMod
  <1>4. n * (q - j) = 0  BY <1>3, Z3
  <1>5. q - j = 0  BY <1>3, <1>4, Z3
  <1> QED  BY <1>1, <1>2, <1>3, <1>5

\* The first n bytes of a file, in number and by position.
LEMMA PrefixTypes ==
    ASSUME NEW c \in Clients, NEW n \in Nat
    PROVE  /\ Prefix(c, n) \in Seq(Byte) /\ Len(Prefix(c, n)) = n
           /\ \A p \in 1..n : Prefix(c, n)[p] = <<c, p>>
  <1>1. \A p \in 1..n : <<c, p>> \in Byte  BY DEF Byte
  <1>2. Prefix(c, n) \in [1..n -> Byte]  BY <1>1 DEF Prefix
  <1> QED  BY <1>2 DEF Prefix

\* The next bytes of a file continue what is there.
LEMMA PrefixGoesOn ==
    ASSUME NEW c \in Clients, NEW n \in Nat, NEW l \in Nat, NEW s \in Seq(Byte), Len(s) = l,
           \A p \in 1..l : s[p] = <<c, n + p>>
    PROVE  Prefix(c, n) \o s = Prefix(c, n + l)
  <1>1. /\ Prefix(c, n) \in Seq(Byte) /\ Len(Prefix(c, n)) = n
        /\ \A p \in 1..n : Prefix(c, n)[p] = <<c, p>>
    BY PrefixTypes
  <1>2. n + l \in Nat  OBVIOUS
  <1>3. /\ Prefix(c, n + l) \in Seq(Byte) /\ Len(Prefix(c, n + l)) = n + l
        /\ \A p \in 1..(n + l) : Prefix(c, n + l)[p] = <<c, p>>
    BY <1>2, PrefixTypes
  <1>4. /\ Prefix(c, n) \o s \in Seq(Byte)
        /\ Len(Prefix(c, n) \o s) = n + l
        /\ \A p \in 1..(n + l) : (Prefix(c, n) \o s)[p] =
                IF p <= n THEN Prefix(c, n)[p] ELSE s[p - n]
    BY <1>1, ConcatProperties
  <1>5. ASSUME NEW p \in 1..(n + l) PROVE (Prefix(c, n) \o s)[p] = Prefix(c, n + l)[p]
    <2>1. CASE p <= n
      <3>1. p \in 1..n  BY <2>1
      <3> QED  BY <1>1, <1>3, <1>4, <2>1, <3>1
    <2>2. CASE ~(p <= n)
      <3>1. p - n \in 1..l /\ n + (p - n) = p  BY <2>2
      <3>2. s[p - n] = <<c, p>>  BY <3>1
      <3> QED  BY <1>3, <1>4, <2>2, <3>2
    <2> QED  BY <2>1, <2>2
  <1> QED  BY <1>3, <1>4, <1>5, SeqEqual

\* One turn of Read's loop gets the next segment of the file, or the rest of it.
LEMMA ReadReads ==
    ASSUME CopyBase, RingReady, ReadInv, NEW c \in Clients, ReadSegment(c)
    PROVE  ReadInv'
  <1>1. /\ ClientsInv /\ IdsInv /\ IdsApart /\ PlacesInv /\ CopiesInv /\ TwoServers /\ Base /\ TurnInv
    BY DEF CopyBase, CopyInv, IdsInv, Base
  <1>2. PICK S \in Nat \ {0} : S = SEG_SIZE  BY DFSAssumption
  <1>3. PICK L \in Nat : L = FileLen[c]  BY DFSAssumption
  <1>4. cl[c].at = "read"  BY DEF ReadSegment
  <1>5. /\ cl[c].seg = LastSegment(c) + 1 /\ LastSegment(c) \in Nat /\ L > 0
        /\ cl \in [Clients -> [at : Places, seg : Nat, id : Nat, buff : Seq(Byte)]]
    BY <1>1, <1>3, <1>4, LastOfEmpty DEF ClientsInv
  <1>6. PICK j \in Nat : j * SEG_SIZE < FileLen[c] /\ cl[c].buff = Prefix(c, j * SEG_SIZE)
    BY <1>4 DEF ReadInv, Reads
  <1>7. PICK n \in Nat : n = j * S  OBVIOUS
  <1>8. n < L /\ cl[c].buff = Prefix(c, n) /\ Len(cl[c].buff) = n
    BY <1>2, <1>3, <1>6, <1>7, PrefixTypes
  <1>9. n % S = 0 /\ n \div S = j  BY <1>7, DivMultiple
  <1>10. j <= LastSegment(c)
    <2>1. j * S <= L  BY <1>7, <1>8
    <2> QED  BY <1>2, <1>3, <2>1, BelowMultiple DEF LastSegment
  <1>11. j \in SegmentsOf(c)  BY <1>5, <1>10 DEF SegmentsOf
  <1>12. PICK k, d : k = KeyOf(c, j) /\ d = SegmentData(c, j)  OBVIOUS
  <1>130. L - n \in Nat /\ S \in Nat  BY <1>8
  <1>131. Smaller(L - n, S) \in Nat  BY <1>130 DEF Smaller
  <1>13. PICK l \in Nat : l = Smaller(L - n, S)  BY <1>131
  <1>14. l > 0 /\ n + l <= L /\ (l < L - n => l = S) /\ (~(l < L - n) => l = L - n)
    BY <1>2, <1>8, <1>13 DEF Smaller
  <1>15. d \in Seq(Byte) /\ Len(d) = l /\ \A p \in 1..l : d[p] = <<c, n + p>>
    <2>1. Smaller(S, L - n) = l  BY <1>8, <1>13 DEF Smaller
    <2>2. /\ SegmentData(c, j) \in Seq(Byte)
          /\ Len(SegmentData(c, j)) = Smaller(SEG_SIZE, FileLen[c] - j * SEG_SIZE)
          /\ \A p \in 1..Smaller(SEG_SIZE, FileLen[c] - j * SEG_SIZE) :
                 SegmentData(c, j)[p] = <<c, j * SEG_SIZE + p>>
      BY <1>10, SegmentTypes
    <2> QED  BY <1>2, <1>3, <1>7, <1>12, <2>1, <2>2
  <1>16. k \in DOMAIN files /\ Stored(files[k], k, d)
    <2>1. Copying(k, d) /\ k \in DOMAIN files  BY <1>1, <1>11, <1>12 DEF CopiesInv, PlacesInv
    <2>2. \A t \in tasks : t.seg = k => t.role # "primary"
      BY <1>4, <1>11, <1>12 DEF ReadInv, Reads
    <2> QED  BY <2>1, <2>2 DEF Copying, Copied
  <1>17. /\ FindSegment(FALSE, c, cl[c].id, j)
         /\ UNCHANGED <<ringVars, tasks, store>> /\ srvs' = srvs /\ tasks' = tasks
         /\ IF k \notin DOMAIN store[files'[k]] THEN down' = TRUE
            ELSE /\ cl' = [cl EXCEPT ![c].buff = @ \o FromFile(store[files'[k]][k], 0, l),
                                     ![c].at = IF l < L - n THEN "read" ELSE "done"]
                 /\ down' = down
    <2>1. PICK offset, length, o, segno, m, key :
            /\ offset = Len(cl[c].buff) /\ length = FileLen[c] - offset
            /\ o = offset % SEG_SIZE /\ segno = offset \div SEG_SIZE
            /\ m = Smaller(length - o, SEG_SIZE - o)
            /\ key = Key(cl[c].id, segno)
      OBVIOUS
    <2>2. offset = n /\ length = L - n  BY <1>3, <1>8, <2>1
    <2>3. o = 0 /\ segno = j  BY <1>2, <1>9, <2>1, <2>2
    <2>4. m = l  BY <1>2, <1>13, <2>1, <2>2, <2>3
    <2>5. key = k  BY <1>12, <2>1, <2>3 DEF KeyOf
    <2>6. /\ FindSegment(FALSE, c, cl[c].id, segno)
          /\ UNCHANGED <<ringVars, tasks, store>> /\ srvs' = srvs /\ tasks' = tasks
          /\ IF key \notin DOMAIN store[files'[key]] THEN down' = TRUE
             ELSE /\ cl' = [cl EXCEPT ![c].buff = @ \o FromFile(store[files'[key]][key], o, m),
                                      ![c].at = IF m < length THEN "read" ELSE "done"]
                  /\ down' = down
      BY <2>1 DEF ReadSegment, ringVars
    <2> QED  BY <2>2, <2>3, <2>4, <2>5, <2>6
  <1>18. files'[k] = files[k]  BY <1>1, <1>16, <1>17, Located
  <1>19. store[files'[k]][k] = d /\ k \in DOMAIN store[files'[k]]  BY <1>16, <1>18 DEF Stored
  <1>20. FromFile(d, 0, l) = d
    <2>1. \A p \in 1..l : 0 + p = p /\ p <= Len(d)  BY <1>15
    <2>2. FromFile(d, 0, l) = [p \in 1..l |-> d[p]]  BY <2>1 DEF FromFile
    <2>3. d = [p \in 1..l |-> d[p]]  BY <1>15
    <2> QED  BY <2>2, <2>3
  <1>21. /\ cl' = [cl EXCEPT ![c].buff = @ \o d, ![c].at = IF l < L - n THEN "read" ELSE "done"]
         /\ down' = down
    BY <1>17, <1>19, <1>20
  <1>22. Prefix(c, n) \o d = Prefix(c, n + l)  BY <1>15, PrefixGoesOn
  <1>23. /\ \A b \in Clients : b # c => cl'[b] = cl[b]
         /\ cl'[c].at = IF l < L - n THEN "read" ELSE "done"
         /\ cl'[c].buff = Prefix(c, n + l)
         /\ cl'[c].seg = cl[c].seg /\ cl'[c].id = cl[c].id
    BY <1>5, <1>8, <1>21, <1>22
  <1>24. Reads(c)'
    <2>1. \A m : Prefix(c, m)' = Prefix(c, m)  BY DEF Prefix
    <2>2. SegmentsOf(c)' = SegmentsOf(c) /\ \A i : KeyOf(c, i)' = KeyOf(c, i)
      BY <1>23 DEF SegmentsOf, KeyOf
    <2>3. \A i \in SegmentsOf(c) : \A t \in tasks : t.seg = KeyOf(c, i) => t.role # "primary"
      BY <1>4 DEF ReadInv, Reads
    <2>4. CASE l < L - n
      <3>1. (j + 1) * S = n + l /\ n + l < L /\ j + 1 \in Nat
        <4>1. (j + 1) * S = j * S + S  BY Z3
        <4> QED  BY <1>7, <1>14, <2>4, <4>1
      <3>2. (j + 1) * SEG_SIZE < FileLen[c] /\ Prefix(c, n + l) = Prefix(c, (j + 1) * SEG_SIZE)
        BY <1>2, <1>3, <3>1
      <3>3. \E i \in Nat : i * SEG_SIZE < FileLen[c] /\ Prefix(c, n + l) = Prefix(c, i * SEG_SIZE)
        BY <3>1, <3>2
      <3> QED  BY <1>17, <1>23, <2>1, <2>2, <2>3, <2>4, <3>3 DEF Reads
    <2>5. CASE ~(l < L - n)
      <3>1. n + l = L  BY <1>8, <1>14, <2>5
      <3>2. Prefix(c, n + l) = Prefix(c, FileLen[c])  BY <1>3, <3>1
      <3> QED  BY <1>17, <1>23, <2>1, <2>2, <2>3, <2>5, <3>2 DEF Reads
    <2> QED  BY <2>4, <2>5
  <1>25. \A b \in Clients : b # c => Reads(b)'
    BY <1>17, <1>23, StillReads DEF ReadInv
  <1> QED  BY <1>21, <1>24, <1>25 DEF ReadInv

\* Every step of patient clients keeps ReadInv.
LEMMA ReadStep ==
    ASSUME CopyBase, ReadInv, [PatientNext]_vars
    PROVE  ReadInv'
  <1>1. CASE \E s \in Servers : RingStep(s)
    <2>1. cl' = cl /\ down' = down /\ tasks' = tasks  BY <1>1 DEF RingStep
    <2> QED  BY <2>1, StillReads DEF ReadInv
  <1>2. CASE \E c \in Clients : PatientStep(c)
    <2>1. PICK c \in Clients : PatientStep(c)  BY <1>2
    <2>2. CASE LocateUpload(c) \/ UploadSegment(c)  BY <2>2, UploadReads
    <2>3. CASE StartRead(c)
      <3>1. Quiet  BY <2>1, <2>3 DEF PatientStep, StartRead
      <3> QED  BY <2>3, <3>1, StartReads
    <2>4. CASE ReadSegment(c)
      <3>1. RingReady  BY <2>1 DEF PatientStep, ClientStep
      <3> QED  BY <2>4, <3>1, ReadReads
    <2> QED  BY <2>1, <2>2, <2>3, <2>4 DEF PatientStep, ClientStep
  <1>3. CASE \E t \in tasks : TaskStep(t)  BY <1>3, TaskReads
  <1>4. CASE UNCHANGED vars
    <2>1. cl' = cl /\ down' = down /\ tasks' = tasks  BY <1>4 DEF vars
    <2> QED  BY <2>1, StillReads DEF ReadInv
  <1> QED  BY <1>1, <1>2, <1>3, <1>4 DEF PatientNext

\* A client that waits until everything is stored reads back the file that it
\* uploaded, byte for byte, whatever the length of the file and of a segment, and
\* no data server ends the program.
THEOREM MiniReadBack ==
    ASSUME TwoServers
    PROVE  PatientSpec => []ReadBack
  <1>1. Init => ReadInv
    <2>1. ASSUME Init PROVE down = FALSE /\ \A c \in Clients : cl[c].at = "locate" /\ cl[c].buff = <<>>
      BY <2>1 DEF Init
    <2> QED  BY <2>1 DEF ReadInv, Reads
  <1>2. CopyBase /\ ReadInv /\ [PatientNext]_vars => ReadInv'  BY ReadStep
  <1>3. ReadInv => ReadBack
    <2> SUFFICES ASSUME ReadInv, NEW c \in Clients
                 PROVE  ~down /\ (cl[c].at = "done" => cl[c].buff = Content(c))
      BY DEF ReadBack
    <2> QED  BY DEF ReadInv, Reads, Prefix, Content
  <1>4. PatientSpec => []CopyBase  BY BaseHolds
  <1> QED  BY <1>1, <1>2, <1>3, <1>4, PTL DEF PatientSpec
=============================================================================
