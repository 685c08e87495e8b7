------------------------------- MODULE MiniInv -------------------------------
(***************************************************************************)
(* The inductive invariants of the proofs about the copies of miniDFS:     *)
(* what a thread that stores a segment has done when it is where it is.    *)
(***************************************************************************)
EXTENDS MiniDFS

Byte == {Zero} \cup (Clients \X Nat)

Places == {"locate", "send", "uploaded", "read", "done"}

\* The first n bytes of the file of c.
Prefix(c, n) == [p \in 1..n |-> <<c, p>>]

\* Clients, the segments they have sent, and what they have read.
ClientsInv ==
    /\ cl \in [Clients -> [at : Places, seg : Nat, id : Nat, buff : Seq(Byte)]]
    /\ \A c \in Clients :
          /\ cl[c].at \in {"locate", "send"} => cl[c].seg <= LastSegment(c)
          /\ cl[c].at \in {"send", "read"} => FileLen[c] > 0
          /\ cl[c].at \in {"uploaded", "read", "done"} =>
                cl[c].seg = IF FileLen[c] > 0 THEN LastSegment(c) + 1 ELSE 0

\* File ids are not shared, and a client that has sent something knows its own.
IdsApart ==
    /\ IsFiniteSet(DOMAIN idmap)
    /\ \A f \in DOMAIN idmap : idmap[f] \in Nat /\ idmap[f] < Cardinality(DOMAIN idmap)
    /\ \A f, g \in DOMAIN idmap : idmap[f] = idmap[g] => f = g

IdsInv ==
    /\ IdsApart
    /\ \A c \in Clients : cl[c].at = "send" \/ cl[c].seg > 0 =>
          c \in DOMAIN idmap /\ idmap[c] = cl[c].id

KeyOf(c, i) == Key(cl[c].id, i)
SegmentsOf(c) == 0..(cl[c].seg - 1)

\* The servers that are done registering are in the vector.
Known ==
    \A s \in Servers : nsAt[s] \in {"new", "front", "first", "done"} =>
        \E i \in 1..Len(srvs) : srvs[i] = s

\* The name server knows the segments that were sent, and the one to be sent; it
\* does when the ring is complete.
PlacesInv ==
    /\ \A c \in Clients :
          /\ cl[c].at = "send" => KeyOf(c, cl[c].seg) \in DOMAIN files
          /\ \A i \in SegmentsOf(c) : KeyOf(c, i) \in DOMAIN files
    /\ \A k \in DOMAIN files : \E i \in 1..Len(srvs) : files[k] = srvs[i]
    /\ DOMAIN files # {} \/ tasks # {} => RingReady

\* The thread t stores a segment that was sent, at the server it is meant for.
Meant(t) ==
    /\ \E c \in Clients : \E i \in SegmentsOf(c) :
          t.seg = KeyOf(c, i) /\ t.data = SegmentData(c, i)
    /\ t.role = "primary" => t.ds = files[t.seg]
    /\ t.role = "front" => t.ds = front[files[t.seg]]
    /\ t.role = "behind" => t.ds = behind[files[t.seg]]
    /\ t.role = "primary" =>
          t.at \in {"open", "write", "front", "waitFront", "behind", "waitBehind", "end"}
    /\ t.role # "primary" => t.at \in {"open", "write", "answer", "again"}

Stored(s, k, d) == k \in DOMAIN store[s] /\ store[s][k] = d

Threads == [seg : Nat \X Nat, ds : Servers, role : {"primary", "front", "behind"},
            data : Seq(Byte),
            at : {"open", "write", "front", "waitFront", "behind", "waitBehind", "end",
                  "answer", "again"}]

StoreInv ==
    /\ DOMAIN store = Servers
    /\ \A s \in Servers : store[s] \in [DOMAIN store[s] -> Seq(Byte)]

TasksInv ==
    /\ tasks \subseteq Threads
    /\ \A t \in tasks : Meant(t)
    /\ \A t, u \in tasks : t.seg = u.seg /\ t.role = u.role => t = u
    /\ \A t \in tasks : /\ t.at = "write" => Stored(t.ds, t.seg, <<>>)
                        /\ t.at = "answer" => Stored(t.ds, t.seg, t.data)
                        /\ t.at = "again" => t.data = <<>>

\* How much of the copies of the segment k, which is d, stands while its server's
\* thread t is where it is.
Passing(t, k, d) ==
    /\ t.at \in {"open", "write", "front"} => \A u \in tasks : u.seg = k => u = t
    /\ t.at \notin {"open", "write"} => Stored(files[k], k, d)
    /\ t.at \in {"waitFront", "behind"} =>
          \A u \in tasks : u.seg = k => u.role # "behind"
    /\ t.at \in {"behind", "waitBehind", "end"} =>
          \A u \in tasks : u.seg = k /\ u.role = "front" => u.at = "again"
    /\ t.at \in {"behind", "end"} => Stored(front[files[k]], k, d)
    /\ t.at = "waitBehind" =>
          Stored(front[files[k]], k, d) \/ front[files[k]] = behind[files[k]]
    /\ t.at = "end" =>
          /\ Stored(behind[files[k]], k, d)
          /\ \A u \in tasks : u.seg = k /\ u.role = "behind" => u.at = "again"

\* Once it has ended all copies stand, and who still stores the segment stores no
\* bytes.
Copied(k, d) ==
    /\ \A u \in tasks : u.seg = k => u.at = "again"
    /\ \A s \in {files[k], front[files[k]], behind[files[k]]} : Stored(s, k, d)

Copying(k, d) ==
    /\ \A t \in tasks : t.seg = k /\ t.role = "primary" => Passing(t, k, d)
    /\ (\A t \in tasks : t.seg = k => t.role # "primary") => Copied(k, d)

CopiesInv ==
    \A c \in Clients : \A i \in SegmentsOf(c) : Copying(KeyOf(c, i), SegmentData(c, i))

CopyInv == ClientsInv /\ IdsInv /\ PlacesInv /\ StoreInv /\ TasksInv /\ CopiesInv

\* What a client has read is the start of its file, a number of whole segments or
\* all of it, once it has waited for what it uploaded.
Reads(c) ==
    /\ cl[c].at \in {"locate", "send", "uploaded"} => cl[c].buff = <<>>
    /\ cl[c].at \in {"read", "done"} =>
          \A i \in SegmentsOf(c) : \A t \in tasks : t.seg = KeyOf(c, i) => t.role # "primary"
    /\ cl[c].at = "read" =>
          \E j \in Nat : j * SEG_SIZE < FileLen[c] /\ cl[c].buff = Prefix(c, j * SEG_SIZE)
    /\ cl[c].at = "done" => cl[c].buff = Prefix(c, FileLen[c])

ReadInv == ~down /\ \A c \in Clients : Reads(c)
=============================================================================
