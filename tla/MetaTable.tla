------------------------------ MODULE MetaTable ------------------------------
(***************************************************************************)
(* The name server and its clients implement FileTable.  A lookup takes    *)
(* effect when FindFile unlocks, a deletion when DeleteFile takes the file *)
(* out of idmap.                                                           *)
(***************************************************************************)
EXTENDS MetaDFS

Placed(f) == f \in DOMAIN idmap /\ idmap[f] \in DOMAIN files

PlaceOf(floc) == [fd |-> floc.fd, server |-> floc.server]

\* An id that was taken for a file which has no location yet.
IdPending == \E f \in DOMAIN idmap : ~Placed(f)

\* How many ids were given out with a location.
IdsGiven == IF IdPending THEN fileidcounter - 1 ELSE fileidcounter

AskedFile(u) ==
    IF userAt[u] \in {"wait", "transfer"} /\ command[u] # "cluster"
    THEN request[u].file ELSE NoFile

\* What a user was told is with the thread that found it, on the connection,
\* or with the user.
ToldPlace(u) ==
    LET c == ConnOf[u] IN
    IF AskedFile(u) = NoFile THEN NoFloc
    ELSE IF userAt[u] = "transfer" THEN PlaceOf(userFloc[u])
    ELSE IF toClient[c] # <<>> THEN PlaceOf(Taken(u).floc)
    ELSE IF nsAt[c] = "found" THEN PlaceOf(nsFloc[c])
    ELSE NoFloc

tableBar == [f \in {g \in DOMAIN idmap : Placed(g)} |-> PlaceOf(files[idmap[f]])]
askedBar == [u \in Users |-> AskedFile(u)]
toldBar == [u \in Users |-> ToldPlace(u)]

Abstract == INSTANCE FileTable WITH
    Nothing <- NoFloc,
    table <- tableBar,
    nextId <- IdsGiven,
    asked <- askedBar,
    told <- toldBar

\* Lookups and deletions of all users, through threads that interleave, are
\* those of one table used one step at a time (FindFile, DeleteFile and
\* RequireLocation together).
ImplementsFileTable == Abstract!Spec
=============================================================================
