------------------------------ MODULE FileTable ------------------------------
(***************************************************************************)
(* What a name server for files promises: a table from files to places,    *)
(* looked up and extended in one atomic step.  A file keeps its id and its *)
(* server until it is deleted, and an id is never given out again.  Who    *)
(* asks is told what the table had at one moment between his request and   *)
(* the answer.                                                             *)
(***************************************************************************)
EXTENDS Naturals

CONSTANTS Files, Servers, Users, NoFile, Nothing

VARIABLES
    table,    \* file -> [fd, server]
    nextId,   \* the next id
    asked,    \* the file each user waits for, NoFile if none
    told      \* what a user was told, Nothing before

vars == <<table, nextId, asked, told>>

Init ==
    /\ table = [f \in {} |-> Nothing]
    /\ nextId = 0
    /\ asked = [u \in Users |-> NoFile]
    /\ told = [u \in Users |-> Nothing]

Ask(u, f) ==
    /\ asked[u] = NoFile
    /\ asked' = [asked EXCEPT ![u] = f]
    /\ UNCHANGED <<table, nextId, told>>

\* The file of u gets a place if it has none, and u is told its place.
Locate(u) ==
    LET f == asked[u] IN
    /\ f # NoFile /\ told[u] = Nothing
    /\ \/ f \in DOMAIN table /\ UNCHANGED <<table, nextId>>
       \/ /\ f \notin DOMAIN table
          /\ \E s \in Servers :
                table' = [g \in DOMAIN table \cup {f} |->
                             IF g = f THEN [fd |-> nextId, server |-> s]
                             ELSE table[g]]
          /\ nextId' = nextId + 1
    /\ told' = [told EXCEPT ![u] = table'[f]]
    /\ UNCHANGED asked

Finish(u) ==
    /\ told[u] # Nothing
    /\ asked' = [asked EXCEPT ![u] = NoFile]
    /\ told' = [told EXCEPT ![u] = Nothing]
    /\ UNCHANGED <<table, nextId>>

Delete(f) ==
    /\ f \in DOMAIN table
    /\ table' = [g \in DOMAIN table \ {f} |-> table[g]]
    /\ UNCHANGED <<nextId, asked, told>>

Next ==
    \/ \E u \in Users : (\E f \in Files : Ask(u, f)) \/ Locate(u) \/ Finish(u)
    \/ \E f \in Files : Delete(f)

Spec == Init /\ [][Next]_vars
=============================================================================
