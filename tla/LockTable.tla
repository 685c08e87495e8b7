------------------------------ MODULE LockTable ------------------------------
(***************************************************************************)
(* What a lock service promises, with no servers and no messages.  A lock  *)
(* is granted to a client only while it is free, and becomes free again    *)
(* only after the client that owns it has given it back.  The owner learns *)
(* of the grant later than the service decides it, and stops using the     *)
(* lock before the service hears of it.                                    *)
(***************************************************************************)
CONSTANTS Clients, Locks, NoOne

VARIABLES
    owner,  \* who the service has given each lock to
    phase   \* how far owner and service agree about it

tableVars == <<owner, phase>>

Phases == {"free",     \* nobody owns the lock
           "granted",  \* the owner has not been told yet
           "held",     \* the owner uses the lock
           "left"}     \* the owner no longer uses it, the service still has it

TableInit ==
    /\ owner = [l \in Locks |-> NoOne]
    /\ phase = [l \in Locks |-> "free"]

Grant(c, l) ==
    /\ phase[l] = "free"
    /\ owner' = [owner EXCEPT ![l] = c]
    /\ phase' = [phase EXCEPT ![l] = "granted"]

Take(c, l) ==
    /\ phase[l] = "granted" /\ owner[l] = c
    /\ phase' = [phase EXCEPT ![l] = "held"]
    /\ UNCHANGED owner

\* The owner stops using some of its locks at once.
Leave(c, S) ==
    /\ S # {}
    /\ \A l \in S : phase[l] = "held" /\ owner[l] = c
    /\ phase' = [l \in Locks |-> IF l \in S THEN "left" ELSE phase[l]]
    /\ UNCHANGED owner

Free(c, l) ==
    /\ phase[l] = "left" /\ owner[l] = c
    /\ owner' = [owner EXCEPT ![l] = NoOne]
    /\ phase' = [phase EXCEPT ![l] = "free"]

TableNext ==
    \E c \in Clients :
        \/ \E l \in Locks : Grant(c, l) \/ Take(c, l) \/ Free(c, l)
        \/ \E S \in SUBSET Locks : Leave(c, S)

TableSpec == TableInit /\ [][TableNext]_tableVars
=============================================================================
