------------------------------ MODULE DlockTable ------------------------------
(***************************************************************************)
(* Dlock implements LockTable.  The owner of a lock is the client whose    *)
(* uuid the master's lock_dict has for it; the phase comes from what that  *)
(* client believes.                                                        *)
(***************************************************************************)
EXTENDS Dlock

CONSTANT NoOne  \* the owner of a lock that is free

ASSUME NoOneAssumption == NoOne \notin Clients

\* The client that registered as u.
Registered(c, u) == cmsg[c].uuid = u /\ u # 0

ownerBar ==
    [l \in Locks |->
        IF \E c \in Clients : Registered(c, lockDict[Master][l])
          THEN CHOOSE c \in Clients : Registered(c, lockDict[Master][l])
          ELSE NoOne]

phaseBar ==
    [l \in Locks |->
        LET c == ownerBar[l]
        IN  IF lockDict[Master][l] = 0 THEN "free"
            ELSE IF l \in held[c] THEN "held"
            ELSE IF /\ cstate[c] = "waiting"
                    /\ cmsg[c].type = "LOCK_REQUEST" /\ cmsg[c].lock = l
              THEN "granted"
            ELSE "left"]

Table == INSTANCE LockTable WITH owner <- ownerBar, phase <- phaseBar

\* A lock is granted only while the master has it free, and freed only after
\* its owner stopped using it: every step of clients and servers is a step of
\* the abstract lock table or does not concern it.
ImplementsLockTable == Table!TableSpec
=============================================================================
