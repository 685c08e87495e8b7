---------------------------- MODULE DlockReplicas ----------------------------
(***************************************************************************)
(* How a follower's copy of the lock table relates to the master's.  The   *)
(* copy lags by the syncs the master has written, or has still to write,   *)
(* to the follower's queue.                                                *)
(***************************************************************************)
EXTENDS Dlock

IsFoer(f) == \E i \in 1..Len(mqFoers) : mqFoers[i] = pname[f]

\* What is in the queue of the process named n, if there is one.
Unread(q, n) == IF n \in DOMAIN q THEN q[n] ELSE <<>>

\* The writes that may reach n, oldest first: what is in n's queue, and what
\* the master has still to write, to whomever.
Addressed(n, s) == [i \in 1..Len(s) |-> Send(n, s[i])]
Ahead(n) == Addressed(n, Unread(queue, n)) \o out[Master]

Syncs == {"LOCK_SYNC", "LOCK_NEW", "LOCK_DELETE"}

\* The record of l at the follower named n, u before, after the write w has
\* reached it and was handled (add_lock_record and delete_lock_record).
After(n, l, u, w) ==
    IF w.to # n \/ w.msg.type \notin Syncs \/ w.msg.lock # l THEN u
    ELSE IF w.msg.type = "LOCK_DELETE" THEN 0
    ELSE IF u = 0 THEN w.msg.uuid ELSE u

AfterAll(n, l, u, a) ==
    LET r[i \in 0..Len(a)] == IF i = 0 THEN u ELSE After(n, l, r[i - 1], a[i])
    IN  r[Len(a)]

\* f's record of l once f has handled all that is ahead of it.
CaughtUp(f, l) == AfterAll(pname[f], l, lockDict[f][l], Ahead(pname[f]))

\* A follower that has caught up never knows an owner the master does not
\* know: its record of a lock is the master's, or missing.
ReplicaNeverWrong ==
    \A f \in Followers, l \in Locks :
        CaughtUp(f, l) \in {0, lockDict[Master][l]}

\* "Every time there is an update the master pushes it to the followers"
\* (README.md of project1), and a follower that registers is sent all lock
\* records (server.cpp client_register): a registered follower that has
\* caught up has the master's table.
ReplicaSynced ==
    \A f \in Followers : IsFoer(f) =>
        \A l \in Locks : CaughtUp(f, l) = lockDict[Master][l]

\* A grant or a release the master does not take back reaches every
\* registered follower.
ReplicaLearns ==
    \A f \in Followers, l \in Locks, u \in 0..Cardinality(Clients) :
        <>[](IsFoer(f) /\ lockDict[Master][l] = u)
            => <>[](lockDict[f][l] = u)
-----------------------------------------------------------------------------
\* The invariant behind them.  Only the master writes syncs, and none to
\* NoName, which a follower has for a name before it starts.
PushInv ==
    /\ \A p \in Procs \ {Master} : \A i \in 1..Len(out[p]) :
          out[p][i].msg.type \notin Syncs
    /\ \A i \in 1..Len(out[Master]) :
          out[Master][i].msg.type \in Syncs => out[Master][i].to # NoName

\* A follower that is not enrolled will have an empty table once it is.
ReplicaInv ==
    /\ PushInv
    /\ ReplicaNeverWrong
    /\ \A f \in Followers : ~IsFoer(f) => \A l \in Locks : CaughtUp(f, l) = 0
=============================================================================
