---------------------------- MODULE LockedCounter ----------------------------
(***************************************************************************)
(* test.cpp: children that share a counter in a file.  Each child takes    *)
(* the lock of the file, reads the number, truncates the file, writes the  *)
(* number plus one and unlocks, `cnt' times over.  The parent expects the  *)
(* file to hold the number of children times `cnt' in the end.             *)
(***************************************************************************)
EXTENDS DlockInv

CONSTANTS
    Filename,  \* the file, and the lock that guards it
    Rounds     \* cnt

ASSUME CounterAssumption ==
    /\ Filename \in Locks
    /\ Rounds \in Nat \ {0}
    /\ IsFiniteSet(Clients)

VARIABLES
    pc,    \* where each child is in child_process
    left,  \* each child's cnt
    num,   \* each child's num
    file   \* the number in the file

counterVars == <<pc, left, num, file>>
allVars == <<vars, counterVars>>

\* A file that has been truncated.  fscanf finds no number in it and leaves
\* its argument as it was.
Empty == -1

CounterInit ==
    /\ Init
    /\ pc = [c \in Clients |-> "loop"]
    /\ left = [c \in Clients |-> Rounds]
    /\ num = [c \in Clients |-> 0]
    /\ file = 0

Goto(c, label) == pc' = [pc EXCEPT ![c] = label]

RoundsLeft(c) == left[c] > 0

\* The loop test and the first TryLock of a round, or TryLock once more.
TryLock(c) ==
    /\ Call(c, "LOCK_REQUEST", Filename)
    /\ \/ pc[c] = "loop" /\ RoundsLeft(c) /\ left' = [left EXCEPT ![c] = @ - 1]
       \/ pc[c] = "again" /\ UNCHANGED left
    /\ Goto(c, "locking")
    /\ UNCHANGED <<num, file>>

TryLockReturns(c) ==
    /\ pc[c] = "locking"
    /\ Return(c)
    /\ Goto(c, IF Answer(c).type = "LOCK_GRANT" THEN "read" ELSE "again")
    /\ UNCHANGED <<left, num, file>>

\* Mutant: ++num forgotten.
NotIncremented(c) == IF file = Empty THEN num[c] ELSE file
Incremented(c) == (IF file = Empty THEN num[c] ELSE file) + 1

\* fopen, fscanf, ++num.
ReadFile(c) ==
    /\ pc[c] = "read"
    /\ num' = [num EXCEPT ![c] = Incremented(c)]
    /\ Goto(c, "truncate")
    /\ UNCHANGED <<vars, left, file>>

\* freopen for writing empties the file; fprintf only fills a buffer.
Truncate(c) ==
    /\ pc[c] = "truncate"
    /\ file' = Empty
    /\ Goto(c, "write")
    /\ UNCHANGED <<vars, left, num>>

\* fclose writes the buffer.
WriteFile(c) ==
    /\ pc[c] = "write"
    /\ file' = num[c]
    /\ Goto(c, "unlock")
    /\ UNCHANGED <<vars, left, num>>

TryUnlock(c) ==
    /\ pc[c] = "unlock"
    /\ Call(c, "LOCK_RELEASE", Filename)
    /\ Goto(c, "unlocking")
    /\ UNCHANGED <<left, num, file>>

TryUnlockReturns(c) ==
    /\ pc[c] = "unlocking"
    /\ Return(c)
    /\ Goto(c, IF Answer(c).type = "LOCK_IDLE" THEN "loop" ELSE "unlock")
    /\ UNCHANGED <<left, num, file>>

\* The end of child_process: the Dlock is destroyed.
Finish(c) ==
    /\ pc[c] = "loop" /\ ~RoundsLeft(c)
    /\ Close(c)
    /\ Goto(c, "done")
    /\ UNCHANGED <<left, num, file>>

Child(c) ==
    \/ ClientConnect(c) /\ UNCHANGED counterVars
    \/ TryLock(c)
    \/ TryLockReturns(c)
    \/ ReadFile(c)
    \/ Truncate(c)
    \/ WriteFile(c)
    \/ TryUnlock(c)
    \/ TryUnlockReturns(c)
    \/ Finish(c)

CounterNext ==
    \/ ServerStep /\ UNCHANGED counterVars
    \/ \E c \in Clients :
          Child(c) \/ (ClientWrite(c) /\ UNCHANGED counterVars)

CounterSpec == CounterInit /\ [][CounterNext]_allVars

\* Servers and children keep running.
Idle == UNCHANGED <<cstate, cmsg, held, counterVars>>
CounterFairness ==
    /\ WF_allVars((MasterStep \/ MqWrite(Master)) /\ Idle)
    /\ \A f \in Followers : WF_allVars((FollowerStep(f) \/ MqWrite(f)) /\ Idle)
    /\ \A c \in Clients : WF_allVars(Child(c) \/ (MqWrite(c) /\ Idle))
CounterFairSpec == CounterSpec /\ CounterFairness

-----------------------------------------------------------------------------
(* What the lock does for the counter.                                     *)

\* Where a child is between its first TryLock of a round and its write.
BeforeWrite == {"locking", "again", "read", "truncate", "write"}

\* The rounds whose write is done.
Written(c) == Rounds - left[c] - (IF pc[c] \in BeforeWrite THEN 1 ELSE 0)
Writes == {w \in Clients \X (1..Rounds) : w[2] <= Written(w[1])}
Total == Cardinality(Writes)

\* No update is lost and no child reads a truncated file: the file holds the
\* number of writes so far, except while the child that holds the lock
\* rewrites it with one more (child_process).
CounterExact ==
    IF \E c \in Clients : pc[c] = "write"
      THEN \A c \in Clients : pc[c] = "write" =>
              file = Empty /\ num[c] = Total + 1
      ELSE file = Total

\* A child that unlocks after its round is never refused ("fail to
\* tryunlock"): the master still has it as the owner.
UnlockNotRefused ==
    [][\A c \in Clients : pc[c] = "unlocking" => pc'[c] # "unlock"]_allVars

\* The invariant that the proofs about the counter rest on: a child that works
\* on the file holds the lock, and what it read was up to date.
Using == {"read", "truncate", "write"}
CounterInv ==
    /\ pc \in [Clients -> {"loop", "unlock", "unlocking", "done"} \cup BeforeWrite]
    /\ left \in [Clients -> 0..Rounds]
    /\ DOMAIN num = Clients
    /\ \A c \in Clients :
          /\ pc[c] \in BeforeWrite => left[c] < Rounds
          /\ pc[c] = "done" => left[c] = 0
          /\ pc[c] = "locking" => /\ cstate[c] = "waiting"
                                  /\ cmsg[c].type = "LOCK_REQUEST"
                                  /\ cmsg[c].lock = Filename
          /\ pc[c] \in Using => Filename \in held[c]
          /\ pc[c] \in {"truncate", "write"} => num[c] = Total + 1
          /\ pc[c] = "write" => file = Empty
    /\ file = Total \/ \E c \in Clients : pc[c] = "write"

\* The write w does not refuse the client c what it gives back, and the master
\* will not: it still has c as the owner when it gets the call.
Accepts(c, w) ==
    cstate[c] = "waiting" /\ cmsg[c].type = "LOCK_RELEASE" =>
        /\ w.msg.type # "LOCK_BUSY"
        /\ w.msg.type = "LOCK_RELEASE" =>
              lockDict[Master][cmsg[c].lock] = cmsg[c].uuid

AcceptInv ==
    \A c \in Clients, w \in InFlight(queue, out) :
        Connected(c) /\ Conversation(w.msg, pname[c]) => Accepts(c, w)

\* The invariant behind UnlockNotRefused: a child only gives back what it has.
UnlockInv ==
    /\ AcceptInv
    /\ \A c \in Clients :
          /\ pc[c] = "unlock" => Filename \in held[c]
          /\ pc[c] = "unlocking" => /\ cstate[c] = "waiting"
                                    /\ cmsg[c].type = "LOCK_RELEASE"

\* A child that has drawn a name no server has: what a late follower sends back
\* of the records it was sent ends up in the rotation.
Astray(c) == cstate[c] = "registering" /\ cmsg[c].server = NoName

\* Every child that draws the name of a server finishes, whatever becomes of the
\* others, and the file counts the rounds of all that do: "the result should be
\* nr_child * count" (usage text of test.cpp).  The constructor of a child that
\* is astray never returns (lock.cpp 44).
Finished == {c \in Clients : pc[c] = "done"}
ResultRight ==
    <>[](/\ \A c \in Clients : c \in Finished \/ Astray(c)
         /\ file = Cardinality(Finished) * Rounds)
=============================================================================
