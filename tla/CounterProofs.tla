---------------------------- MODULE CounterProofs ----------------------------
(***************************************************************************)
(* What the lock service does for the children of test.cpp, for any        *)
(* number of children, rounds and servers: no update of the counter is     *)
(* lost, and the file holds the right number when all of them are done.    *)
(***************************************************************************)
EXTENDS LockedCounter, TableProofs

-----------------------------------------------------------------------------
(* The children only use the lock service, and the files count.            *)

\* A step of the children and the servers is a step of the lock service, or
\* does not concern it.
LEMMA CounterSteps == CounterNext => [Next]_vars
  <1> SUFFICES ASSUME CounterNext PROVE [Next]_vars
    OBVIOUS
  <1>1. CASE ServerStep
    BY <1>1 DEF Next
  <1>2. ASSUME NEW c \in Clients, ClientWrite(c) PROVE Next
    BY <1>2 DEF Next
  <1>3. ASSUME NEW c \in Clients, Child(c) PROVE Next \/ UNCHANGED vars
    <2>1. Filename \in Locks /\ "LOCK_REQUEST" \in Calls /\ "LOCK_RELEASE" \in Calls
      BY CounterAssumption DEF Calls
    <2>2. CASE ClientConnect(c) \/ Return(c) \/ Close(c)
      BY <2>2 DEF Next, ClientStep
    <2>3. CASE \E t \in Calls : Call(c, t, Filename)
      BY <2>1, <2>3 DEF Next, ClientStep
    <2>4. QED BY <1>3, <2>1, <2>2, <2>3 DEF Child, TryLock, TryLockReturns, ReadFile,
                 Truncate, WriteFile, TryUnlock, TryUnlockReturns, Finish
  <1>4. QED BY <1>1, <1>2, <1>3 DEF CounterNext

\* The invariant of the table holds of the lock service the children use.
LEMMA CounterTable == CounterSpec => []TableInv
  <1>1. CounterInit => TableInv
    BY TableInvInit DEF CounterInit
  <1>2. TableInv /\ [CounterNext]_allVars => TableInv'
    BY CounterSteps, TableInvNext DEF allVars
  <1>3. QED BY <1>1, <1>2, PTL DEF CounterSpec

\* The number of writes is one.
LEMMA TotalType == IsFiniteSet(Writes) /\ Total \in Nat
  <1>1. IsFiniteSet(Clients \X (1..Rounds))
    <2>1. 1 \in Int /\ Rounds \in Int /\ IsFiniteSet(Clients)
      BY CounterAssumption
    <2>2. IsFiniteSet(1..Rounds)
      BY <2>1, FS_Interval
    <2>3. QED BY <2>1, <2>2, FS_Product
  <1>2. Writes \in SUBSET (Clients \X (1..Rounds))
    BY DEF Writes
  <1>3. IsFiniteSet(Writes)
    BY <1>1, <1>2, FS_Subset
  <1>4. QED BY <1>3, FS_CardinalityType DEF Total

\* It only depends on the rounds whose write is done.
LEMMA SameTotal ==
    ASSUME \A c \in Clients : Written(c)' = Written(c)
    PROVE  Total' = Total
  <1>1. Writes' = Writes
    BY DEF Writes
  <1>2. QED BY <1>1 DEF Total

\* A write is one more.
LEMMA OneMoreWrite ==
    ASSUME CounterInv, NEW c \in Clients, pc[c] = "write",
           pc' = [pc EXCEPT ![c] = "unlock"], UNCHANGED left
    PROVE  Total' = Total + 1
  <1>1. PICK n : n = Written(c) + 1
    OBVIOUS
  <1>2. /\ left[c] \in 0..Rounds /\ left[c] < Rounds /\ Rounds \in Nat
        /\ pc[c] \in BeforeWrite
    BY CounterAssumption DEF CounterInv, BeforeWrite
  <1>3. n = Rounds - left[c] /\ n \in 1..Rounds /\ Written(c) \in Int
    BY <1>1, <1>2 DEF Written
  <1>4. /\ Written(c)' = n
        /\ \A d \in Clients \ {c} : Written(d)' = Written(d)
    BY <1>3 DEF Written, BeforeWrite, CounterInv
  <1>5. Writes' = Writes \cup {<<c, n>>} /\ <<c, n>> \notin Writes
    <2>1. \A k \in 1..Rounds : k <= n <=> k <= Written(c) \/ k = n
      BY <1>1, <1>3
    <2>2. ~(n <= Written(c))
      BY <1>1, <1>2 DEF Written
    <2>3. \A w \in Clients \X (1..Rounds) :
             w[2] <= Written(w[1])' <=> w[2] <= Written(w[1]) \/ w = <<c, n>>
      <3> SUFFICES ASSUME NEW d \in Clients, NEW k \in 1..Rounds
                   PROVE  k <= Written(d)' <=> k <= Written(d) \/ <<d, k>> = <<c, n>>
        OBVIOUS
      <3>1. CASE d = c
        BY <1>4, <2>1, <3>1
      <3>2. CASE d # c
        BY <1>4, <3>2
      <3>3. QED BY <3>1, <3>2
    <2>4. <<c, n>> \in Clients \X (1..Rounds)
      BY <1>3
    <2>5. Writes' = {w \in Clients \X (1..Rounds) : w[2] <= Written(w[1])'}
      BY DEF Writes
    <2>6. QED BY <2>2, <2>3, <2>4, <2>5 DEF Writes
  <1>6. QED BY <1>5, TotalType, FS_AddElement DEF Total

-----------------------------------------------------------------------------
(* CounterInv is inductive.                                                *)

\* A step of the lock service, or of a child's Dlock, that is none of
\* child_process: locks are only given back by their holder.
LEMMA ServiceKeeps ==
    ASSUME CounterInv, UNCHANGED <<counterVars, held>>,
           \A c \in Clients : cstate[c] = "waiting" =>
              cstate'[c] = cstate[c] /\ cmsg'[c] = cmsg[c]
    PROVE  CounterInv'
  <1>1. UNCHANGED <<pc, left, num, file>>
    BY DEF counterVars
  <1>2. Total' = Total
    BY <1>1, SameTotal DEF Written
  <1>3. QED BY <1>1, <1>2 DEF CounterInv

\* A step of child_process that uses the Dlock and leaves the file alone: it is
\* enough that the child goes where it may.
LEMMA ChildKeeps ==
    ASSUME CounterInv, NEW c \in Clients, NEW a, pc' = [pc EXCEPT ![c] = a],
           UNCHANGED <<num, file>>, pc[c] # "write", a # "write", a # "truncate",
           a \in {"loop", "unlock", "unlocking", "done"} \cup BeforeWrite,
           left' \in [Clients -> 0..Rounds], Written(c)' = Written(c),
           \A d \in Clients \ {c} :
              /\ cstate'[d] = cstate[d] /\ cmsg'[d] = cmsg[d]
              /\ held'[d] = held[d] /\ left'[d] = left[d],
           a \in BeforeWrite => left'[c] < Rounds,
           a = "done" => left'[c] = 0,
           a = "locking" => /\ cstate'[c] = "waiting"
                            /\ cmsg'[c].type = "LOCK_REQUEST"
                            /\ cmsg'[c].lock = Filename,
           a \in Using => Filename \in held'[c]
    PROVE  CounterInv'
  <1>1. /\ pc'[c] = a /\ \A d \in Clients \ {c} : pc'[d] = pc[d]
        /\ pc' \in [Clients -> {"loop", "unlock", "unlocking", "done"} \cup BeforeWrite]
    BY DEF CounterInv
  <1>2. \A d \in Clients : Written(d)' = Written(d)
    BY <1>1 DEF Written
  <1>3. Total' = Total
    BY <1>2, SameTotal
  <1>4. file' = Total' \/ \E d \in Clients : pc'[d] = "write"
    BY <1>1, <1>3 DEF CounterInv
  <1>5. DOMAIN num' = Clients
    BY DEF CounterInv
  <1>6. ASSUME NEW d \in Clients
        PROVE  /\ pc'[d] \in BeforeWrite => left'[d] < Rounds
               /\ pc'[d] = "done" => left'[d] = 0
               /\ pc'[d] = "locking" => /\ cstate'[d] = "waiting"
                                       /\ cmsg'[d].type = "LOCK_REQUEST"
                                       /\ cmsg'[d].lock = Filename
               /\ pc'[d] \in Using => Filename \in held'[d]
               /\ pc'[d] \in {"truncate", "write"} => num'[d] = Total' + 1
               /\ pc'[d] = "write" => file' = Empty
    <2>1. CASE d = c
      BY <1>1, <2>1
    <2>2. CASE d # c
      BY <1>1, <1>3, <2>2 DEF CounterInv
    <2>3. QED BY <2>1, <2>2
  <1>7. QED BY <1>1, <1>4, <1>5, <1>6 DEF CounterInv

\* A child that calls TryLock keeps CounterInv: it is not in its section.
LEMMA TryLockKeeps ==
    ASSUME TableInv, CounterInv, NEW c \in Clients, TryLock(c)
    PROVE  CounterInv'
  <1>1. /\ cstate \in [Clients -> CStates] /\ cmsg \in [Clients -> Msg]
        /\ held \in [Clients -> SUBSET Locks]
    BY DEF TableInv, SafeInv, TypeInv, TypeOK
  <1>2. /\ cstate'[c] = "waiting" /\ cmsg'[c].type = "LOCK_REQUEST"
        /\ cmsg'[c].lock = Filename
        /\ \A d \in Clients \ {c} : /\ cstate'[d] = cstate[d] /\ cmsg'[d] = cmsg[d]
                                     /\ held'[d] = held[d]
    BY <1>1 DEF TryLock, Call, Msg
  <1>3. pc' = [pc EXCEPT ![c] = "locking"] /\ UNCHANGED <<num, file>>
    BY DEF TryLock, Goto
  <1>4. /\ pc[c] \in {"loop", "again"} /\ pc'[c] = "locking"
        /\ left[c] \in 0..Rounds /\ Rounds \in Nat
        /\ left' \in [Clients -> 0..Rounds] /\ left'[c] < Rounds
        /\ left'[c] = IF pc[c] = "loop" THEN left[c] - 1 ELSE left[c]
        /\ \A d \in Clients \ {c} : left'[d] = left[d]
    BY <1>3, CounterAssumption DEF TryLock, RoundsLeft, CounterInv, BeforeWrite
  <1>5. Written(c)' = Written(c)
    BY <1>4 DEF Written, BeforeWrite
  <1>6. QED BY <1>2, <1>3, <1>4, <1>5, ChildKeeps DEF BeforeWrite, Using

\* A child that is granted the lock is the only one in its section.
LEMMA TryLockReturnsKeeps ==
    ASSUME TableInv, CounterInv, NEW c \in Clients, TryLockReturns(c)
    PROVE  CounterInv'
  <1>1. /\ cstate \in [Clients -> CStates] /\ cmsg \in [Clients -> Msg]
        /\ held \in [Clients -> SUBSET Locks]
    BY DEF TableInv, SafeInv, TypeInv, TypeOK
  <1>2. PICK a : a = IF Answer(c).type = "LOCK_GRANT" THEN "read" ELSE "again"
    OBVIOUS
  <1>3. /\ pc[c] = "locking" /\ pc' = [pc EXCEPT ![c] = a]
        /\ UNCHANGED <<left, num, file>>
    BY <1>2 DEF TryLockReturns, Goto
  <1>4. /\ cmsg[c].type = "LOCK_REQUEST" /\ cmsg[c].lock = Filename
        /\ left[c] < Rounds /\ left \in [Clients -> 0..Rounds] /\ pc'[c] = a
    BY <1>3 DEF CounterInv, BeforeWrite
  <1>5. \A d \in Clients \ {c} : /\ cstate'[d] = cstate[d] /\ cmsg'[d] = cmsg[d]
                                  /\ held'[d] = held[d]
    BY <1>1 DEF TryLockReturns, Return
  <1>6. a = "read" => Filename \in held'[c]
    <2>1. Answer(c).type = "LOCK_GRANT" => held' = [held EXCEPT ![c] = @ \cup {Filename}]
      BY <1>4 DEF TryLockReturns, Return
    <2>2. QED BY <1>1, <1>2, <2>1
  <1>7. Written(c)' = Written(c)
    BY <1>2, <1>3, <1>4 DEF Written, BeforeWrite
  <1>8. a \in {"read", "again"}
    BY <1>2
  <1>9. QED BY <1>3, <1>4, <1>5, <1>6, <1>7, <1>8, ChildKeeps DEF BeforeWrite, Using

\* A child that calls TryUnlock has written the file and leaves its section.
LEMMA TryUnlockKeeps ==
    ASSUME TableInv, CounterInv, NEW c \in Clients, TryUnlock(c)
    PROVE  CounterInv'
  <1>1. /\ cstate \in [Clients -> CStates] /\ cmsg \in [Clients -> Msg]
        /\ held \in [Clients -> SUBSET Locks]
    BY DEF TableInv, SafeInv, TypeInv, TypeOK
  <1>2. /\ pc[c] = "unlock" /\ pc' = [pc EXCEPT ![c] = "unlocking"]
        /\ UNCHANGED <<left, num, file>>
    BY DEF TryUnlock, Goto
  <1>3. \A d \in Clients \ {c} : /\ cstate'[d] = cstate[d] /\ cmsg'[d] = cmsg[d]
                                  /\ held'[d] = held[d]
    BY <1>1 DEF TryUnlock, Call
  <1>4. pc'[c] = "unlocking" /\ left \in [Clients -> 0..Rounds]
    BY <1>2 DEF CounterInv
  <1>5. Written(c)' = Written(c)
    BY <1>2, <1>4 DEF Written, BeforeWrite
  <1>6. QED BY <1>2, <1>3, <1>4, <1>5, ChildKeeps DEF BeforeWrite, Using

\* The answer to TryUnlock keeps CounterInv: the child is outside its section.
LEMMA TryUnlockReturnsKeeps ==
    ASSUME TableInv, CounterInv, NEW c \in Clients, TryUnlockReturns(c)
    PROVE  CounterInv'
  <1>1. /\ cstate \in [Clients -> CStates] /\ cmsg \in [Clients -> Msg]
        /\ held \in [Clients -> SUBSET Locks]
    BY DEF TableInv, SafeInv, TypeInv, TypeOK
  <1>2. PICK a : a = IF Answer(c).type = "LOCK_IDLE" THEN "loop" ELSE "unlock"
    OBVIOUS
  <1>3. /\ pc[c] = "unlocking" /\ pc' = [pc EXCEPT ![c] = a]
        /\ UNCHANGED <<left, num, file>>
    BY <1>2 DEF TryUnlockReturns, Goto
  <1>4. \A d \in Clients \ {c} : /\ cstate'[d] = cstate[d] /\ cmsg'[d] = cmsg[d]
                                  /\ held'[d] = held[d]
    BY <1>1 DEF TryUnlockReturns, Return
  <1>5. pc'[c] = a /\ left \in [Clients -> 0..Rounds] /\ a \in {"loop", "unlock"}
    BY <1>2, <1>3 DEF CounterInv
  <1>6. Written(c)' = Written(c)
    BY <1>3, <1>5 DEF Written, BeforeWrite
  <1>7. QED BY <1>3, <1>4, <1>5, <1>6, ChildKeeps DEF BeforeWrite, Using

\* A child that has done its rounds keeps CounterInv.
LEMMA FinishKeeps ==
    ASSUME TableInv, CounterInv, NEW c \in Clients, Finish(c)
    PROVE  CounterInv'
  <1>1. cstate \in [Clients -> CStates] /\ held \in [Clients -> SUBSET Locks]
    BY DEF TableInv, SafeInv, TypeInv, TypeOK
  <1>2. /\ pc[c] = "loop" /\ pc' = [pc EXCEPT ![c] = "done"] /\ ~(left[c] > 0)
        /\ UNCHANGED <<left, num, file>>
    BY DEF Finish, Goto, RoundsLeft
  <1>3. \A d \in Clients \ {c} : /\ cstate'[d] = cstate[d] /\ cmsg'[d] = cmsg[d]
                                  /\ held'[d] = held[d]
    BY <1>1 DEF Finish, Close
  <1>4. pc'[c] = "done" /\ left \in [Clients -> 0..Rounds] /\ left[c] = 0
    <2>1. left \in [Clients -> 0..Rounds] /\ Rounds \in Nat
      BY CounterAssumption DEF CounterInv
    <2>2. left[c] \in 0..Rounds
      BY <2>1
    <2>3. QED BY <1>2, <2>1, <2>2 DEF CounterInv
  <1>5. Written(c)' = Written(c)
    BY <1>2, <1>4 DEF Written, BeforeWrite
  <1>6. QED BY <1>2, <1>3, <1>4, <1>5, ChildKeeps DEF BeforeWrite, Using

\* Only the holder of the lock uses the file.
LEMMA OneUser ==
    ASSUME TableInv, CounterInv, NEW c \in Clients, pc[c] \in Using,
           NEW d \in Clients \ {c}
    PROVE  pc[d] \notin Using
  <1> SUFFICES ASSUME pc[d] \in Using PROVE FALSE
    OBVIOUS
  <1>1. Filename \in held[c] /\ Filename \in held[d]
    BY DEF CounterInv
  <1>2. /\ cstate[c] \in {"idle", "waiting"} /\ cstate[d] \in {"idle", "waiting"}
        /\ cmsg[c].uuid = cmsg[d].uuid
    BY <1>1 DEF TableInv, SafeInv, ClientInv
  <1>3. QED BY <1>2, UuidsDistinct DEF TableInv

\* The child that has the lock reads the number of writes.
LEMMA ReadFileKeeps ==
    ASSUME TableInv, CounterInv, NEW c \in Clients, ReadFile(c)
    PROVE  CounterInv'
  <1>1. /\ pc[c] = "read" /\ pc' = [pc EXCEPT ![c] = "truncate"]
        /\ num' = [num EXCEPT ![c] = Incremented(c)]
        /\ UNCHANGED <<left, file, held, cstate, cmsg>>
    BY DEF ReadFile, Goto, vars
  <1>2. \A d \in Clients : pc[d] # "write"
    <2>1. \A d \in Clients \ {c} : pc[d] \notin Using
      BY <1>1, OneUser DEF Using
    <2>2. QED BY <1>1, <2>1 DEF Using
  <1>3. file = Total /\ Total \in Nat
    BY <1>2, TotalType DEF CounterInv
  <1>4. Incremented(c) = Total + 1
    BY <1>3 DEF Incremented, Empty
  <1>5. /\ pc'[c] = "truncate" /\ \A d \in Clients \ {c} : pc'[d] = pc[d]
        /\ num'[c] = Total + 1 /\ \A d \in Clients \ {c} : num'[d] = num[d]
        /\ DOMAIN num' = Clients
        /\ pc' \in [Clients -> {"loop", "unlock", "unlocking", "done"} \cup BeforeWrite]
    BY <1>1, <1>4 DEF CounterInv, BeforeWrite
  <1>6. \A d \in Clients : Written(d)' = Written(d)
    BY <1>1, <1>5 DEF Written, BeforeWrite
  <1>7. Total' = Total
    BY <1>6, SameTotal
  <1>8. QED BY <1>1, <1>3, <1>5, <1>7 DEF CounterInv, Using, BeforeWrite

\* It empties the file.
LEMMA TruncateKeeps ==
    ASSUME TableInv, CounterInv, NEW c \in Clients, Truncate(c)
    PROVE  CounterInv'
  <1>1. /\ pc[c] = "truncate" /\ pc' = [pc EXCEPT ![c] = "write"]
        /\ file' = Empty /\ UNCHANGED <<left, num, held, cstate, cmsg>>
    BY DEF Truncate, Goto, vars
  <1>2. /\ pc'[c] = "write" /\ \A d \in Clients \ {c} : pc'[d] = pc[d]
        /\ pc' \in [Clients -> {"loop", "unlock", "unlocking", "done"} \cup BeforeWrite]
    BY <1>1 DEF CounterInv, BeforeWrite
  <1>3. \A d \in Clients : Written(d)' = Written(d)
    BY <1>1, <1>2 DEF Written, BeforeWrite
  <1>4. Total' = Total
    BY <1>3, SameTotal
  <1>5. QED BY <1>1, <1>2, <1>4 DEF CounterInv, Using, BeforeWrite

\* And writes the number of writes, this one included.
LEMMA WriteFileKeeps ==
    ASSUME TableInv, CounterInv, NEW c \in Clients, WriteFile(c)
    PROVE  CounterInv'
  <1>1. /\ pc[c] = "write" /\ pc' = [pc EXCEPT ![c] = "unlock"]
        /\ file' = num[c] /\ UNCHANGED <<left, num, held, cstate, cmsg>>
    BY DEF WriteFile, Goto, vars
  <1>2. /\ pc'[c] = "unlock" /\ \A d \in Clients \ {c} : pc'[d] = pc[d]
        /\ pc' \in [Clients -> {"loop", "unlock", "unlocking", "done"} \cup BeforeWrite]
    BY <1>1 DEF CounterInv
  <1>3. Total' = Total + 1
    BY <1>1, OneMoreWrite
  <1>4. file' = Total'
    BY <1>1, <1>3 DEF CounterInv
  <1>5. \A d \in Clients \ {c} : pc[d] \notin Using
    BY <1>1, OneUser DEF Using
  <1>6. QED BY <1>1, <1>2, <1>4, <1>5 DEF CounterInv, Using, BeforeWrite

\* Every step keeps it.
LEMMA CounterInvNext ==
    TableInv /\ CounterInv /\ [CounterNext]_allVars => CounterInv'
  <1> SUFFICES ASSUME TableInv, CounterInv, [CounterNext]_allVars PROVE CounterInv'
    OBVIOUS
  <1>0. cstate \in [Clients -> CStates] /\ cmsg \in [Clients -> Msg]
    BY DEF TableInv, SafeInv, TypeInv, TypeOK
  <1>1. CASE ServerStep /\ UNCHANGED counterVars
    BY <1>1, ServiceKeeps DEF ServerStep
  <1>2. ASSUME NEW c \in Clients, ClientWrite(c), UNCHANGED counterVars PROVE CounterInv'
    BY <1>2, ServiceKeeps DEF ClientWrite
  <1>3. ASSUME NEW c \in Clients, Child(c) PROVE CounterInv'
    <2>1. CASE ClientConnect(c) /\ UNCHANGED counterVars
      <3>1. UNCHANGED held /\ cstate[c] # "waiting"
            /\ \A d \in Clients \ {c} : cstate'[d] = cstate[d] /\ cmsg'[d] = cmsg[d]
        BY <1>0, <2>1 DEF ClientConnect, LookupServer, LookupName, RecvAck
      <3>2. QED BY <2>1, <3>1, ServiceKeeps
    <2>2. QED BY <1>3, <2>1, TryLockKeeps, TryLockReturnsKeeps, ReadFileKeeps,
                 TruncateKeeps, WriteFileKeeps, TryUnlockKeeps,
                 TryUnlockReturnsKeeps, FinishKeeps DEF Child
  <1>4. CASE UNCHANGED allVars
    <2>1. UNCHANGED <<counterVars, held, cstate, cmsg>>
      BY <1>4 DEF allVars, vars
    <2>2. QED BY <2>1, ServiceKeeps
  <1>5. QED BY <1>1, <1>2, <1>3, <1>4 DEF CounterNext

\* Nothing is written at first.
LEMMA CounterInvInit == CounterInit => CounterInv
  <1> SUFFICES ASSUME CounterInit PROVE CounterInv
    OBVIOUS
  <1>1. \A c \in Clients : pc[c] = "loop" /\ left[c] = Rounds
    BY DEF CounterInit
  <1>2. Rounds \in Nat
    BY CounterAssumption
  <1>3. \A c \in Clients : Written(c) = 0
    BY <1>1, <1>2 DEF Written, BeforeWrite
  <1>4. Writes = {}
    BY <1>3 DEF Writes
  <1>5. Total = 0
    BY <1>4, FS_EmptySet DEF Total
  <1>6. QED BY <1>1, <1>2, <1>5 DEF CounterInit, CounterInv, BeforeWrite, Using

\* A child of test.cpp that works on the file has the lock, and what it read is
\* up to date.
THEOREM CounterInvariant == CounterSpec => []CounterInv
  BY CounterInvInit, CounterInvNext, CounterTable, PTL DEF CounterSpec

-----------------------------------------------------------------------------
(* What follows from it.                                                   *)

\* child_process of test.cpp: no update is lost, and no child reads a file that
\* another has truncated.
THEOREM CounterIsExact == CounterSpec => []CounterExact
  <1>1. CounterInv => CounterExact
    BY DEF CounterInv, CounterExact
  <1>2. QED BY <1>1, CounterInvariant, PTL

\* "the result should be nr_child * count" (usage text of test.cpp): so it is
\* when all children are done.
THEOREM CounterRight ==
    CounterSpec => []((\A c \in Clients : pc[c] = "done")
                          => file = Cardinality(Clients) * Rounds)
  <1>1. ASSUME CounterInv, \A c \in Clients : pc[c] = "done"
        PROVE  file = Cardinality(Clients) * Rounds
    <2>1. Rounds \in Nat /\ Rounds \in Int /\ IsFiniteSet(Clients)
      BY CounterAssumption
    <2>2. \A c \in Clients : Written(c) = Rounds
      BY <1>1, <2>1 DEF CounterInv, Written, BeforeWrite
    <2>3. Writes = Clients \X (1..Rounds)
      BY <2>1, <2>2 DEF Writes
    <2>4. IsFiniteSet(1..Rounds) /\ Cardinality(1..Rounds) = Rounds
      <3>1. 1 \in Int
        OBVIOUS
      <3>2. /\ IsFiniteSet(1..Rounds)
            /\ Cardinality(1..Rounds) = IF 1 > Rounds THEN 0 ELSE Rounds - 1 + 1
        BY <2>1, <3>1, FS_Interval
      <3>3. QED BY <2>1, <3>2, CounterAssumption
    <2>5. Total = Cardinality(Clients) * Rounds
      BY <2>1, <2>3, <2>4, FS_Product DEF Total
    <2>6. QED BY <1>1, <2>5 DEF CounterInv
  <1>2. CounterInv => ((\A c \in Clients : pc[c] = "done")
                           => file = Cardinality(Clients) * Rounds)
    BY <1>1
  <1>3. QED BY <1>2, CounterInvariant, PTL

-----------------------------------------------------------------------------
(* A child is never refused when it unlocks.                               *)

\* Of the writes v only answers and forwarded messages belong to a
\* conversation, and it is that of the message m they come from.
Echo(v, m) ==
    \A i \in 1..Len(v) : \A n :
        Conversation(v[i].msg, n) =>
            Conversation(m, n) /\ m.type \in Calls \cup {"REGISTER"}

\* One answer.
LEMMA EchoOne ==
    ASSUME NEW m \in Msg, NEW x \in Int, NEW k \in Msg,
           k.name = m.name, m.type \in Calls \cup {"REGISTER"}
    PROVE  <<Send(x, k)>> \in Seq(Write) /\ Echo(<<Send(x, k)>>, m)
  <1>1. PICK w : w = Send(x, k)
    OBVIOUS
  <1>2. w \in Write /\ w.msg = k
    BY <1>1 DEF Send, Write
  <1>3. <<w>> \in Seq(Write) /\ Len(<<w>>) = 1 /\ <<w>>[1] = w
    BY <1>2
  <1>4. Echo(<<w>>, m)
    BY <1>2, <1>3 DEF Echo, Conversation, Calls
  <1>5. QED BY <1>1, <1>3, <1>4

\* An answer, then a push to every follower.
LEMMA EchoPushes ==
    ASSUME TypeOK, NEW m \in Msg, NEW x \in Int, NEW k \in Msg,
           k.name = m.name, m.type \in Calls,
           NEW u \in {"LOCK_NEW", "LOCK_DELETE"},
           NEW w, w = Send(x, k), NEW v, Announced(v, w, m, u)
    PROVE  /\ v \in Seq(Write) /\ Echo(v, m)
           /\ \A i \in 1..Len(v) : v[i].msg.type \in {k.type, u}
  <1>2. w \in Write /\ w.msg = k
    BY DEF Send, Write
  <1> DEFINE p == ToFoers(m, u)
  <1>3. /\ p \in Seq(Write) /\ Len(p) = Len(mqFoers)
        /\ \A i \in 1..Len(mqFoers) : p[i] = Send(mqFoers[i], [m EXCEPT !.type = u])
    <2>1. u \in MsgTypes
      BY DEF MsgTypes
    <2>2. QED BY <2>1, ToFoersType
  <1> HIDE DEF p
  <1>4. \A i \in 1..Len(p) : p[i].msg.type = u
    <2>1. [m EXCEPT !.type = u].type = u
      BY DEF Msg
    <2>2. \A y : Send(y, [m EXCEPT !.type = u]).msg.type = u
      BY <2>1 DEF Send
    <2>3. QED BY <1>3, <2>2
  <1>5. /\ v \in Seq(Write) /\ Len(v) = 1 + Len(p) /\ v[1] = w
        /\ \A i \in 1..Len(v) : i # 1 => i - 1 \in 1..Len(p) /\ v[i] = p[i - 1]
    BY <1>2, <1>3 DEF p, Announced
  <1>6. ASSUME NEW i \in 1..Len(v), i # 1 PROVE v[i].msg.type = u
    <2>1. PICK j \in 1..Len(p) : j = i - 1
      BY <1>5, <1>6
    <2>2. QED BY <1>4, <1>5, <1>6, <2>1
  <1>7. \A i \in 1..Len(v) : v[i] = w \/ v[i].msg.type = u
    BY <1>5, <1>6
  <1>8. ASSUME NEW i \in 1..Len(v), NEW n, Conversation(v[i].msg, n)
        PROVE  Conversation(m, n)
    BY <1>2, <1>7, <1>8 DEF Conversation, Calls
  <1>9. QED BY <1>2, <1>5, <1>7, <1>8 DEF Echo

\* The handlers of the master do that.
LEMMA MasterEcho ==
    ASSUME SafeInv, MasterStep
    PROVE  /\ HasMsg(Master) /\ UNCHANGED pname
           /\ queue' = Popped(Master) \/ \E y \in Int : queue' = MqOpen(Popped(Master), y)
           /\ \E v \in Seq(Write) :
                 /\ out' = [out EXCEPT ![Master] = v]
                 /\ Echo(v, Received(Master))
                 /\ MasterRelease => \A i \in 1..Len(v) :
                       v[i].msg.type \in {"LOCK_IDLE", "LOCK_DELETE"}
  <1>0. TypeOK /\ Master \in Servers
    BY DEF SafeInv, TypeInv, Servers
  <1>1. PICK m : m = Received(Master)
    OBVIOUS
  <1>2. HasMsg(Master) /\ UNCHANGED pname
    BY DEF MasterStep, MasterRegisterClient, MasterRegisterFoer, MasterGrant,
           MasterRelease, MasterRefuse, MasterInquire
  <1>3. m \in Msg /\ m.name \in Int
    BY <1>0, <1>1, <1>2, ReceivedFits DEF Msg
  <1>4. queue' = Popped(Master) \/ \E y \in Int : queue' = MqOpen(Popped(Master), y)
    BY <1>1, <1>3
       DEF MasterStep, MasterRegisterClient, MasterRegisterFoer, MasterGrant,
           MasterRelease, MasterRefuse, MasterInquire
  <1>5. PICK x : x = ClientMq(Master, m.uuid)
    OBVIOUS
  <1>6. x \in Int
    BY <1>0, <1>5 DEF TypeOK, ClientMq, NoName
  <1>7. ASSUME NEW t \in MsgTypes
        PROVE  [m EXCEPT !.type = t] \in Msg /\ [m EXCEPT !.type = t].name = m.name
               /\ [m EXCEPT !.type = t].type = t
               /\ Reply(Master, m, t) = Send(x, [m EXCEPT !.type = t])
    BY <1>3, <1>5 DEF Msg, Reply
  <1> DEFINE Done(v) == /\ v \in Seq(Write)
                        /\ out' = [out EXCEPT ![Master] = v]
                        /\ Echo(v, m)
                        /\ MasterRelease => \A i \in 1..Len(v) :
                              v[i].msg.type \in {"LOCK_IDLE", "LOCK_DELETE"}
  <1>8. CASE MasterRegisterClient
    <2>1. PICK u : u = nextUuid
      OBVIOUS
    <2>2. PICK a : a = [[m EXCEPT !.uuid = u] EXCEPT !.type = "REGISTER_ACK"]
      OBVIOUS
    <2>3. PICK b : b = [[m EXCEPT !.uuid = u] EXCEPT !.type = "SERVER_NAME"]
      OBVIOUS
    <2>4. /\ m.type = "REGISTER"
          /\ out' = [out EXCEPT ![Master] = <<Send(m.name, a), Send(DnsNode, b)>>]
      BY <1>1, <1>8, <2>1, <2>2, <2>3 DEF MasterRegisterClient, Acknowledge
    <2>5. u \in Nat
      BY <1>0, <2>1 DEF TypeOK
    <2>6. a \in Msg /\ a.type = "REGISTER_ACK" /\ a.name = m.name
      BY <1>3, <2>2, <2>5 DEF Msg, MsgTypes
    <2>7. b \in Msg /\ b.type = "SERVER_NAME"
      BY <1>3, <2>3, <2>5 DEF Msg, MsgTypes
    <2>8. PICK y, z : y = Send(m.name, a) /\ z = Send(DnsNode, b)
      OBVIOUS
    <2>9. y \in Write /\ y.msg = a /\ z \in Write /\ z.msg = b
      BY <1>3, <2>6, <2>7, <2>8 DEF Send, Write, DnsNode
    <2>10. PICK v : v = <<y, z>>
      OBVIOUS
    <2>11. v \in Seq(Write) /\ \A i \in 1..Len(v) : v[i] = y \/ v[i] = z
      BY <2>9, <2>10
    <2>12. Echo(v, m)
      BY <2>4, <2>6, <2>7, <2>9, <2>11 DEF Echo, Conversation
    <2>13. ~MasterRelease
      BY <1>1, <2>4 DEF MasterRelease
    <2>14. Done(v)
      BY <2>4, <2>8, <2>10, <2>11, <2>12, <2>13
    <2>15. QED BY <1>1, <1>2, <1>4, <2>14
  <1>9. CASE MasterRegisterFoer
    <2>1. PICK foers : foers = Append(mqFoers, m.name)
      OBVIOUS
    <2>2. PICK order \in Orders(HeldLocks) :
             out' = [out EXCEPT ![Master] = SyncMsgs(m, order, foers)]
      BY <1>1, <1>9, <2>1 DEF MasterRegisterFoer
    <2>3. foers \in Seq(Int) /\ m.type = "REGISTER"
      BY <1>0, <1>1, <1>3, <1>9, <2>1 DEF TypeOK, MasterRegisterFoer
    <2>4. PICK v : v = SyncMsgs(m, order, foers)
      OBVIOUS
    <2>5. v \in Seq(Write) /\ \A k \in 1..Len(v) : IsSync(v[k], m, foers)
      BY <1>0, <1>3, <2>3, <2>4, SyncMsgsType
    <2>6. Echo(v, m)
      BY <2>3, <2>5 DEF Echo, Conversation, IsSync
    <2>7. ~MasterRelease
      BY <1>1, <2>3 DEF MasterRelease
    <2>8. Done(v)
      BY <2>2, <2>4, <2>5, <2>6, <2>7
    <2>9. QED BY <1>1, <1>2, <1>4, <2>8
  <1>10. CASE MasterGrant
    <2>1. PICK v : v = <<Reply(Master, m, "LOCK_GRANT")>> \o ToFoers(m, "LOCK_NEW")
      OBVIOUS
    <2>2. /\ m.type = "LOCK_REQUEST" /\ out' = [out EXCEPT ![Master] = v]
          /\ "LOCK_GRANT" \in MsgTypes /\ m.type \in Calls
      BY <1>1, <1>10, <2>1 DEF MasterGrant, MsgTypes, Calls
    <2>3. v \in Seq(Write) /\ Echo(v, m)
      <3>1. PICK k : k = [m EXCEPT !.type = "LOCK_GRANT"]
        OBVIOUS
      <3>2. /\ k \in Msg /\ k.name = m.name /\ k.type = "LOCK_GRANT"
            /\ Reply(Master, m, "LOCK_GRANT") = Send(x, k)
        BY <1>7, <2>2, <3>1
      <3>3. PICK w : w = Reply(Master, m, "LOCK_GRANT")
        OBVIOUS
      <3>4. w = Send(x, k) /\ Announced(v, w, m, "LOCK_NEW")
        BY <2>1, <3>2, <3>3 DEF Announced
      <3>5. QED BY <1>0, <1>3, <1>6, <2>2, <3>2, <3>4, EchoPushes
    <2>4. ~MasterRelease
      BY <1>1, <2>2 DEF MasterRelease
    <2>5. Done(v)
      BY <2>2, <2>3, <2>4
    <2>6. QED BY <1>1, <1>2, <1>4, <2>5
  <1>11. CASE MasterRelease
    <2>1. PICK v : v = <<Reply(Master, m, "LOCK_IDLE")>> \o ToFoers(m, "LOCK_DELETE")
      OBVIOUS
    <2>2. /\ out' = [out EXCEPT ![Master] = v]
          /\ "LOCK_IDLE" \in MsgTypes /\ m.type \in Calls
      BY <1>1, <1>11, <2>1 DEF MasterRelease, MsgTypes, Calls
    <2>3. /\ v \in Seq(Write) /\ Echo(v, m)
          /\ \A i \in 1..Len(v) : v[i].msg.type \in {"LOCK_IDLE", "LOCK_DELETE"}
      <3>1. PICK k : k = [m EXCEPT !.type = "LOCK_IDLE"]
        OBVIOUS
      <3>2. /\ k \in Msg /\ k.name = m.name /\ k.type = "LOCK_IDLE"
            /\ Reply(Master, m, "LOCK_IDLE") = Send(x, k)
        BY <1>7, <2>2, <3>1
      <3>3. PICK w : w = Reply(Master, m, "LOCK_IDLE")
        OBVIOUS
      <3>4. w = Send(x, k) /\ Announced(v, w, m, "LOCK_DELETE")
        BY <2>1, <3>2, <3>3 DEF Announced
      <3>5. QED BY <1>0, <1>3, <1>6, <2>2, <3>2, <3>4, EchoPushes
    <2>4. Done(v)
      BY <2>2, <2>3
    <2>5. QED BY <1>1, <1>2, <1>4, <2>4
  <1>12. CASE MasterRefuse \/ MasterInquire
    <2>1. PICK t \in MsgTypes : out' = [out EXCEPT ![Master] = <<Reply(Master, m, t)>>]
      BY <1>1, <1>12 DEF MasterRefuse, Refusal, MasterInquire, InquiryAnswer, MsgTypes
    <2>2. PICK v : v = <<Reply(Master, m, t)>>
      OBVIOUS
    <2>3. m.type \in Calls /\ (MasterRelease => m.type = "LOCK_RELEASE" /\ Owns(Master, m))
      BY <1>1, <1>12 DEF MasterRefuse, MasterInquire, MasterRelease, Calls
    <2>4. v \in Seq(Write) /\ Echo(v, m)
      BY <1>3, <1>6, <1>7, <2>2, <2>3, EchoOne
    <2>5. ~MasterRelease
      BY <1>1, <1>12 DEF MasterRefuse, MasterInquire, MasterRelease
    <2>6. Done(v)
      BY <2>1, <2>2, <2>4, <2>5
    <2>7. QED BY <1>1, <1>2, <1>4, <2>6
  <1>13. QED BY <1>8, <1>9, <1>10, <1>11, <1>12 DEF MasterStep

\* And those of the followers, but for their start.
LEMMA FollowerEcho ==
    ASSUME SafeInv, NEW f \in Followers, FollowerStep(f), ~FollowerStart(f)
    PROVE  /\ HasMsg(f) /\ UNCHANGED pname
           /\ queue' = Popped(f) \/ \E y \in Int : queue' = MqOpen(Popped(f), y)
           /\ \E v \in Seq(Write) :
                 /\ out' = [out EXCEPT ![f] = v]
                 /\ Echo(v, Received(f))
  <1>0. TypeOK /\ f \in Servers
    BY DEF SafeInv, TypeInv, Servers
  <1>1. PICK m : m = Received(f)
    OBVIOUS
  <1>2. HasMsg(f) /\ UNCHANGED pname
    BY DEF FollowerStep, FollowerForward, FollowerInquire, FollowerAdd,
           FollowerDelete, FollowerIgnore
  <1>3. m \in Msg /\ m.name \in Int
    BY <1>0, <1>1, <1>2, ReceivedFits DEF Msg
  <1>4. queue' = Popped(f) \/ \E y \in Int : queue' = MqOpen(Popped(f), y)
    BY <1>1, <1>3 DEF FollowerStep, FollowerForward, FollowerInquire, FollowerAdd,
                      FollowerDelete, FollowerIgnore
  <1>5. CASE FollowerForward(f)
    <2>1. PICK v : v = <<Send(MasterNode, m)>>
      OBVIOUS
    <2>2. out' = [out EXCEPT ![f] = v] /\ m.type \in Calls \cup {"REGISTER"}
      BY <1>1, <1>5, <2>1 DEF FollowerForward, Forwarded, Calls
    <2>3. v \in Seq(Write) /\ Echo(v, m)
      BY <1>3, <2>1, <2>2, EchoOne DEF MasterNode
    <2>4. QED BY <1>1, <1>2, <1>4, <2>2, <2>3
  <1>6. CASE FollowerInquire(f)
    <2>1. PICK t : t = InquiryAnswer(f, m)
      OBVIOUS
    <2>2. PICK x : x = mqDict'[f][m.uuid]
      OBVIOUS
    <2>3. PICK v : v = <<Send(x, [m EXCEPT !.type = t])>>
      OBVIOUS
    <2>4. /\ m.type \in Calls /\ t \in MsgTypes /\ out' = [out EXCEPT ![f] = v]
          /\ mqDict' = [mqDict EXCEPT ![f] = Insert(mqDict[f], m.uuid, m.name)]
      BY <1>1, <1>6, <2>1, <2>2, <2>3 DEF FollowerInquire, InquiryAnswer, MsgTypes, Calls
    <2>5. x \in Int
      <3>1. /\ DOMAIN mqDict = Servers
            /\ \A u \in DOMAIN mqDict[f] : mqDict[f][u] \in Int
        BY <1>0 DEF TypeOK
      <3>2. mqDict'[f] = Insert(mqDict[f], m.uuid, m.name)
        BY <1>0, <2>4, <3>1
      <3>3. QED BY <1>3, <2>2, <3>1, <3>2 DEF Insert
    <2>6. [m EXCEPT !.type = t] \in Msg /\ [m EXCEPT !.type = t].name = m.name
      BY <1>3, <2>4 DEF Msg
    <2>7. v \in Seq(Write) /\ Echo(v, m)
      BY <1>3, <2>3, <2>4, <2>5, <2>6, EchoOne
    <2>8. QED BY <1>1, <1>2, <1>4, <2>4, <2>7
  <1>7. CASE FollowerAdd(f) \/ FollowerDelete(f) \/ FollowerIgnore(f)
    <2>1. PICK v : v = out[f]
      OBVIOUS
    <2>2. v = <<>> /\ out' = out
      BY <1>2, <1>7, <2>1 DEF HasMsg, FollowerAdd, FollowerDelete, FollowerIgnore
    <2>3. v \in Seq(Write) /\ Echo(v, m)
      BY <2>2 DEF Echo
    <2>4. out' = [out EXCEPT ![f] = v]
      BY <1>0, <2>1, <2>2 DEF TypeOK, Procs
    <2>5. QED BY <1>1, <1>2, <1>4, <2>3, <2>4
  <1>8. QED BY <1>5, <1>6, <1>7 DEF FollowerStep

\* A handler keeps what is on its way to a client that unlocks, if it changes no
\* record but that of a call that releases the lock.
Keeps(m, v) ==
    \A l \in Locks : lockDict[Master][l] # 0 =>
        \/ lockDict'[Master][l] = lockDict[Master][l]
        \/ /\ m.type \in Calls /\ m.lock = l /\ m.uuid = lockDict[Master][l]
           /\ \A i \in 1..Len(v) : v[i].msg.type \in {"LOCK_IDLE", "LOCK_DELETE"}

\* A handler that answers no release with a refusal keeps AcceptInv.
LEMMA HandlerAccepts ==
    ASSUME TableInv, TableInv', AcceptInv, NEW s \in Servers, HasMsg(s),
           NEW m, m = Received(s), NEW v \in Seq(Write),
           out' = [out EXCEPT ![s] = v], Echo(v, m), Keeps(m, v),
           queue' = Popped(s) \/ \E y \in Int : queue' = MqOpen(Popped(s), y),
           UNCHANGED <<pname, cstate, cmsg, held>>
    PROVE  AcceptInv'
  <1>0. SafeInv
    BY DEF TableInv
  <1>1. /\ Send(pname[s], m) \in InFlight(queue, out)
        /\ \A w \in InFlight(queue', out') :
              w \in InFlight(queue, out) \/ \E i \in 1..Len(v) : w = v[i]
        /\ \A n : Single(queue, out, n) /\ Conversation(m, n) =>
              \A w \in InFlight(queue', out') :
                 ~Conversation(w.msg, n) \/ \E i \in 1..Len(v) : w = v[i]
    BY <1>0, HandlerFlight DEF SafeInv
  <1> SUFFICES ASSUME NEW c \in Clients, NEW w \in InFlight(queue', out'),
                      Connected(c), Conversation(w.msg, pname[c]),
                      cstate[c] = "waiting", cmsg[c].type = "LOCK_RELEASE"
               PROVE  Accepts(c, w)'
    BY DEF AcceptInv, Accepts, Connected
  <1>2. PICK l \in Locks : l = cmsg[c].lock
    BY <1>0 DEF SafeInv, TypeInv, QueueInv
  <1>3. PICK u : u = cmsg[c].uuid /\ u # 0
    BY <1>0, UuidsDistinct
  <1>4. CASE lockDict'[Master][l] = u
    <2>1. Tells(c, w)'
      BY DEF TableInv, RecordsInv, TellsInv, Connected
    <2>2. w.msg.type = "LOCK_RELEASE"
      BY <1>2, <1>3, <1>4, <2>1 DEF Tells
    <2>3. QED BY <1>2, <1>3, <1>4, <2>2 DEF Accepts
  <1>5. CASE lockDict'[Master][l] # u /\ lockDict[Master][l] = u
    <2>1. /\ m.type \in Calls /\ m.uuid = u
          /\ \A i \in 1..Len(v) : v[i].msg.type \in {"LOCK_IDLE", "LOCK_DELETE"}
      BY <1>3, <1>5 DEF Keeps
    <2>2. PICK d \in Clients : CallerOf(m, d)
      BY <1>0, <2>1, CallHandled
    <2>3. d = c
      BY <1>0, <1>3, <2>1, <2>2, UuidsDistinct DEF CallerOf
    <2>4. Conversation(m, pname[c]) /\ Single(queue, out, pname[c])
      BY <1>0, <2>2, <2>3 DEF CallerOf, SafeInv, SingleInv
    <2>5. \E i \in 1..Len(v) : w = v[i]
      BY <1>1, <2>4
    <2>6. QED BY <2>1, <2>5 DEF Accepts
  <1>6. CASE lockDict'[Master][l] # u /\ lockDict[Master][l] # u
    <2>1. ASSUME NEW z \in InFlight(queue, out), Conversation(z.msg, pname[c])
          PROVE  z.msg.type \notin {"LOCK_BUSY", "LOCK_RELEASE"}
      <3>1. Accepts(c, z)
        BY <2>1 DEF AcceptInv
      <3>2. QED BY <1>2, <1>3, <1>6, <3>1 DEF Accepts
    <2>2. CASE w \in InFlight(queue, out)
      BY <2>1, <2>2 DEF Accepts
    <2>3. CASE \E i \in 1..Len(v) : w = v[i]
      <3>1. Conversation(m, pname[c]) /\ m.type \in Calls \cup {"REGISTER"}
        BY <2>3 DEF Echo
      <3>2. Send(pname[s], m).msg = m
        BY DEF Send
      <3>3. m.type # "LOCK_RELEASE"
        BY <1>1, <2>1, <3>1, <3>2
      <3>4. Fits(m)
        BY <1>0, <1>1, <3>2 DEF SafeInv, FlightInv
      <3>5. OfCall(m, c)
        BY <3>1, <3>4 DEF Fits, OfRegistration
      <3>6. QED BY <3>1, <3>3, <3>5 DEF OfCall, Answers, Calls
    <2>4. QED BY <1>1, <2>2, <2>3
  <1>7. QED BY <1>4, <1>5, <1>6

\* When no record and no client changes, it is enough that no message of a
\* conversation is new.
LEMMA SameAccepts ==
    ASSUME AcceptInv, UNCHANGED <<cstate, cmsg>>, lockDict'[Master] = lockDict[Master],
           \A c \in Clients : pname'[c] = pname[c],
           \A z \in InFlight(queue', out') :
              z \in InFlight(queue, out) \/ z.msg.type = "REGISTER"
    PROVE  AcceptInv'
  <1> SUFFICES ASSUME NEW c \in Clients, NEW w \in InFlight(queue', out'),
                      Connected(c), Conversation(w.msg, pname[c])
               PROVE  Accepts(c, w)'
    BY DEF AcceptInv, Connected
  <1>1. CASE w \in InFlight(queue, out)
    <2>1. Accepts(c, w)
      BY <1>1 DEF AcceptInv
    <2>2. QED BY <2>1 DEF Accepts
  <1>2. CASE w.msg.type = "REGISTER"
    BY <1>2 DEF Accepts
  <1>3. QED BY <1>1, <1>2

\* No server refuses a child that unlocks.
LEMMA ServerAccepts ==
    ASSUME TableInv, TableInv', AcceptInv, ServerStep
    PROVE  AcceptInv'
  <1>0. SafeInv /\ UNCHANGED <<cstate, cmsg, held>> /\ Master \in Servers
        /\ lockDict \in [Servers -> [Locks -> Nat]]
    BY DEF ServerStep, TableInv, SafeInv, TypeInv, TypeOK, Servers
  <1>1. CASE MasterStep
    <2>1. PICK m : m = Received(Master)
      OBVIOUS
    <2>2. /\ HasMsg(Master) /\ UNCHANGED pname
          /\ queue' = Popped(Master) \/ \E y \in Int : queue' = MqOpen(Popped(Master), y)
      BY <1>0, <1>1, MasterEcho
    <2>3. PICK v \in Seq(Write) :
             /\ out' = [out EXCEPT ![Master] = v]
             /\ Echo(v, m)
             /\ MasterRelease => \A i \in 1..Len(v) :
                   v[i].msg.type \in {"LOCK_IDLE", "LOCK_DELETE"}
      BY <1>0, <1>1, <2>1, MasterEcho
    <2>4. Keeps(m, v)
      <3>1. CASE MasterRelease
        <4>1. /\ m.type = "LOCK_RELEASE" /\ lockDict[Master][m.lock] = m.uuid
              /\ lockDict' = [lockDict EXCEPT ![Master][m.lock] = 0]
          BY <2>1, <3>1 DEF MasterRelease, Owns, Recorded
        <4>2. \A l \in Locks : l # m.lock => lockDict'[Master][l] = lockDict[Master][l]
          BY <1>0, <4>1
        <4>3. QED BY <2>3, <3>1, <4>1, <4>2 DEF Keeps, Calls
      <3>2. CASE MasterGrant
        <4>1. /\ lockDict[Master][m.lock] = 0
              /\ lockDict' = [lockDict EXCEPT ![Master][m.lock] = m.uuid]
          BY <2>1, <3>2 DEF MasterGrant, IsFree, Recorded
        <4>2. \A l \in Locks : l # m.lock => lockDict'[Master][l] = lockDict[Master][l]
          BY <1>0, <4>1
        <4>3. QED BY <4>1, <4>2 DEF Keeps
      <3>3. CASE ~MasterRelease /\ ~MasterGrant
        <4>1. UNCHANGED lockDict
          BY <1>1, <3>3 DEF MasterStep, MasterRegisterClient, MasterRegisterFoer,
                            MasterRefuse, MasterInquire
        <4>2. QED BY <4>1 DEF Keeps
      <3>4. QED BY <3>1, <3>2, <3>3
    <2>5. QED BY <1>0, <2>1, <2>2, <2>3, <2>4, HandlerAccepts
  <1>2. ASSUME NEW f \in Followers, FollowerStep(f) PROVE AcceptInv'
    <2>1. f \in Servers /\ f # Master
      BY ServerAssumption DEF Servers
    <2>2. lockDict'[Master] = lockDict[Master]
      <3>1. \A l, u : [lockDict EXCEPT ![f][l] = u][Master] = lockDict[Master]
        BY <1>0, <2>1
      <3>2. \E l, u : lockDict' = lockDict \/ lockDict' = [lockDict EXCEPT ![f][l] = u]
        BY <1>2 DEF FollowerStep, FollowerStart, FollowerForward, FollowerInquire,
                    FollowerAdd, FollowerDelete, FollowerIgnore, Forgotten
      <3>3. QED BY <3>1, <3>2
    <2>3. CASE FollowerStart(f)
      BY <1>0, <2>2, <2>3, StartFlight, SameAccepts
    <2>4. CASE ~FollowerStart(f)
      <3>1. PICK m : m = Received(f)
        OBVIOUS
      <3>2. /\ HasMsg(f) /\ UNCHANGED pname
            /\ queue' = Popped(f) \/ \E y \in Int : queue' = MqOpen(Popped(f), y)
        BY <1>0, <1>2, <2>4, FollowerEcho
      <3>3. PICK v \in Seq(Write) : out' = [out EXCEPT ![f] = v] /\ Echo(v, m)
        BY <1>0, <1>2, <2>4, <3>1, FollowerEcho
      <3>4. Keeps(m, v)
        BY <2>2 DEF Keeps
      <3>5. QED BY <1>0, <2>1, <3>1, <3>2, <3>3, <3>4, HandlerAccepts
    <2>5. QED BY <2>3, <2>4
  <1>3. ASSUME NEW s \in Servers, MqWrite(s) PROVE AcceptInv'
    <2>1. s \in Procs /\ UNCHANGED <<lockDict, pname>>
      BY <1>3 DEF MqWrite, Procs
    <2>2. InFlight(queue', out') \subseteq InFlight(queue, out)
      BY <1>0, <1>3, <2>1, WriteFlight DEF SafeInv
    <2>3. QED BY <1>0, <2>1, <2>2, SameAccepts
  <1>4. QED BY <1>1, <1>2, <1>3 DEF ServerStep, ServerNext

\* A step of client c that leaves the table alone: it is enough that what is on
\* its way to c is right.
LEMMA ClientAccepts ==
    ASSUME AcceptInv, NEW c \in Clients, lockDict'[Master] = lockDict[Master],
           \A d \in Clients \ {c} : /\ cstate'[d] = cstate[d] /\ cmsg'[d] = cmsg[d]
                                    /\ pname'[d] = pname[d],
           \A w \in InFlight(queue', out') :
              \/ w \in InFlight(queue, out)
              \/ \A d \in Clients \ {c} : Connected(d) => ~Conversation(w.msg, pname[d]),
           cstate'[c] = "waiting" /\ cmsg'[c].type = "LOCK_RELEASE" =>
              \A w \in InFlight(queue', out') :
                 Conversation(w.msg, pname'[c]) => Accepts(c, w)'
    PROVE  AcceptInv'
  <1> SUFFICES ASSUME NEW d \in Clients, NEW w \in InFlight(queue', out'),
                      Connected(d)', Conversation(w.msg, pname'[d])
               PROVE  Accepts(d, w)'
    BY DEF AcceptInv
  <1>1. CASE d = c
    BY <1>1 DEF Accepts
  <1>2. CASE d # c
    <2>1. Connected(d) /\ Conversation(w.msg, pname[d])
      BY <1>2 DEF Connected
    <2>2. w \in InFlight(queue, out)
      BY <1>2, <2>1
    <2>3. Accepts(d, w)
      BY <2>1, <2>2 DEF AcceptInv
    <2>4. QED BY <1>2, <2>3 DEF Accepts
  <1>3. QED BY <1>1, <1>2

\* A Dlock that connects waits for no answer to a release.
LEMMA ConnectAccepts ==
    ASSUME SafeInv, AcceptInv, NEW c \in Clients, ClientConnect(c)
    PROVE  AcceptInv'
  <1>1. /\ cstate \in [Clients -> CStates] /\ cmsg \in [Clients -> Msg]
        /\ pname \in [Procs -> Int] /\ Clients \subseteq Procs
    BY DEF SafeInv, TypeInv, TypeOK, Procs
  <1>2. /\ lockDict' = lockDict /\ cstate'[c] # "waiting"
        /\ \A d \in Clients \ {c} : /\ cstate'[d] = cstate[d] /\ cmsg'[d] = cmsg[d]
                                    /\ pname'[d] = pname[d]
    BY <1>1 DEF ClientConnect, LookupServer, LookupName, RecvAck
  <1>3. \A w \in InFlight(queue', out') :
           \/ w \in InFlight(queue, out)
           \/ \A d \in Clients \ {c} : Connected(d) => ~Conversation(w.msg, pname[d])
    <2>1. CASE LookupServer(c)
      BY <2>1 DEF LookupServer
    <2>2. CASE LookupName(c)
      BY <2>2, LookupNameFlight
    <2>3. CASE RecvAck(c)
      BY <2>3, ReadFlight
    <2>4. QED BY <2>1, <2>2, <2>3 DEF ClientConnect
  <1>4. QED BY <1>2, <1>3, ClientAccepts

\* A call gives back a lock only if it is recorded for the caller.
LEMMA CallAccepts ==
    ASSUME SafeInv, AcceptInv, NEW c \in Clients, NEW t \in Calls, NEW l \in Locks,
           Call(c, t, l), t = "LOCK_RELEASE" => l \in held[c]
    PROVE  AcceptInv'
  <1>1. /\ cstate \in [Clients -> CStates] /\ cmsg \in [Clients -> Msg]
    BY DEF SafeInv, TypeInv, TypeOK
  <1>2. PICK m : m = CallMsg(c, t, l)
    OBVIOUS
  <1>3. /\ cstate[c] = "idle" /\ cstate' = [cstate EXCEPT ![c] = "waiting"]
        /\ cmsg' = [cmsg EXCEPT ![c] = m] /\ UNCHANGED <<lockDict, pname, queue>>
    BY <1>2 DEF Call, CallMsg
  <1>4. /\ m.type = t /\ m.lock = l /\ m.uuid = cmsg[c].uuid
        /\ Send(m.server, m).msg = m
    BY <1>1, <1>2 DEF Msg, CallMsg, Send
  <1>5. /\ cstate'[c] = "waiting" /\ cmsg'[c] = m
        /\ \A d \in Clients \ {c} : /\ cstate'[d] = cstate[d] /\ cmsg'[d] = cmsg[d]
                                    /\ pname'[d] = pname[d]
    BY <1>1, <1>3
  <1>6. /\ m.name = pname[c]
        /\ \A d \in Clients \ {c} : Connected(d) => pname[d] # pname[c]
        /\ \A z \in InFlight(queue', out') :
              z \in InFlight(queue, out) \/ z = Send(m.server, m)
    <2>1. Call(c, t, l)
      OBVIOUS
    <2>2. QED BY <1>2, <2>1, CallFlight
  <1>7. ASSUME NEW w \in InFlight(queue', out')
        PROVE  \/ w \in InFlight(queue, out)
               \/ \A d \in Clients \ {c} : Connected(d) => ~Conversation(w.msg, pname[d])
    BY <1>4, <1>6 DEF Conversation
  <1>8. ASSUME NEW w \in InFlight(queue', out'), Conversation(w.msg, pname'[c]),
               t = "LOCK_RELEASE"
        PROVE  Accepts(c, w)'
    <2>1. Quiet(queue, out, pname[c])
      BY <1>3, IdleQuiet
    <2>2. w.msg = m
      BY <1>3, <1>4, <1>6, <1>8, <2>1 DEF Quiet
    <2>3. lockDict[Master][l] = cmsg[c].uuid
      BY <1>8 DEF SafeInv, ClientInv
    <2>4. QED BY <1>3, <1>4, <1>5, <1>8, <2>2, <2>3 DEF Accepts
  <1>9. QED BY <1>3, <1>4, <1>5, <1>7, <1>8, ClientAccepts

\* A client that has read its answer waits for none.
LEMMA ReturnAccepts ==
    ASSUME SafeInv, AcceptInv, NEW c \in Clients, Return(c) \/ Close(c)
    PROVE  AcceptInv'
  <1>1. /\ cstate \in [Clients -> CStates] /\ cmsg \in [Clients -> Msg]
    BY DEF SafeInv, TypeInv, TypeOK
  <1>2. /\ UNCHANGED <<lockDict, pname, out>> /\ cstate'[c] # "waiting"
        /\ \A d \in Clients \ {c} : cstate'[d] = cstate[d] /\ cmsg'[d] = cmsg[d]
    BY <1>1 DEF Return, Close
  <1>3. InFlight(queue', out') \subseteq InFlight(queue, out)
    <2>1. CASE Return(c)
      BY <2>1, ReadFlight
    <2>2. CASE Close(c)
      <3>1. /\ DOMAIN queue' \subseteq DOMAIN queue
            /\ \A x \in DOMAIN queue' : queue'[x] = queue[x]
        BY <2>2 DEF Close
      <3>2. InFlight(queue', out) \subseteq InFlight(queue, out)
        BY <3>1, Closed
      <3>3. QED BY <1>2, <3>2
    <2>3. QED BY <2>1, <2>2
  <1>4. QED BY <1>2, <1>3, ClientAccepts

\* Nobody refuses a child that unlocks: it gives back what it has.
LEMMA AcceptNext ==
    ASSUME TableInv, TableInv', UnlockInv, [CounterNext]_allVars
    PROVE  AcceptInv'
  <1>0. SafeInv /\ AcceptInv /\ Filename \in Locks
        /\ "LOCK_REQUEST" \in Calls /\ "LOCK_RELEASE" \in Calls
    BY CounterAssumption DEF TableInv, UnlockInv, Calls
  <1>1. CASE ServerStep
    BY <1>0, <1>1, ServerAccepts
  <1>2. CASE UNCHANGED vars
    BY <1>0, <1>2, SameAccepts DEF vars, serverVars
  <1>3. ASSUME NEW c \in Clients, ClientWrite(c) PROVE AcceptInv'
    <2>1. MqWrite(c) /\ c \in Procs /\ UNCHANGED <<lockDict, pname, cstate, cmsg>>
      BY <1>3 DEF ClientWrite, MqWrite, Procs
    <2>2. InFlight(queue', out') \subseteq InFlight(queue, out)
      BY <1>0, <2>1, WriteFlight DEF SafeInv
    <2>3. QED BY <1>0, <2>1, <2>2, SameAccepts
  <1>4. ASSUME NEW c \in Clients, Child(c) PROVE AcceptInv'
    <2>1. CASE ClientConnect(c)
      BY <1>0, <2>1, ConnectAccepts
    <2>2. CASE TryLock(c)
      BY <1>0, <2>2, CallAccepts DEF TryLock
    <2>3. CASE TryUnlock(c)
      BY <1>0, <2>3, CallAccepts DEF TryUnlock, UnlockInv
    <2>4. CASE Return(c) \/ Close(c)
      BY <1>0, <2>4, ReturnAccepts
    <2>5. QED BY <1>2, <1>4, <2>1, <2>2, <2>3, <2>4
              DEF Child, TryLockReturns, TryUnlockReturns, Finish,
                  ReadFile, Truncate, WriteFile
  <1>5. QED BY <1>1, <1>2, <1>3, <1>4 DEF CounterNext, allVars

\* The answer to the release of a lock that was given back is LOCK_IDLE.
LEMMA ReleaseAnswered ==
    ASSUME SafeInv, UnlockInv, NEW c \in Clients, TryUnlockReturns(c)
    PROVE  Answer(c).type = "LOCK_IDLE"
  <1>1. /\ Return(c) /\ cstate[c] = "waiting" /\ cmsg[c].type = "LOCK_RELEASE"
    BY DEF TryUnlockReturns, UnlockInv
  <1>2. PICK z : z = Answer(c)
    OBVIOUS
  <1>3. 1 \in 1..Len(queue[pname[c]]) /\ z = queue[pname[c]][1]
    BY <1>1, <1>2, AnswerTaken
  <1>4. /\ Connected(c) /\ Conversation(z, pname[c])
        /\ z.type \in AnswerTypes \cup {"REGISTER_ACK"}
        /\ OfRegistration(z, c) \/ OfCall(z, c)
    BY <1>1, <1>3, QueueOfClient
  <1>5. z.type \in {"LOCK_IDLE", "LOCK_BUSY"}
    BY <1>1, <1>4 DEF OfRegistration, OfCall, AnswerTypes, Answers
  <1>6. Send(pname[c], z) \in InFlight(queue, out) /\ Send(pname[c], z).msg = z
    <2>1. pname[c] \in DOMAIN queue
      BY <1>1 DEF SafeInv, TypeInv, TypeOK, QueueInv, Connected
    <2>2. QED BY <1>3, <2>1, FlightCases DEF Send
  <1>7. Accepts(c, Send(pname[c], z))
    BY <1>4, <1>6 DEF UnlockInv, AcceptInv
  <1>8. QED BY <1>1, <1>2, <1>5, <1>6, <1>7 DEF Accepts

\* A child unlocks when it has written, and needs no second try.
LEMMA UnlockPlaces ==
    ASSUME TableInv, CounterInv, UnlockInv, [CounterNext]_allVars,
           NEW c \in Clients
    PROVE  /\ pc'[c] = "unlock" => Filename \in held'[c]
           /\ pc'[c] = "unlocking" => /\ cstate'[c] = "waiting"
                                      /\ cmsg'[c].type = "LOCK_RELEASE"
           /\ pc[c] = "unlocking" => pc'[c] # "unlock"
  <1>0. /\ cstate \in [Clients -> CStates] /\ cmsg \in [Clients -> Msg]
        /\ held \in [Clients -> SUBSET Locks] /\ SafeInv
        /\ DOMAIN pc = Clients
    BY DEF TableInv, SafeInv, TypeInv, TypeOK, CounterInv
  <1>1. /\ pc[c] = "unlock" => Filename \in held[c]
        /\ pc[c] = "unlocking" => /\ cstate[c] = "waiting"
                                  /\ cmsg[c].type = "LOCK_RELEASE"
    BY DEF UnlockInv
  <1>2. CASE ServerStep /\ UNCHANGED counterVars
    BY <1>1, <1>2 DEF ServerStep, counterVars
  <1>3. CASE UNCHANGED allVars
    BY <1>1, <1>3 DEF allVars, vars, counterVars
  <1>4. ASSUME NEW d \in Clients, ClientWrite(d), UNCHANGED counterVars
        PROVE  UNCHANGED <<pc, held, cstate, cmsg>>
    BY <1>4 DEF ClientWrite, counterVars
  <1>5. ASSUME NEW d \in Clients, Child(d), d # c
        PROVE  /\ pc'[c] = pc[c] /\ held'[c] = held[c]
               /\ cstate'[c] = cstate[c] /\ cmsg'[c] = cmsg[c]
    <2>1. CASE ClientConnect(d) /\ UNCHANGED counterVars
      BY <1>0, <1>5, <2>1 DEF ClientConnect, LookupServer, LookupName, RecvAck, counterVars
    <2>2. CASE ReadFile(d) \/ Truncate(d) \/ WriteFile(d)
      BY <1>0, <1>5, <2>2 DEF ReadFile, Truncate, WriteFile, Goto, vars
    <2>3. CASE TryLock(d) \/ TryUnlock(d)
      BY <1>0, <1>5, <2>3 DEF TryLock, TryUnlock, Goto, Call
    <2>4. CASE TryLockReturns(d) \/ TryUnlockReturns(d)
      BY <1>0, <1>5, <2>4 DEF TryLockReturns, TryUnlockReturns, Goto, Return
    <2>5. CASE Finish(d)
      BY <1>0, <1>5, <2>5 DEF Finish, Goto, Close
    <2>6. QED BY <1>5, <2>1, <2>2, <2>3, <2>4, <2>5 DEF Child
  <1>6. CASE Child(c)
    <2>1. CASE ClientConnect(c) /\ UNCHANGED counterVars
      <3>1. UNCHANGED <<pc, held>> /\ cstate[c] # "waiting"
        BY <2>1 DEF ClientConnect, LookupServer, LookupName, RecvAck, counterVars
      <3>2. QED BY <1>1, <3>1
    <2>2. CASE TryLock(c) \/ ReadFile(c) \/ Truncate(c)
      <3>1. pc'[c] \in {"locking", "truncate", "write"}
        BY <1>0, <2>2 DEF TryLock, ReadFile, Truncate, Goto
      <3>2. QED BY <3>1
    <2>3. CASE TryLockReturns(c) \/ Finish(c)
      <3>1. pc'[c] \in {"read", "again", "done"}
        BY <1>0, <2>3 DEF TryLockReturns, Finish, Goto
      <3>2. QED BY <3>1
    <2>4. CASE WriteFile(c)
      <3>1. pc[c] = "write" /\ pc'[c] = "unlock" /\ UNCHANGED held
        BY <1>0, <2>4 DEF WriteFile, Goto, vars
      <3>2. QED BY <3>1 DEF CounterInv, Using
    <2>5. CASE TryUnlock(c)
      <3>1. pc[c] = "unlock" /\ pc'[c] = "unlocking"
        BY <1>0, <2>5 DEF TryUnlock, Goto
      <3>2. cstate'[c] = "waiting" /\ cmsg'[c].type = "LOCK_RELEASE"
        BY <1>0, <2>5 DEF TryUnlock, Call, Msg
      <3>3. QED BY <3>1, <3>2
    <2>6. CASE TryUnlockReturns(c)
      <3>1. Answer(c).type = "LOCK_IDLE"
        BY <1>0, <2>6, ReleaseAnswered
      <3>2. pc'[c] = "loop"
        BY <1>0, <2>6, <3>1 DEF TryUnlockReturns, Goto
      <3>3. QED BY <3>2
    <2>7. QED BY <1>6, <2>1, <2>2, <2>3, <2>4, <2>5, <2>6 DEF Child
  <1>7. CASE \E d \in Clients : Child(d) \/ (ClientWrite(d) /\ UNCHANGED counterVars)
    BY <1>1, <1>4, <1>5, <1>6, <1>7
  <1>8. QED BY <1>2, <1>3, <1>7 DEF CounterNext

\* Every step keeps UnlockInv.
LEMMA UnlockInvNext ==
    TableInv /\ TableInv' /\ CounterInv /\ UnlockInv /\ [CounterNext]_allVars
        => UnlockInv'
  <1> SUFFICES ASSUME TableInv, TableInv', CounterInv, UnlockInv,
                      [CounterNext]_allVars
               PROVE  UnlockInv'
    OBVIOUS
  <1>1. AcceptInv'
    BY AcceptNext
  <1>2. \A c \in Clients :
           /\ pc'[c] = "unlock" => Filename \in held'[c]
           /\ pc'[c] = "unlocking" => /\ cstate'[c] = "waiting"
                                      /\ cmsg'[c].type = "LOCK_RELEASE"
    BY UnlockPlaces
  <1>3. QED BY <1>1, <1>2 DEF UnlockInv

\* Nobody waits for anything at first.
LEMMA UnlockInvInit == CounterInit => UnlockInv
  BY DEF CounterInit, Init, UnlockInv, AcceptInv, Accepts

\* A child of test.cpp only gives back what the master has recorded for it.
THEOREM UnlockInvariant == CounterSpec => []UnlockInv
  BY UnlockInvInit, UnlockInvNext, CounterTable, CounterInvariant, PTL DEF CounterSpec

\* child_process never prints "fail to tryunlock": TryUnlock of a lock that
\* the child was granted succeeds at the first try.
THEOREM UnlocksAccepted == CounterSpec => UnlockNotRefused
  <1>1. TableInv /\ CounterInv /\ UnlockInv /\ [CounterNext]_allVars
           => [\A c \in Clients : pc[c] = "unlocking" => pc'[c] # "unlock"]_allVars
    BY UnlockPlaces
  <1>2. QED BY <1>1, CounterTable, CounterInvariant, UnlockInvariant, PTL
            DEF CounterSpec, UnlockNotRefused
=============================================================================
