--------------------------- MODULE MCLockedCounter ---------------------------
(* An instance of LockedCounter for TLC, with what it says of the replica. *)
EXTENDS LockedCounter, DlockReplicas, TLC

CONSTANTS m0, f1, f2, c1, c2, c3, c4, file1

\* The children are alike, so they are named in the order in which they draw a
\* server; and two at most are alive at a time.
Named == <<c1, c2, c3, c4>>
Started(c) == cstate[c] # "start"
Alive(c) == Started(c) /\ pc[c] # "done"
TwoAtATime ==
    /\ \A i \in 2..Cardinality(Clients) : Started(Named[i])' => Started(Named[i - 1])'
    /\ Cardinality({c \in Clients : Alive(c)'}) <= 2

TwoChildrenSpec ==
    CounterInit /\ [][CounterNext /\ TwoAtATime]_allVars /\ CounterFairness
=============================================================================
