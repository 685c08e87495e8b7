----------------------------- MODULE MCAppClient -----------------------------
(* Instances of AppClient for TLC. *)
EXTENDS AppClient, TLC

CONSTANTS m0, f1, c1, c2, l1, l2

Symmetry == Permutations(Clients) \cup Permutations(Locks)

FoersUp == \A f \in Followers : \E i \in 1..Len(mqFoers) : mqFoers[i] = pname[f]

\* The followers register before the clients start, and a client starts when
\* no other is between its start and its ACK.
Connecting(c) == cstate[c] \in {"lookup", "registering"}
OneConnects == \A c, d \in Clients : (Connecting(c) /\ Connecting(d))' => c = d

\* Two users type no more than three commands together.
FewCommands == \A c, d \in Clients : c # d => typed'[c] + typed'[d] <= 3

OrderedNext ==
    /\ AppNext
    /\ FoersUp \/ UNCHANGED cstate
    /\ OneConnects
    /\ FewCommands
OrderedSpec == AppInit /\ [][OrderedNext]_appVars
=============================================================================
