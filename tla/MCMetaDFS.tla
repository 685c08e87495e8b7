------------------------------ MODULE MCMetaDFS ------------------------------
\* Instances of the metadata service for TLC.
EXTENDS MetaStore, TLC

CONSTANTS u1, u2, u3, c1, c2, f1, f2, s1, s2

\* Three users on two connections, and all users on one.
SharedConn == u1 :> c1 @@ u2 :> c1 @@ u3 :> c2
OneConn == [u \in Users |-> c1]

Symmetry == Permutations(Files) \cup Permutations(Servers)

\* main.cc starts the client seconds after the data servers.
OrderedStoreSpec ==
    StoreInit /\ [][StoreNext /\ (ServersReady \/ UNCHANGED userAt)]_allVars
=============================================================================
