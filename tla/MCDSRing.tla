------------------------------ MODULE MCDSRing ------------------------------
\* Instances of the ring for TLC.
EXTENDS DSRing, TLC

\* Data servers differ only in their names.
Perms == Permutations(Servers)
=============================================================================
