------------------------- MODULE MCMessages -------------------------
(* Both projects, a name and the empty name, a length of two bytes, -1. *)
EXTENDS MessageExchange

MCFiles == {<<102>>, << >>}
MCNumbers == {0, 300, -1}
=====================================================================
