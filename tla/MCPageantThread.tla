---------------------------- MODULE MCPageantThread ----------------------------
(***************************************************************************)
(* PageantThread for TLC: a message that fills its mapping, one that is a  *)
(* byte too long for it, one over the limit, one that is empty, a mapping  *)
(* without room for a length, and an answer that does not fit.             *)
(***************************************************************************)
EXTENDS PageantThread

CONSTANTS c1, c2

MCClients == {c1, c2}

Req(s, l, r) == [size |-> s, length |-> l, reply |-> r]

MCRequests == {Req(8, 4, 8), Req(8, 5, 5), Req(20, 9, 5), Req(8, 0, 5), Req(3, 1, 5),
               Req(8, 1, 9)}

================================================================================
