---------------------------- MODULE MCTrayDialogs ------------------------------
(* TrayDialogs with two keys: every List returns both, in one order, or the *)
(* second one alone, so that its position changes from one to the other.    *)
EXTENDS TrayDialogs

MCLists == {<<"k1", "k2">>, <<"k2">>}

================================================================================
