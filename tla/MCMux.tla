--------------------------------- MODULE MCMux ---------------------------------
(* Three sources feed two groups in opposite orders, as in test_mux.cxx.   *)
EXTENDS Mux

CONSTANT Most

TwoGroups   == <<"num", "num2">>
Opposite    == [num |-> <<"s1", "s2", "s3">>, num2 |-> <<"s3", "s2", "s1">>]
Items_each  == [s \in {"s1", "s2", "s3"} |-> Most]
=============================================================================
