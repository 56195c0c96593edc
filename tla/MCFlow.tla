-------------------------------- MODULE MCFlow --------------------------------
(* Two tags with two workers each: a stream of up to three items beside    *)
(* one of at most one.                                                     *)
EXTENDS Flow

TwoTags   == <<"a", "b">>
TwoGroups == [t \in {"a", "b"} |-> <<"x", "y">>]
LongShort == [t \in {"a", "b"} |-> IF t = "a" THEN 3 ELSE 1]
DataFlush == [t \in {"a", "b"} |-> IF t = "a" THEN {"data", "flush"} ELSE {"data"}]
=============================================================================
