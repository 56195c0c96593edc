---------------------------- MODULE MCDataflow ----------------------------
(***************************************************************************)
(* Small pipelines for Dataflow and SyncScheduler.                         *)
(***************************************************************************)
EXTENDS SyncScheduler

Port(es)        == [edges |-> es, freq |-> 1, required |-> TRUE]

(* A diamond: "source" feeds "left" and "right", which meet in "sink".     *)
DiamondProcs   == {"source", "left", "right", "sink"}
DiamondEdges   == {"sl", "sr", "ls", "rs"}

(* Rates: "pairs" pushes two data in a step, for "filter", which reads     *)
(* them one by one, and for "batch", which reads both edges two by two.    *)
RatesProcs     == {"pairs", "filter", "batch"}
RatesEdges     == {"pf", "pb", "fb"}

BothPipelines  == {DiamondProcs, RatesProcs}
BothProcs      == DiamondProcs \cup RatesProcs
BothEdges      == DiamondEdges \cup RatesEdges
BothInputs     == [source |-> <<>>, left |-> <<"sl">>, right |-> <<"sr">>, sink |-> <<"ls", "rs">>,
                   pairs |-> <<>>, filter |-> <<"pf">>, batch |-> <<"fb", "pb">>]
BothOutputs    == [source |-> <<Port(<<"sl", "sr">>)>>, left |-> <<Port(<<"ls">>)>>,
                   right |-> <<Port(<<"rs">>)>>, sink |-> <<>>,
                   pairs |-> <<[edges |-> <<"pf", "pb">>, freq |-> 2, required |-> TRUE]>>,
                   filter |-> <<Port(<<"fb">>)>>, batch |-> <<>>]
BothInFreq     == [e \in BothEdges |-> IF e \in {"pb", "fb"} THEN 2 ELSE 1]
BothCapacity   == [e \in BothEdges |-> IF e \in DiamondEdges THEN 1 ELSE 2]
BothCore       == [p \in BothProcs |-> IF p = "filter" THEN 2 ELSE 1]

(* Two sources, one of which is read twice in a step of the join.          *)
MixedProcs    == {"first", "second", "join"}
MixedEdges    == {"fj", "sj"}
MixedPipeline == {MixedProcs}
MixedInputs   == [first |-> <<>>, second |-> <<>>, join |-> <<"fj", "sj">>]
MixedOutputs  == [first |-> <<Port(<<"fj">>)>>, second |-> <<Port(<<"sj">>)>>, join |-> <<>>]
MixedInFreq   == [fj |-> 2, sj |-> 1]
MixedCore     == [first |-> 2, second |-> 1, join |-> 1]
MixedCapacity == [fj |-> 2, sj |-> 2]
=============================================================================
