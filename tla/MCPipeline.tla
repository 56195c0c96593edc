----------------------------- MODULE MCPipeline -----------------------------
(* A source with an output of a type of its own and one whose type it      *)
(* knows when it is configured, two flow-dependent processes of which the  *)
(* first stands behind the ports of two nested clusters, and a sink with   *)
(* an input of a type of its own and one of any type.                      *)
EXTENDS Pipeline

FourProcs == <<"filter", "pass", "sink", "source">>
AllOutputs == {"source.num", "source.dep", "filter.out", "pass.out"}
AllInputs  == {"filter.in", "pass.in", "sink.num", "sink.any", "box.in", "inner.in"}
Owners ==
  LET of == [source |-> {"source.num", "source.dep"}, filter |-> {"filter.in", "filter.out"},
             pass |-> {"pass.in", "pass.out"}, sink |-> {"sink.num", "sink.any"},
             box |-> {"box.in"}, inner |-> {"inner.in"}]
  IN  [p \in AllOutputs \cup AllInputs |-> CHOOSE o \in DOMAIN of : p \in of[o]]
Mappings == ("box.in" :> <<"inner.in">>) @@ ("inner.in" :> <<"filter.in", "sink.any">>)
Flows    == {"filter.in", "filter.out", "pass.in", "pass.out"}
DeclaredTypes ==
  [p \in AllOutputs \cup AllInputs |->
    IF p \in Flows THEN "flow_dependent"
    ELSE IF p = "source.dep" THEN "data_dependent"
    ELSE IF p \in {"source.num", "sink.num"} THEN "num" ELSE "any"]
Tags == [p \in AllOutputs \cup AllInputs |-> IF p \in Flows THEN "tag" ELSE "none"]
DepProvides == "source.dep" :> "text"

(* Chains from the source to the sink whose types agree and some that do   *)
(* not, and connections beside them.                                       *)
WantedConnections ==
  {<<"source.num", "box.in">>, <<"source.dep", "filter.in">>, <<"filter.out", "pass.in">>,
   <<"pass.out", "sink.any">>, <<"pass.out", "sink.num">>, <<"source.num", "sink.num">>,
   <<"source.num", "sink.any">>}

(* Neither is ever pinned when it is taken back.                           *)
TakenBack == {<<"source.num", "box.in">>, <<"source.num", "sink.any">>}
Pinned    == {<<"pass.out", "sink.num">>}
=============================================================================
