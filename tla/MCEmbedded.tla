------------------------------ MODULE MCEmbedded ------------------------------
(* The input adapter feeds the output adapter, directly and over a worker. *)
EXTENDS Embedded

MCProcs    == {"ia", "worker", "oa"}
MCEdges    == {"iw", "io", "wo"}
MCInputs   == [ia |-> <<>>, worker |-> <<"iw">>, oa |-> <<"io", "wo">>]
Port(e)    == [edges |-> <<e>>, freq |-> 1, required |-> TRUE]
MCOutputs  == [ia |-> <<Port("io"), Port("iw")>>, worker |-> <<Port("wo")>>, oa |-> <<>>]
Ones       == [e \in MCEdges |-> 1]
MCCore     == [p \in MCProcs |-> 1]
MCElements == 0..MaxSets
=============================================================================
