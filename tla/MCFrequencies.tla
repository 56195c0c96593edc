--------------------------- MODULE MCFrequencies ---------------------------
(***************************************************************************)
(* Small pipelines for Frequencies: acyclic and connected, as a pipeline   *)
(* is after check_for_required_ports and check_for_dag, with their         *)
(* connections in any order.  Ports of frequency 0 may cut them in parts.  *)
(***************************************************************************)
EXTENDS Frequencies

Whole(k)    == [n |-> k, d |-> 1]
Zero        == Whole(0)
FewRates    == {Whole(1), Whole(2)}
ManyRates   == FewRates \cup {Zero, Whole(3), [n |-> 1, d |-> 2]}

Links(n, rates) ==
  {c \in [up : 1..n, down : 1..n, upf : rates, downf : rates] : c.up < c.down}

(* No set of processes is cut off from the rest.                           *)
Connected(procs, cs) ==
  \A S \in (SUBSET procs) \ {{}, procs} :
    \E i \in DOMAIN cs : (cs[i].up \in S) # (cs[i].down \in S)

Graphs(n, len, rates) ==
  {p \in [procs : {1..n}, connections : [1..len -> Links(n, rates)]] :
     Connected(p.procs, p.connections)}

AllPipelines ==
  Graphs(1, 0, {}) \cup Graphs(2, 2, ManyRates) \cup Graphs(3, 2, ManyRates)
    \cup Graphs(3, 3, FewRates) \cup Graphs(4, 3, {Whole(2), Whole(3)})
    \cup Graphs(4, 3, {Zero, Whole(1)})
=============================================================================
