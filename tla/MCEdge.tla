------------------------------- MODULE MCEdge -------------------------------
(* Instances of Edge for TLC, with the plausible mistakes of the code that *)
(* its properties must notice.                                             *)
EXTENDS Edge
=============================================================================
