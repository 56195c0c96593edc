--------------------------------- MODULE Lists ---------------------------------
(***************************************************************************)
(* Two functions on sequences, as recursive functions: ListsProofs has the *)
(* facts about them that the proofs need, which SelectSeq and FlattenSeq   *)
(* have not.                                                               *)
(***************************************************************************)
EXTENDS Naturals, Sequences

(* The concatenation of a sequence of sequences.                           *)
Concat(ss) ==
  LET to[i \in 0..Len(ss)] == IF i = 0 THEN <<>> ELSE to[i - 1] \o ss[i]
  IN  to[Len(ss)]

(* The elements of s that are in S, in their order.                        *)
Chosen(s, S) ==
  LET to[i \in 0..Len(s)] ==
        IF i = 0 THEN <<>>
        ELSE IF s[i] \in S THEN Append(to[i - 1], s[i]) ELSE to[i - 1]
  IN  to[Len(s)]
=============================================================================
