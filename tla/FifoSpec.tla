------------------------------- MODULE FifoSpec -------------------------------
(***************************************************************************)
(* What vital::bounded_buffer (vital/util/bounded_buffer.h) promises: what *)
(* is sent is received once, in the order in which it was sent, and no     *)
(* more than Size elements are ever under way.                             *)
(***************************************************************************)
EXTENDS Naturals, Sequences

CONSTANTS
  Queues,   \* the buffers
  Size,     \* the elements each of them holds
  Elements  \* what can be sent

VARIABLE contents   \* per buffer, its elements from the oldest to the newest

Init == contents = [k \in Queues |-> <<>>]

Put(k, m) ==
  /\ Len(contents[k]) < Size
  /\ contents' = [contents EXCEPT ![k] = Append(@, m)]

Get(k) ==
  /\ contents[k] # <<>>
  /\ contents' = [contents EXCEPT ![k] = Tail(@)]

Next == \E k \in Queues : Get(k) \/ \E m \in Elements : Put(k, m)

Spec == Init /\ [][Next]_contents
=============================================================================
