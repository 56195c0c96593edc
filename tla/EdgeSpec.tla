------------------------------ MODULE EdgeSpec ------------------------------
(***************************************************************************)
(* What an edge of a sprokit pipeline promises, without its locks,         *)
(* condition variables and threads: a first-in first-out channel of        *)
(* bounded capacity with one writer and one reader, which the reader may   *)
(* close.  Edge.tla, the module translated from edge.cxx, implements it.   *)
(*                                                                         *)
(* Closing empties the channel.  A datum that was offered before the       *)
(* channel was closed may still be accepted after it (the code tests the   *)
(* flag and stores the datum under two different locks), so "closed" does  *)
(* not imply "empty" here.                                                 *)
(***************************************************************************)
EXTENDS Naturals, Sequences

CONSTANTS
  Capacity,   \* most data the channel holds; 0 means no bound
  Items,      \* what can be sent
  None        \* not an item: no send is pending

VARIABLES
  q,          \* the data in the channel, oldest first
  closed,     \* the reader wants no more data
  offered,    \* the item of the pending send, or None
  wanted,     \* how many data the pending receive needs to see, 0 if none
  got         \* every item received so far, in order

vars == <<q, closed, offered, wanted, got>>

HasRoom == Capacity = 0 \/ Len(q) < Capacity

Init ==
  /\ q = <<>>
  /\ closed = FALSE
  /\ offered = None
  /\ wanted = 0
  /\ got = <<>>

(* The writer asks to send an item; it is not asked while the channel is closed. *)
Offer(x) ==
  /\ offered = None /\ ~closed
  /\ offered' = x
  /\ UNCHANGED <<q, closed, wanted, got>>

Accept ==
  /\ offered # None /\ HasRoom
  /\ q' = Append(q, offered)
  /\ offered' = None
  /\ UNCHANGED <<closed, wanted, got>>

(* A send with a time limit fails, leaving the channel as it was. *)
FailToSend ==
  /\ offered # None /\ ~HasRoom
  /\ offered' = None
  /\ UNCHANGED <<q, closed, wanted, got>>

(* A receive needs one datum; a look at the n-th datum needs n of them.    *)
Ask ==
  /\ wanted = 0 /\ ~closed
  /\ wanted' \in Nat \ {0}
  /\ UNCHANGED <<q, closed, offered, got>>

Receive ==
  /\ wanted = 1 /\ q # <<>>
  /\ got' = Append(got, Head(q))
  /\ q' = Tail(q)
  /\ wanted' = 0
  /\ UNCHANGED <<closed, offered>>

(* The reader looks at the datum at position wanted and leaves it there. *)
Look ==
  /\ wanted > 0 /\ Len(q) >= wanted
  /\ wanted' = 0
  /\ UNCHANGED <<q, closed, offered, got>>

FailToReceive ==
  /\ wanted = 1 /\ q = <<>>
  /\ wanted' = 0
  /\ UNCHANGED <<q, closed, offered, got>>

Close ==
  /\ wanted = 0
  /\ closed' = TRUE
  /\ q' = <<>>
  /\ UNCHANGED <<offered, wanted, got>>

Next ==
  \/ \E x \in Items : Offer(x)
  \/ Accept \/ FailToSend
  \/ Ask \/ Receive \/ Look \/ FailToReceive
  \/ Close

Safety == Init /\ [][Next]_vars

(* A send that finds room, and a receive that finds data, are not left     *)
(* pending for ever: no wakeup is lost.                                    *)
Spec ==
  /\ Safety
  /\ WF_vars(Accept)
  /\ WF_vars(Receive \/ Look)
=============================================================================
