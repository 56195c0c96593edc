---------------------------- MODULE BoundedBuffer ----------------------------
(***************************************************************************)
(* vital::bounded_buffer (vital/util/bounded_buffer.h): a ring of Size     *)
(* elements, a mutex and two condition variables.  Each action is what a   *)
(* thread does while it holds the mutex: one test of the loop condition,   *)
(* and either the wait or the transfer.  A thread that waits does nothing  *)
(* until notify_one picks it, and tests again then.                        *)
(*                                                                         *)
(* Reset is left out: nothing calls it.                                    *)
(***************************************************************************)
EXTENDS Naturals, Sequences, FiniteSets

CONSTANTS
  Queues,   \* the buffers
  Size,     \* the size they are constructed with
  Elements, \* what can be sent
  NoElement \* the null element that the ring is filled with

ASSUME SizeAssumption == Size \in Nat \ {0}

VARIABLE buf   \* per buffer, its members

Empty_buffer ==
  [begin |-> 0, end |-> 0, buffered |-> 0,
   circular_buf |-> [i \in 0..(Size - 1) |-> NoElement],
   not_full |-> {}, not_empty |-> {}]   \* the threads that wait

BufferInit == buf = [k \in Queues |-> Empty_buffer]

Full(k)  == buf[k].buffered = Size
Empty(k) == buf[k].buffered = 0

Oldest(k) == buf[k].circular_buf[buf[k].begin]

(* The threads that wait after notify_one: one less, if there is any.      *)
notify_one(W) == IF W = {} THEN {W} ELSE {W \ {t} : t \in W}

Waits(t, k) == t \in buf[k].not_full \cup buf[k].not_empty

SendWait(t, k) ==
  /\ ~Waits(t, k) /\ Full(k)
  /\ buf' = [buf EXCEPT ![k].not_full = @ \cup {t}]

(* Mistake: nobody is told that there is an element.                       *)
Send_Silently(t, k, m) ==
  /\ ~Waits(t, k) /\ ~Full(k)
  /\ buf' = [buf EXCEPT ![k].circular_buf[buf[k].end] = m,
                        ![k].end = (@ + 1) % Size,
                        ![k].buffered = @ + 1]

(* Mistake: the ring is not closed at its last place.                      *)
Send_NoWrap(t, k, m) ==
  /\ ~Waits(t, k) /\ ~Full(k)
  /\ \E W \in notify_one(buf[k].not_empty) :
       buf' = [buf EXCEPT ![k].circular_buf[buf[k].end] = m,
                          ![k].end = IF @ + 1 < Size THEN @ + 1 ELSE @,
                          ![k].buffered = @ + 1,
                          ![k].not_empty = W]

Send(t, k, m) ==
  /\ ~Waits(t, k) /\ ~Full(k)
  /\ \E W \in notify_one(buf[k].not_empty) :
       buf' = [buf EXCEPT ![k].circular_buf[buf[k].end] = m,
                          ![k].end = (@ + 1) % Size,
                          ![k].buffered = @ + 1,
                          ![k].not_empty = W]

ReceiveWait(t, k) ==
  /\ ~Waits(t, k) /\ Empty(k)
  /\ buf' = [buf EXCEPT ![k].not_empty = @ \cup {t}]

(* What it returns is Oldest(k).                                           *)
Receive(t, k) ==
  /\ ~Waits(t, k) /\ ~Empty(k)
  /\ \E W \in notify_one(buf[k].not_full) :
       buf' = [buf EXCEPT ![k].begin = (@ + 1) % Size,
                          ![k].buffered = @ - 1,
                          ![k].not_full = W]

(* Any threads that use the buffers as they like.                          *)
BufferNext(Threads) ==
  \E t \in Threads, k \in Queues :
    \/ SendWait(t, k) \/ ReceiveWait(t, k) \/ Receive(t, k)
    \/ \E m \in Elements : Send(t, k, m)

BufferSpec(Threads) == BufferInit /\ [][BufferNext(Threads)]_buf

-----------------------------------------------------------------------------
Contents(b) == [i \in 1..b.buffered |-> b.circular_buf[(b.begin + i - 1) % Size]]

Fifo == INSTANCE FifoSpec WITH contents <- [k \in Queues |-> Contents(buf[k])]

(* Each buffer does what FifoSpec says: no element is lost, doubled or     *)
(* overtaken when the ring closes or when threads wait and are woken.      *)
ImplementsFifo == Fifo!Spec
=============================================================================
