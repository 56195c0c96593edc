---------------------------- MODULE EmbeddedProofs ----------------------------
(***************************************************************************)
(* Theorems about a pipeline inside an application.                        *)
(*                                                                         *)
(* BoundedBuffer implements FifoSpec for any size, any number of buffers   *)
(* and any threads.  The inductive invariant says where the ring ends: as  *)
(* many places after its begin as it has elements, around the ring.        *)
(*                                                                         *)
(* Each step of Embedded is, for the pipeline, a step of Dataflow, an      *)
(* interruption or a stutter, so that it keeps the invariants of           *)
(* DataflowProofs.                                                         *)
(***************************************************************************)
EXTENDS Embedded, DataflowProofs

Places == 0..(Size - 1)

(* The types of the members.                                               *)
Buffers(Threads) ==
  [begin : Places, end : Places, buffered : 0..Size,
   circular_buf : [Places -> Elements \cup {NoElement}],
   not_full : SUBSET Threads, not_empty : SUBSET Threads]

RingInv(Threads) ==
  /\ buf \in [Queues -> Buffers(Threads)]
  /\ \A k \in Queues : buf[k].end = (buf[k].begin + buf[k].buffered) % Size

(* The place after x, and the place n further on, in a ring.               *)
LEMMA Modulo ==
  /\ \A x \in 0..(Size - 1) : x % Size = x
  /\ \A x \in Size..(2 * Size - 1) : x % Size = x - Size
BY SizeAssumption

LEMMA Around ==
  ASSUME NEW b \in Places, NEW n \in 0..Size
  PROVE  /\ (b + n) % Size = IF b + n < Size THEN b + n ELSE b + n - Size
         /\ (b + n) % Size \in Places
<1>1. CASE b + n < Size
  <2>1. b + n \in 0..(Size - 1)
    BY <1>1, SizeAssumption DEF Places
  <2>2. (b + n) % Size = b + n
    BY <2>1, Modulo
  <2> QED BY <1>1, <2>1, <2>2 DEF Places
<1>2. CASE ~(b + n < Size)
  <2>1. b + n \in Size..(2 * Size - 1) /\ b + n - Size \in Places
    BY <1>2, SizeAssumption DEF Places
  <2>2. (b + n) % Size = b + n - Size
    BY <2>1, Modulo, SizeAssumption DEF Places
  <2> QED BY <1>2, <2>1, <2>2
<1> QED
  BY <1>1, <1>2

(* One place at the begin or at the end of a way around the ring; a way    *)
(* shorter than the ring leads nowhere twice.                              *)
LEMMA OneMore ==
  ASSUME NEW b \in Places, NEW n \in 0..(Size - 1)
  PROVE  /\ (((b + 1) % Size) + n) % Size = (b + (n + 1)) % Size
         /\ (((b + n) % Size) + 1) % Size = (b + (n + 1)) % Size
         /\ \A m \in 0..(Size - 1) : m < n => (b + m) % Size # (b + n) % Size
<1>1. 1 \in 0..Size /\ n \in 0..Size /\ n + 1 \in 0..Size /\ b \in 0..(Size - 1)
  BY SizeAssumption DEF Places
<1>2. /\ (b + 1) % Size \in Places /\ (b + n) % Size \in Places
      /\ (b + 1) % Size = IF b + 1 < Size THEN b + 1 ELSE b + 1 - Size
      /\ (b + n) % Size = IF b + n < Size THEN b + n ELSE b + n - Size
      /\ (b + (n + 1)) % Size = IF b + (n + 1) < Size THEN b + (n + 1) ELSE b + (n + 1) - Size
  BY <1>1, Around
<1>3. (((b + 1) % Size) + n) % Size =
        IF ((b + 1) % Size) + n < Size THEN ((b + 1) % Size) + n ELSE ((b + 1) % Size) + n - Size
  BY <1>1, <1>2, Around
<1>4. (((b + n) % Size) + 1) % Size =
        IF ((b + n) % Size) + 1 < Size THEN ((b + n) % Size) + 1 ELSE ((b + n) % Size) + 1 - Size
  BY <1>1, <1>2, Around
<1>5. ASSUME NEW m \in 0..(Size - 1), m < n PROVE (b + m) % Size # (b + n) % Size
  <2>1. m \in 0..Size
    BY SizeAssumption
  <2>2. (b + m) % Size = IF b + m < Size THEN b + m ELSE b + m - Size
    BY <2>1, Around
  <2> QED BY <1>1, <1>2, <1>5, <2>2, SizeAssumption
<1> DEFINE p == (b + 1) % Size
           u == (b + n) % Size
           r == (b + (n + 1)) % Size
           v == (p + n) % Size
           w == (u + 1) % Size
<1>6. v = r /\ w = r
  <2>1. /\ p = (IF b + 1 < Size THEN b + 1 ELSE b + 1 - Size)
        /\ u = (IF b + n < Size THEN b + n ELSE b + n - Size)
        /\ r = (IF b + (n + 1) < Size THEN b + (n + 1) ELSE b + (n + 1) - Size)
        /\ v = (IF p + n < Size THEN p + n ELSE p + n - Size)
        /\ w = (IF u + 1 < Size THEN u + 1 ELSE u + 1 - Size)
    BY <1>2, <1>3, <1>4
  <2> HIDE DEF p, u, r, v, w
  <2> QED BY <1>1, <2>1, SizeAssumption
<1> QED
  BY <1>5, <1>6

LEMMA NotifyOne ==
  ASSUME NEW Threads, NEW V \in SUBSET Threads, NEW W \in notify_one(V)
  PROVE  W \in SUBSET Threads
BY DEF notify_one

(* The elements as a sequence.                                             *)
LEMMA ContentsPlaces ==
  ASSUME NEW Threads, NEW b \in Buffers(Threads)
  PROVE  /\ Contents(b) \in Seq(Elements \cup {NoElement})
         /\ Len(Contents(b)) = b.buffered
         /\ \A i \in 1..b.buffered : Contents(b)[i] = b.circular_buf[(b.begin + (i - 1)) % Size]
<1>1. b.begin \in Places /\ b.buffered \in 0..Size /\ b.circular_buf \in [Places -> Elements \cup {NoElement}]
  BY DEF Buffers
<1>2. \A i \in 1..b.buffered : b.begin + i - 1 = b.begin + (i - 1) /\ i - 1 \in 0..Size
  BY <1>1, SizeAssumption DEF Places
<1>3. \A i \in 1..b.buffered : (b.begin + i - 1) % Size \in Places
  BY <1>1, <1>2, Around
<1>4. Contents(b) \in [1..b.buffered -> Elements \cup {NoElement}] /\ b.buffered \in Nat
  BY <1>1, <1>3, SizeAssumption DEF Contents
<1>5. Contents(b) \in Seq(Elements \cup {NoElement}) /\ Len(Contents(b)) = b.buffered
  BY <1>4, IsASeq, LenProperties
<1> QED
  BY <1>2, <1>5 DEF Contents

-----------------------------------------------------------------------------
(* One step of a thread at one buffer: what becomes of its contents.       *)

LEMMA SendPuts ==
  ASSUME NEW Threads, RingInv(Threads), NEW t \in Threads, NEW k \in Queues,
         NEW m \in Elements, Send(t, k, m)
  PROVE  /\ RingInv(Threads)'
         /\ Len(Contents(buf[k])) < Size
         /\ Contents(buf'[k]) = Append(Contents(buf[k]), m)
         /\ \A l \in Queues \ {k} : buf'[l] = buf[l]
<1> DEFINE b == buf[k]
           c == buf'[k]
<1>1. PICK W \in notify_one(b.not_empty) :
        buf' = [buf EXCEPT ![k].circular_buf[buf[k].end] = m, ![k].end = (@ + 1) % Size,
                           ![k].buffered = @ + 1, ![k].not_empty = W]
  BY DEF Send
<1>2. /\ b \in Buffers(Threads) /\ b.begin \in Places /\ b.end \in Places /\ b.buffered \in 0..Size
      /\ b.circular_buf \in [Places -> Elements \cup {NoElement}] /\ b.not_full \in SUBSET Threads
      /\ b.not_empty \in SUBSET Threads /\ b.end = (b.begin + b.buffered) % Size
  BY DEF RingInv, Buffers
<1>3. b.buffered \in 0..(Size - 1) /\ b.buffered + 1 \in 0..Size
  BY <1>2, SizeAssumption DEF Send, Full
<1>4. c = [b EXCEPT !.circular_buf[b.end] = m, !.end = (@ + 1) % Size,
                    !.buffered = @ + 1, !.not_empty = W]
  BY <1>1 DEF RingInv
<1>5. /\ c.begin = b.begin /\ c.end = (b.end + 1) % Size /\ c.buffered = b.buffered + 1
      /\ c.circular_buf = [b.circular_buf EXCEPT ![b.end] = m]
      /\ c.not_full = b.not_full /\ c.not_empty = W
  BY <1>2, <1>4 DEF Buffers
<1>6. W \in SUBSET Threads
  BY <1>1, <1>2, NotifyOne
<1>7. 1 \in 0..Size /\ c.end \in Places
  BY <1>2, <1>5, Around, SizeAssumption
<1>8. c \in Buffers(Threads)
  <2>1. [b.circular_buf EXCEPT ![b.end] = m] \in [Places -> Elements \cup {NoElement}]
    BY <1>2
  <2>2. c = [begin |-> c.begin, end |-> c.end, buffered |-> c.buffered,
             circular_buf |-> c.circular_buf, not_full |-> c.not_full, not_empty |-> c.not_empty]
    BY <1>2, <1>4 DEF Buffers
  <2> QED BY <1>2, <1>3, <1>5, <1>6, <1>7, <2>1, <2>2 DEF Buffers
<1>9. c.end = (c.begin + c.buffered) % Size
  BY <1>2, <1>3, <1>5, OneMore
<1>10. \A l \in Queues \ {k} : buf'[l] = buf[l]
  BY <1>1 DEF RingInv
<1>11. RingInv(Threads)'
  <2>1. buf' \in [Queues -> Buffers(Threads)]
    BY <1>1, <1>8, <1>10 DEF RingInv
  <2> QED BY <2>1, <1>9, <1>10 DEF RingInv
<1> HIDE DEF b, c
<1>12. /\ Len(Contents(b)) = b.buffered /\ Contents(b) \in Seq(Elements \cup {NoElement})
       /\ Contents(c) \in Seq(Elements \cup {NoElement}) /\ Len(Contents(c)) = b.buffered + 1
  BY <1>2, <1>5, <1>8, ContentsPlaces
<1>13. Contents(c) = Append(Contents(b), m)
  <2>1. /\ Append(Contents(b), m) \in Seq(Elements \cup {NoElement})
        /\ Len(Append(Contents(b), m)) = b.buffered + 1
        /\ \A i \in 1..b.buffered : Append(Contents(b), m)[i] = Contents(b)[i]
        /\ Append(Contents(b), m)[b.buffered + 1] = m
    BY <1>12, AppendProperties
  <2>2. ASSUME NEW i \in 1..(b.buffered + 1)
        PROVE  Contents(c)[i] = Append(Contents(b), m)[i]
    <3> DEFINE p == (b.begin + (i - 1)) % Size
    <3>1. i - 1 \in 0..(Size - 1) /\ i - 1 \in 0..Size /\ i \in 1..c.buffered
      BY <1>3, <1>5, SizeAssumption
    <3>2. p \in Places
      BY <1>2, <3>1, Around
    <3>3. Contents(c)[i] = c.circular_buf[p]
      <4>1. Contents(c)[i] = c.circular_buf[(c.begin + (i - 1)) % Size]
        BY <1>8, <3>1, ContentsPlaces
      <4> QED BY <4>1, <1>5
    <3> HIDE DEF p
    <3>4. CASE i = b.buffered + 1
      <4>1. i - 1 = b.buffered
        BY <1>3, <3>4
      <4>2. p = b.end
        BY <1>2, <4>1 DEF p
      <4> QED BY <1>2, <1>5, <2>1, <3>3, <3>4, <4>2
    <3>5. CASE i # b.buffered + 1
      <4>1. i \in 1..b.buffered /\ i - 1 < b.buffered
        BY <1>3, <3>5
      <4>2. p # b.end
        BY <1>2, <1>3, <3>1, <4>1, OneMore DEF p
      <4>3. Contents(b)[i] = b.circular_buf[p]
        BY <1>2, <4>1, ContentsPlaces DEF p
      <4> QED BY <1>2, <1>5, <2>1, <3>2, <3>3, <4>1, <4>2, <4>3
    <3> QED BY <3>4, <3>5
  <2> QED BY <1>12, <2>1, <2>2, SeqEqual
<1> QED
  BY <1>2, <1>3, <1>10, <1>11, <1>12, <1>13, SizeAssumption DEF b, c

LEMMA ReceiveGets ==
  ASSUME NEW Threads, RingInv(Threads), NEW t \in Threads, NEW k \in Queues, Receive(t, k)
  PROVE  /\ RingInv(Threads)'
         /\ Contents(buf[k]) # <<>>
         /\ Contents(buf[k])[1] = Oldest(k)
         /\ Contents(buf'[k]) = Tail(Contents(buf[k]))
         /\ \A l \in Queues \ {k} : buf'[l] = buf[l]
<1> DEFINE b == buf[k]
           c == buf'[k]
<1>1. PICK W \in notify_one(b.not_full) :
        buf' = [buf EXCEPT ![k].begin = (@ + 1) % Size, ![k].buffered = @ - 1, ![k].not_full = W]
  BY DEF Receive
<1>2. /\ b \in Buffers(Threads) /\ b.begin \in Places /\ b.end \in Places /\ b.buffered \in 0..Size
      /\ b.circular_buf \in [Places -> Elements \cup {NoElement}] /\ b.not_full \in SUBSET Threads
      /\ b.not_empty \in SUBSET Threads /\ b.end = (b.begin + b.buffered) % Size
  BY DEF RingInv, Buffers
<1>3. b.buffered \in 1..Size /\ b.buffered - 1 \in 0..Size /\ 1 \in 0..Size
  BY <1>2, SizeAssumption DEF Receive, Empty
<1>4. c = [b EXCEPT !.begin = (@ + 1) % Size, !.buffered = @ - 1, !.not_full = W]
  BY <1>1 DEF RingInv
<1>5. /\ c.begin = (b.begin + 1) % Size /\ c.end = b.end /\ c.buffered = b.buffered - 1
      /\ c.circular_buf = b.circular_buf /\ c.not_full = W /\ c.not_empty = b.not_empty
  BY <1>2, <1>4 DEF Buffers
<1>6. W \in SUBSET Threads
  BY <1>1, <1>2, NotifyOne
<1>7. /\ c.begin \in Places
      /\ c.begin = IF b.begin + 1 < Size THEN b.begin + 1 ELSE b.begin + 1 - Size
  BY <1>2, <1>3, <1>5, Around
<1>8. c \in Buffers(Threads)
  BY <1>2, <1>3, <1>4, <1>5, <1>6, <1>7 DEF Buffers
<1>9. c.end = (c.begin + c.buffered) % Size
  <2>1. b.buffered - 1 \in 0..(Size - 1) /\ (b.buffered - 1) + 1 = b.buffered
    BY <1>3, SizeAssumption
  <2> QED BY <1>2, <1>5, <2>1, OneMore
<1>10. \A l \in Queues \ {k} : buf'[l] = buf[l]
  BY <1>1 DEF RingInv
<1>11. RingInv(Threads)'
  <2>1. buf' \in [Queues -> Buffers(Threads)]
    BY <1>1, <1>8, <1>10 DEF RingInv
  <2> QED BY <2>1, <1>9, <1>10 DEF RingInv
<1>12. Oldest(k) = b.circular_buf[b.begin]
  BY DEF Oldest
<1> HIDE DEF b, c
<1>13. /\ Len(Contents(b)) = b.buffered /\ Contents(b) \in Seq(Elements \cup {NoElement})
       /\ Contents(c) \in Seq(Elements \cup {NoElement}) /\ Len(Contents(c)) = b.buffered - 1
  BY <1>2, <1>5, <1>8, ContentsPlaces
<1>14. Contents(b) # <<>>
  BY <1>3, <1>13, EmptySeq
<1>15. Contents(b)[1] = b.circular_buf[b.begin]
  <2>1. (b.begin + (1 - 1)) % Size = b.begin
    BY <1>2, Modulo, SizeAssumption DEF Places
  <2> QED BY <1>2, <1>3, <2>1, ContentsPlaces
<1>16. Contents(c) = Tail(Contents(b))
  <2>1. /\ Tail(Contents(b)) \in Seq(Elements \cup {NoElement})
        /\ Len(Tail(Contents(b))) = b.buffered - 1
        /\ \A i \in 1..(b.buffered - 1) : Tail(Contents(b))[i] = Contents(b)[i + 1]
    BY <1>13, <1>14, HeadTailProperties
  <2>2. ASSUME NEW i \in 1..(b.buffered - 1) PROVE Contents(c)[i] = Tail(Contents(b))[i]
    <3>1. /\ i + 1 \in 1..b.buffered /\ i - 1 \in 0..(Size - 1) /\ i \in 1..c.buffered
          /\ (i + 1) - 1 = i /\ (i - 1) + 1 = i
      BY <1>3, <1>5, SizeAssumption
    <3>2. Contents(c)[i] = b.circular_buf[(c.begin + (i - 1)) % Size]
      BY <1>5, <1>8, <3>1, ContentsPlaces
    <3>3. Contents(b)[i + 1] = b.circular_buf[(b.begin + ((i + 1) - 1)) % Size]
      BY <1>2, <3>1, ContentsPlaces
    <3>4. (c.begin + (i - 1)) % Size = (b.begin + i) % Size
      BY <1>2, <1>5, <3>1, OneMore
    <3> QED BY <2>1, <3>1, <3>2, <3>3, <3>4
  <2> QED BY <1>13, <2>1, <2>2, SeqEqual
<1> QED
  BY <1>10, <1>11, <1>12, <1>14, <1>15, <1>16 DEF b, c

(* A thread that begins to wait changes nothing else.                      *)
LEMMA WaitKeeps ==
  ASSUME NEW Threads, RingInv(Threads), NEW t \in Threads, NEW k \in Queues,
         SendWait(t, k) \/ ReceiveWait(t, k)
  PROVE  /\ RingInv(Threads)'
         /\ \A l \in Queues : Contents(buf'[l]) = Contents(buf[l])
<1>1. ASSUME NEW l \in Queues
      PROVE  /\ buf'[l] \in Buffers(Threads) /\ buf'[l].begin = buf[l].begin
             /\ buf'[l].end = buf[l].end /\ buf'[l].buffered = buf[l].buffered
             /\ buf'[l].circular_buf = buf[l].circular_buf
  <2>1. buf[l] \in Buffers(Threads)
    BY DEF RingInv
  <2>2. CASE SendWait(t, k)
    <3>1. buf'[l] = IF l = k THEN [buf[l] EXCEPT !.not_full = @ \cup {t}] ELSE buf[l]
      BY <2>2 DEF SendWait, RingInv
    <3> QED BY <2>1, <3>1 DEF Buffers
  <2>3. CASE ReceiveWait(t, k)
    <3>1. buf'[l] = IF l = k THEN [buf[l] EXCEPT !.not_empty = @ \cup {t}] ELSE buf[l]
      BY <2>3 DEF ReceiveWait, RingInv
    <3> QED BY <2>1, <3>1 DEF Buffers
  <2> QED BY <2>2, <2>3
<1>2. buf' \in [Queues -> Buffers(Threads)]
  <2>1. buf' = [l \in Queues |-> buf'[l]]
    BY DEF SendWait, ReceiveWait, RingInv
  <2> QED BY <1>1, <2>1
<1>3. RingInv(Threads)'
  BY <1>1, <1>2 DEF RingInv
<1> QED
  BY <1>1, <1>3 DEF Contents

-----------------------------------------------------------------------------
(* A next-state relation of any threads keeps the invariant, and each step *)
(* is one of FifoSpec at that buffer or changes no contents.               *)

LEMMA RingInit ==
  ASSUME NEW Threads, BufferInit
  PROVE  RingInv(Threads) /\ \A k \in Queues : Contents(buf[k]) = <<>>
<1>1. 0 \in Places /\ 0 \in 0..Size /\ 0 % Size = 0
  BY Modulo, SizeAssumption DEF Places
<1>2. Empty_buffer \in Buffers(Threads)
  BY <1>1 DEF Empty_buffer, Buffers, Places
<1>3. RingInv(Threads)
  BY <1>1, <1>2 DEF RingInv, BufferInit, Empty_buffer
<1>4. \A k \in Queues : Contents(buf[k]) = <<>>
  <2>1. Len(Contents(Empty_buffer)) = 0 /\ Contents(Empty_buffer) \in Seq(Elements \cup {NoElement})
    BY <1>2, ContentsPlaces DEF Empty_buffer
  <2> QED BY <2>1, EmptySeq DEF BufferInit
<1> QED
  BY <1>3, <1>4

LEMMA RingStep ==
  ASSUME NEW Threads, RingInv(Threads), [BufferNext(Threads)]_buf
  PROVE  RingInv(Threads)' /\ [Fifo!Next]_([k \in Queues |-> Contents(buf[k])])
<1> DEFINE contents == [k \in Queues |-> Contents(buf[k])]
<1>1. CASE UNCHANGED buf
  BY <1>1 DEF RingInv, Contents
<1>2. ASSUME NEW t \in Threads, NEW k \in Queues, NEW m \in Elements, Send(t, k, m)
      PROVE  RingInv(Threads)' /\ Fifo!Put(k, m)
  <2>1. /\ RingInv(Threads)' /\ Len(Contents(buf[k])) < Size
        /\ Contents(buf'[k]) = Append(Contents(buf[k]), m)
        /\ \A l \in Queues \ {k} : buf'[l] = buf[l]
    BY <1>2, SendPuts
  <2>2. contents' = [contents EXCEPT ![k] = Append(@, m)]
    <3>1. contents' = [l \in Queues |-> Contents(buf'[l])]
      BY DEF Contents
    <3>2. ASSUME NEW l \in Queues
          PROVE  Contents(buf'[l]) = IF l = k THEN Append(Contents(buf[k]), m) ELSE Contents(buf[l])
      BY <2>1
    <3> QED BY <3>1, <3>2
  <2> QED BY <2>1, <2>2 DEF Fifo!Put
<1>3. ASSUME NEW t \in Threads, NEW k \in Queues, Receive(t, k)
      PROVE  RingInv(Threads)' /\ Fifo!Get(k)
  <2>1. /\ RingInv(Threads)' /\ Contents(buf[k]) # <<>>
        /\ Contents(buf'[k]) = Tail(Contents(buf[k]))
        /\ \A l \in Queues \ {k} : buf'[l] = buf[l]
    BY <1>3, ReceiveGets
  <2>2. contents' = [contents EXCEPT ![k] = Tail(@)]
    <3>1. contents' = [l \in Queues |-> Contents(buf'[l])]
      BY DEF Contents
    <3>2. ASSUME NEW l \in Queues
          PROVE  Contents(buf'[l]) = IF l = k THEN Tail(Contents(buf[k])) ELSE Contents(buf[l])
      BY <2>1
    <3> QED BY <3>1, <3>2
  <2> QED BY <2>1, <2>2 DEF Fifo!Get
<1>4. ASSUME NEW t \in Threads, NEW k \in Queues, SendWait(t, k) \/ ReceiveWait(t, k)
      PROVE  RingInv(Threads)' /\ contents' = contents
  <2>1. RingInv(Threads)' /\ \A l \in Queues : Contents(buf'[l]) = Contents(buf[l])
    BY <1>4, WaitKeeps
  <2>2. contents' = [l \in Queues |-> Contents(buf'[l])]
    BY DEF Contents
  <2> QED BY <2>1, <2>2
<1> HIDE DEF contents
<1>5. CASE BufferNext(Threads)
  <2>1. PICK t \in Threads, k \in Queues :
          \/ SendWait(t, k) \/ ReceiveWait(t, k) \/ Receive(t, k)
          \/ \E m \in Elements : Send(t, k, m)
    BY <1>5 DEF BufferNext
  <2> QED BY <2>1, <1>2, <1>3, <1>4 DEF Fifo!Next, contents
<1> QED
  BY <1>1, <1>5

(* In a ring of any size that any threads use, the end stays as many       *)
(* places after the begin as there are elements (bounded_buffer.h).        *)
THEOREM RingCorrect ==
  ASSUME NEW Threads
  PROVE  BufferSpec(Threads) => []RingInv(Threads)
<1>1. BufferInit => RingInv(Threads)
  BY RingInit
<1>2. RingInv(Threads) /\ [BufferNext(Threads)]_buf => RingInv(Threads)'
  BY RingStep
<1> QED
  BY <1>1, <1>2, PTL DEF BufferSpec

(* What is sent into a bounded_buffer is received once, in the order in    *)
(* which it was sent, whatever the size of the ring and however many       *)
(* threads send, receive, wait and are woken (Send and Receive of          *)
(* bounded_buffer.h).                                                      *)
THEOREM BufferIsFifo ==
  ASSUME NEW Threads
  PROVE  BufferSpec(Threads) => ImplementsFifo
<1>1. BufferInit => Fifo!Init /\ RingInv(Threads)
  BY RingInit DEF Fifo!Init
<1>2. RingInv(Threads) /\ [BufferNext(Threads)]_buf
        => RingInv(Threads)' /\ [Fifo!Next]_([k \in Queues |-> Contents(buf[k])])
  BY RingStep
<1> QED
  BY <1>1, <1>2, PTL DEF BufferSpec, ImplementsFifo, Fifo!Spec


-----------------------------------------------------------------------------
(* The pipeline and the buffers in an application.                         *)

LEMMA Adapters ==
  /\ Ia \in Procs /\ Oa \in Procs /\ Ia # Oa
  /\ Inputs[Ia] = <<>> /\ Outputs[Oa] = <<>> /\ SourceKinds = {}
BY EmbeddedAssumption

LEMMA EmbeddedSteps ==
  ASSUME [EmbeddedNext]_embeddedVars PROVE [AnyNext]_vars
<1>1. CASE UNCHANGED embeddedVars
  BY <1>1 DEF embeddedVars
<1>2. CASE AppSend \/ AppReceive \/ Stop \/ IaBegin \/ IaWait \/ OaOffer \/ OaWait \/ OaSend
  BY <1>2 DEF AppSend, AppReceive, Stop, IaBegin, IaWait, OaOffer, OaWait, OaSend
<1>3. CASE IaReceive \/ OaBegin \/ AdapterStep
  <2>1. ProcNext(Ia) \/ ProcNext(Oa)
    BY <1>3 DEF IaReceive, OaBegin, AdapterStep, ProcNext
  <2> QED BY <2>1, Adapters DEF AnyNext
<1>4. CASE \E p \in Others : OtherStep(p)
  BY <1>4 DEF OtherStep, Others, AnyNext
<1>5. CASE \E p \in Procs : Interrupted(p)
  BY <1>5 DEF Interrupted, Interruption, AnyNext
<1> QED
  BY <1>1, <1>2, <1>3, <1>4, <1>5, Adapters DEF EmbeddedNext, IaNext, OaNext, Others

LEMMA EmbeddedBase ==
  EmbeddedSpec => [](BaseInv /\ CompleteInv)
<1>1. EmbeddedInit => BaseInv /\ CompleteInv
  BY BaseInit, CompleteInit DEF EmbeddedInit, Init
<1>2. (BaseInv /\ CompleteInv) /\ [EmbeddedNext]_embeddedVars => (BaseInv /\ CompleteInv)'
  BY EmbeddedSteps, BaseNext, CompleteNext
<1> QED
  BY <1>1, <1>2, PTL DEF EmbeddedSpec

(* The members of a buffer.                                                *)
BufferShape(b) ==
  /\ b = [begin |-> b.begin, end |-> b.end, buffered |-> b.buffered,
          circular_buf |-> b.circular_buf, not_full |-> b.not_full, not_empty |-> b.not_empty]
  /\ b.buffered \in 0..Size

BuffersInv == DOMAIN buf = {"in", "out"} /\ \A k \in {"in", "out"} : BufferShape(buf[k])

(* What a call on a buffer does to its count and to the waiting senders.   *)
LEMMA BufferCalls ==
  ASSUME BuffersInv, NEW t, NEW k \in {"in", "out"}
  PROVE  /\ SendWait(t, k) =>
              /\ BuffersInv' /\ Full(k) /\ ~Waits(t, k) /\ buf'[k].buffered = buf[k].buffered
              /\ buf'[k].not_full = buf[k].not_full \cup {t}
              /\ \A l \in {"in", "out"} : l # k => buf'[l] = buf[l]
         /\ ReceiveWait(t, k) =>
              /\ BuffersInv' /\ buf'[k].buffered = buf[k].buffered
              /\ buf'[k].not_full = buf[k].not_full
              /\ \A l \in {"in", "out"} : l # k => buf'[l] = buf[l]
         /\ \A m : Send(t, k, m) =>
              /\ BuffersInv' /\ ~Full(k) /\ ~Waits(t, k) /\ buf'[k].buffered = buf[k].buffered + 1
              /\ buf'[k].not_full = buf[k].not_full
              /\ \A l \in {"in", "out"} : l # k => buf'[l] = buf[l]
         /\ Receive(t, k) =>
              /\ BuffersInv' /\ ~Empty(k) /\ buf'[k].buffered = buf[k].buffered - 1
              /\ buf'[k].not_full \subseteq buf[k].not_full
              /\ \A l \in {"in", "out"} : l # k => buf'[l] = buf[l]
<1> DEFINE b == buf[k]
           c == buf'[k]
<1>0. /\ DOMAIN buf = {"in", "out"} /\ b.buffered \in 0..Size /\ Size \in Nat \ {0}
      /\ b = [begin |-> b.begin, end |-> b.end, buffered |-> b.buffered,
              circular_buf |-> b.circular_buf, not_full |-> b.not_full, not_empty |-> b.not_empty]
  BY SizeAssumption DEF BuffersInv, BufferShape
<1>1. ASSUME DOMAIN buf' = DOMAIN buf, \A l \in {"in", "out"} : l # k => buf'[l] = buf[l],
             BufferShape(c)
      PROVE  BuffersInv'
  BY <1>1 DEF BuffersInv, BufferShape
<1>2. ASSUME SendWait(t, k)
      PROVE  /\ BuffersInv' /\ Full(k) /\ ~Waits(t, k) /\ c.buffered = b.buffered
             /\ c.not_full = b.not_full \cup {t}
             /\ \A l \in {"in", "out"} : l # k => buf'[l] = buf[l]
  <2>1. Full(k) /\ ~Waits(t, k) /\ buf' = [buf EXCEPT ![k].not_full = @ \cup {t}]
    BY <1>2 DEF SendWait
  <2>2. /\ DOMAIN buf' = DOMAIN buf /\ c = [b EXCEPT !.not_full = @ \cup {t}]
        /\ \A l \in {"in", "out"} : l # k => buf'[l] = buf[l]
    BY <1>0, <2>1
  <2> HIDE DEF b, c
  <2>3. BufferShape(c) /\ c.buffered = b.buffered /\ c.not_full = b.not_full \cup {t}
    BY <1>0, <2>2 DEF BufferShape
  <2> QED BY <1>1, <2>1, <2>2, <2>3
<1>3. ASSUME ReceiveWait(t, k)
      PROVE  /\ BuffersInv' /\ c.buffered = b.buffered /\ c.not_full = b.not_full
             /\ \A l \in {"in", "out"} : l # k => buf'[l] = buf[l]
  <2>1. buf' = [buf EXCEPT ![k].not_empty = @ \cup {t}]
    BY <1>3 DEF ReceiveWait
  <2>2. /\ DOMAIN buf' = DOMAIN buf /\ c = [b EXCEPT !.not_empty = @ \cup {t}]
        /\ \A l \in {"in", "out"} : l # k => buf'[l] = buf[l]
    BY <1>0, <2>1
  <2> HIDE DEF b, c
  <2>3. BufferShape(c) /\ c.buffered = b.buffered /\ c.not_full = b.not_full
    BY <1>0, <2>2 DEF BufferShape
  <2> QED BY <1>1, <2>2, <2>3
<1>4. ASSUME NEW m, Send(t, k, m)
      PROVE  /\ BuffersInv' /\ ~Full(k) /\ ~Waits(t, k) /\ c.buffered = b.buffered + 1
             /\ c.not_full = b.not_full
             /\ \A l \in {"in", "out"} : l # k => buf'[l] = buf[l]
  <2>1. PICK W \in notify_one(b.not_empty) :
          buf' = [buf EXCEPT ![k].circular_buf[buf[k].end] = m, ![k].end = (@ + 1) % Size,
                             ![k].buffered = @ + 1, ![k].not_empty = W]
    BY <1>4 DEF Send
  <2>2. /\ DOMAIN buf' = DOMAIN buf /\ \A l \in {"in", "out"} : l # k => buf'[l] = buf[l]
        /\ c = [b EXCEPT !.circular_buf[b.end] = m, !.end = (@ + 1) % Size,
                         !.buffered = @ + 1, !.not_empty = W]
    BY <1>0, <2>1
  <2>3. ~Full(k) /\ ~Waits(t, k) /\ b.buffered # Size
    BY <1>4 DEF Send, Full
  <2> HIDE DEF b, c
  <2>4. c = [begin |-> b.begin, end |-> (b.end + 1) % Size, buffered |-> b.buffered + 1,
             circular_buf |-> [b.circular_buf EXCEPT ![b.end] = m],
             not_full |-> b.not_full, not_empty |-> W]
    BY <1>0, <2>2
  <2>5. b.buffered + 1 \in 0..Size
    BY <1>0, <2>3
  <2>6. BufferShape(c) /\ c.buffered = b.buffered + 1 /\ c.not_full = b.not_full
    BY <2>4, <2>5 DEF BufferShape
  <2> QED BY <1>1, <2>2, <2>3, <2>6
<1>5. ASSUME Receive(t, k)
      PROVE  /\ BuffersInv' /\ ~Empty(k) /\ c.buffered = b.buffered - 1
             /\ c.not_full \subseteq b.not_full
             /\ \A l \in {"in", "out"} : l # k => buf'[l] = buf[l]
  <2>1. PICK W \in notify_one(b.not_full) :
          buf' = [buf EXCEPT ![k].begin = (@ + 1) % Size, ![k].buffered = @ - 1, ![k].not_full = W]
    BY <1>5 DEF Receive
  <2>2. /\ DOMAIN buf' = DOMAIN buf /\ \A l \in {"in", "out"} : l # k => buf'[l] = buf[l]
        /\ c = [b EXCEPT !.begin = (@ + 1) % Size, !.buffered = @ - 1, !.not_full = W]
    BY <1>0, <2>1
  <2>3. ~Empty(k) /\ b.buffered # 0 /\ W \subseteq b.not_full
    BY <1>5 DEF Receive, Empty, notify_one
  <2> HIDE DEF b, c
  <2>4. c = [begin |-> (b.begin + 1) % Size, end |-> b.end, buffered |-> b.buffered - 1,
             circular_buf |-> b.circular_buf, not_full |-> W, not_empty |-> b.not_empty]
    BY <1>0, <2>2
  <2>5. b.buffered - 1 \in 0..Size
    BY <1>0, <2>3
  <2>6. BufferShape(c) /\ c.buffered = b.buffered - 1 /\ c.not_full = W
    BY <2>4, <2>5 DEF BufferShape
  <2> QED BY <1>1, <2>2, <2>3, <2>6
<1> QED
  BY <1>2, <1>3, <1>4, <1>5

-----------------------------------------------------------------------------
(* The output adapter.                                                     *)

(* Between steps it has no call; it waits for the queue only while it      *)
(* sends, and when it must not wait it has seen room that nobody else      *)
(* takes.                                                                  *)
OaInv ==
  /\ DOMAIN call = {Ia, Oa}
  /\ pc[Oa] = "top" => call[Oa] = None
  /\ Oa \in buf["out"].not_full =>
       call[Oa].op = "send" /\ (wait_on_queue_full \/ call[Oa].set = end_of_input)
  /\ (call[Oa].op = "send" /\ call[Oa].set # end_of_input /\ ~wait_on_queue_full) => ~Full("out")

LEMMA OaInit ==
  EmbeddedInit => BuffersInv /\ OaInv
<1> SUFFICES ASSUME EmbeddedInit PROVE BuffersInv /\ OaInv
  OBVIOUS
<1>1. buf = [k \in {"in", "out"} |-> Empty_buffer] /\ call = [p \in {Ia, Oa} |-> None]
  BY EmbeddedAssumption DEF EmbeddedInit, BufferInit
<1>2. BufferShape(Empty_buffer) /\ Empty_buffer.not_full = {}
  BY SizeAssumption DEF BufferShape, Empty_buffer
<1>3. BuffersInv
  BY <1>1, <1>2 DEF BuffersInv
<1> QED
  BY <1>1, <1>2, <1>3 DEF OaInv, None, end_of_input

(* What the steps do to the output adapter's call, and to the buffer that  *)
(* it sends to.                                                            *)
LEMMA OaStep ==
  ASSUME BaseInv, BuffersInv, OaInv, [EmbeddedNext]_embeddedVars
  PROVE  BuffersInv' /\ OaInv'
<1>1. /\ TypeOK /\ BaseInv' /\ Oa \in Procs /\ Ia # Oa /\ Ia \in Procs
      /\ "in" \in {"in", "out"} /\ "out" \in {"in", "out"} /\ "in" # "out"
  BY EmbeddedSteps, BaseNext, Adapters DEF BaseInv
<1>2. /\ DOMAIN pc = Procs /\ Size \in Nat \ {0} /\ buf["out"].buffered \in 0..Size
      /\ None = [op |-> "none", set |-> end_of_input]
  BY <1>1, SizeAssumption DEF TypeOK, BuffersInv, BufferShape, None
<1>3. CASE call' = call /\ buf' = buf /\ wait_on_queue_full' = wait_on_queue_full
           /\ (pc'[Oa] = "top" => pc[Oa] = "top" \/ call[Oa] = None)
  BY <1>3 DEF OaInv, BuffersInv, BufferShape, Full
<1>4. CASE UNCHANGED embeddedVars
  BY <1>3, <1>4 DEF embeddedVars, vars, appVars
<1>5. CASE AppSend
  <2>1. UNCHANGED <<pc, call, wait_on_queue_full>>
    BY <1>5 DEF AppSend, vars
  <2>2. BuffersInv' /\ buf'["out"] = buf["out"]
    BY <1>1, <1>5, BufferCalls DEF AppSend
  <2> QED BY <2>1, <2>2 DEF OaInv, Full
<1>6. CASE AppReceive
  <2>1. UNCHANGED <<pc, call, wait_on_queue_full>>
    BY <1>6 DEF AppReceive, vars
  <2>2. BuffersInv' /\ buf'["out"].not_full \subseteq buf["out"].not_full
        /\ buf'["out"].buffered \in {buf["out"].buffered, buf["out"].buffered - 1}
    BY <1>1, <1>6, BufferCalls DEF AppReceive
  <2>3. ~Full("out") => ~Full("out")'
    BY <1>2, <2>2 DEF Full
  <2> QED BY <2>1, <2>2, <2>3 DEF OaInv
<1>7. CASE Stop
  BY <1>3, <1>7 DEF Stop, vars, appVars
<1>8. CASE IaBegin \/ IaWait \/ IaReceive
  <2>1. /\ wait_on_queue_full' = wait_on_queue_full /\ BuffersInv' /\ buf'["out"] = buf["out"]
        /\ DOMAIN call' = DOMAIN call /\ call'[Oa] = call[Oa]
    <3>1. CASE IaBegin
      BY <1>1, <3>1 DEF IaBegin, appVars, OaInv, BuffersInv, BufferShape
    <3>2. CASE IaWait
      BY <1>1, <3>2, BufferCalls DEF IaWait, appVars
    <3>3. CASE IaReceive
      <4>1. UNCHANGED wait_on_queue_full /\ call' = [call EXCEPT ![Ia] = None] /\ Receive(Ia, "in")
        BY <3>3 DEF IaReceive, appVars
      <4> QED BY <1>1, <4>1, BufferCalls DEF OaInv
    <3> QED BY <1>8, <3>1, <3>2, <3>3
  <2>2. pc'[Oa] = pc[Oa]
    <3>1. CASE IaBegin \/ IaWait
      BY <3>1 DEF IaBegin, IaWait, vars
    <3>2. CASE IaReceive
      BY <1>1, <1>2, <3>2 DEF IaReceive, StepAndStop, Step, Begin
    <3> QED BY <1>8, <3>1, <3>2
  <2> QED BY <2>1, <2>2 DEF OaInv, Full
<1>9. CASE OaBegin
  <2>1. /\ UNCHANGED <<buf, wait_on_queue_full>> /\ pc[Oa] = "top" /\ pc' = [pc EXCEPT ![Oa] = "busy"]
    BY <1>9 DEF OaBegin, Step, Propagate, Begin, appVars
  <2>2. call[Oa] = None
    BY <2>1 DEF OaInv
  <2>3. \/ call' = [call EXCEPT ![Oa] = [op |-> "offer", set |-> SetOf(Oa)]]
        \/ call' = [call EXCEPT ![Oa].op = "send"]
    BY <1>9 DEF OaBegin
  <2>4. /\ DOMAIN call' = {Ia, Oa}
        /\ call'[Oa].op = "offer" \/ (call'[Oa].op = "send" /\ call'[Oa].set = end_of_input)
    BY <1>2, <2>2, <2>3 DEF OaInv
  <2>5. Oa \notin buf["out"].not_full /\ pc'[Oa] # "top"
    BY <1>1, <1>2, <2>1, <2>2 DEF OaInv, None
  <2> QED BY <2>1, <2>4, <2>5 DEF OaInv, BuffersInv, BufferShape
<1>10. CASE OaOffer
  <2>1. /\ UNCHANGED <<buf, wait_on_queue_full, pc>> /\ pc[Oa] = "busy" /\ call[Oa].op = "offer"
        /\ call' = [call EXCEPT ![Oa] = IF wait_on_queue_full \/ ~Full("out")
                                        THEN [@ EXCEPT !.op = "send"] ELSE None]
    BY <1>10 DEF OaOffer, OaReady, appVars, vars
  <2>2. Oa \notin buf["out"].not_full
    BY <2>1 DEF OaInv
  <2>3. DOMAIN call' = {Ia, Oa} /\ (call'[Oa].op = "send" => wait_on_queue_full \/ ~Full("out"))
    BY <1>2, <2>1 DEF OaInv
  <2> QED BY <2>1, <2>2, <2>3 DEF OaInv, BuffersInv, BufferShape, Full
<1>11. CASE OaWait
  <2>1. /\ UNCHANGED <<wait_on_queue_full, pc, call>> /\ pc[Oa] = "busy" /\ call[Oa].op = "send"
    BY <1>11 DEF OaWait, OaReady, appVars, vars
  <2>2. /\ BuffersInv' /\ Full("out") /\ buf'["out"].buffered = buf["out"].buffered
    BY <1>1, <1>11, BufferCalls DEF OaWait
  <2> QED BY <2>1, <2>2 DEF OaInv, Full
<1>12. CASE OaSend
  <2>1. /\ UNCHANGED <<wait_on_queue_full, pc>> /\ pc[Oa] = "busy"
        /\ call' = [call EXCEPT ![Oa] = None]
    BY <1>12 DEF OaSend, OaReady, appVars, vars
  <2>2. BuffersInv' /\ ~Waits(Oa, "out") /\ buf'["out"].not_full = buf["out"].not_full
    BY <1>1, <1>12, BufferCalls DEF OaSend
  <2>3. DOMAIN call' = {Ia, Oa} /\ call'[Oa].op = "none" /\ Oa \notin buf'["out"].not_full
    BY <1>2, <2>1, <2>2 DEF OaInv, Waits
  <2> QED BY <2>1, <2>2, <2>3 DEF OaInv
<1>13. CASE AdapterStep
  <2>1. UNCHANGED <<buf, call, wait_on_queue_full>>
    BY <1>13 DEF AdapterStep, appVars
  <2>2. pc'[Oa] = "top" => pc[Oa] = "top" \/ call[Oa] = None
    <3>1. CASE StepAfterCompletion(Ia) \/ Push(Ia) \/ EndStep(Ia)
      BY <1>1, <1>2, <3>1 DEF StepAfterCompletion, Begin, Push, EndStep
    <3>2. CASE Grab(Oa)
      BY <3>2 DEF Grab
    <3> QED BY <1>13, <3>1, <3>2 DEF AdapterStep
  <2> QED BY <1>3, <2>1, <2>2
<1>14. ASSUME NEW p \in Others, OtherStep(p) PROVE BuffersInv' /\ OaInv'
  <2>1. UNCHANGED <<buf, call, wait_on_queue_full>> /\ ProcNext(p) /\ p # Oa /\ p \in Procs
    BY <1>14 DEF OtherStep, appVars, Others
  <2>2. pc'[Oa] = pc[Oa]
    BY <1>1, <1>2, <2>1, OthersKeep
  <2> QED BY <1>3, <2>1, <2>2
<1>15. ASSUME NEW p \in Procs, Interrupted(p) PROVE BuffersInv' /\ OaInv'
  <2>1. UNCHANGED <<buf, call, wait_on_queue_full>> /\ (pc'[Oa] = "top" => pc[Oa] = "top")
    BY <1>1, <1>2, <1>15 DEF Interrupted, appVars
  <2> QED BY <1>3, <2>1
<1> QED
  BY <1>1, <1>4, <1>5, <1>6, <1>7, <1>8, <1>9, <1>10, <1>11, <1>12, <1>13, <1>14, <1>15
  DEF EmbeddedNext, IaNext, OaNext, Others

(* With wait_on_queue_full set to false the output adapter waits for the   *)
(* queue only to send the end of the data: that Full() is asked before the *)
(* mutex is taken does no harm, because nobody else sends                  *)
(* (output_adapter_process::_step).                                        *)
THEOREM DropsInstead ==
  EmbeddedSpec => []NeverWaitsToDrop
<1>1. EmbeddedInit => BaseInv /\ BuffersInv /\ OaInv
  BY BaseInit, OaInit DEF EmbeddedInit, Init
<1>2. (BaseInv /\ BuffersInv /\ OaInv) /\ [EmbeddedNext]_embeddedVars => (BaseInv /\ BuffersInv /\ OaInv)'
  BY EmbeddedSteps, BaseNext, OaStep
<1>3. OaInv => NeverWaitsToDrop
  BY DEF OaInv, NeverWaitsToDrop
<1> QED
  BY <1>1, <1>2, <1>3, PTL DEF EmbeddedSpec


-----------------------------------------------------------------------------
(* From the application through the pipeline and back to it.               *)

(* Each step takes a datum from each input and gives one to each output,   *)
(* and all that is computed comes from what the input adapter received.    *)
OneEachStep ==
  /\ Edges \subseteq Required
  /\ \A p \in Procs : Core[p] = 1 /\ \A i \in DOMAIN Outputs[p] : Outputs[p][i].freq = 1
  /\ \A p \in Procs \ {Ia} : Inputs[p] # <<>>

Ones == [p \in Procs |-> 1]

PipeInv == BaseInv /\ CompleteInv /\ SyncInv /\ CountInv(Ones)

LEMMA OneEach ==
  ASSUME OneEachStep
  PROVE  /\ Aligned /\ Whole(Ones)
         /\ \A e \in Edges : InFreq[e] = 1 /\ Inc(e) = 1
         /\ \A p \in Procs : \A i \in DOMAIN Outputs[p] : \A t :
              Outputs[p][i].freq = 1 /\ Increment(p, i) = 1 /\ Times(p, i, t) = 1
         /\ \A p \in Procs : RequiredInputs(p) = InputSet(p) /\ (p # Ia => InputSet(p) # {})
<1>1. ASSUME NEW e \in Edges PROVE InFreq[e] = 1 /\ Inc(e) = 1 /\ Freq(e) = 1
  <2>1. /\ Up(e) \in Procs /\ Down(e) \in Procs
        /\ PortOf(e) \in DOMAIN Outputs[Up(e)] /\ e \in PortEdges(Outputs[Up(e)][PortOf(e)])
    BY EdgeEnds, PortOfEdge
  <2>2. Core[Up(e)] * Outputs[Up(e)][PortOf(e)].freq = Core[Down(e)] * InFreq[e] /\ InFreq[e] \in Nat
    BY <2>1, DataflowAssumption
  <2>3. Core[Up(e)] = 1 /\ Core[Down(e)] = 1 /\ Outputs[Up(e)][PortOf(e)].freq = 1
    BY <2>1 DEF OneEachStep
  <2> QED BY <2>2, <2>3 DEF Inc, Freq
<1>2. \A p \in Procs : \A i \in DOMAIN Outputs[p] : \A t :
        Outputs[p][i].freq = 1 /\ Increment(p, i) = 1 /\ Times(p, i, t) = 1
  BY DEF OneEachStep, Increment, Times
<1>3. ASSUME NEW p \in Procs
      PROVE  RequiredInputs(p) = InputSet(p) /\ (p # Ia => InputSet(p) # {})
  <2>1. InputSet(p) \subseteq Edges
    BY InputPorts
  <2>2. p # Ia => 1 \in DOMAIN Inputs[p]
    <3>1. Inputs[p] \in Seq(Edges)
      BY TopologyAssumption
    <3>2. p # Ia => Inputs[p] # <<>>
      BY DEF OneEachStep
    <3> QED BY <3>1, <3>2, SomeLists
  <2> QED BY <2>1, <2>2 DEF RequiredInputs, OneEachStep, InputSet
<1>4. Aligned
  BY <1>1, RequiredEdges DEF Aligned
<1>5. Whole(Ones)
  <2>1. Ones \in [Procs -> Nat \ {0}] /\ \A p \in Procs : Ones[p] = 1
    BY DEF Ones
  <2>2. \A e \in Edges : Up(e) \in Procs /\ Down(e) \in Procs
    BY EdgeEnds
  <2>3. \A e \in Edges \cap Required :
          /\ 1 \in Nat /\ Ones[Up(e)] * Freq(e) = 1 * (Ones[Down(e)] * InFreq[e])
    BY <1>1, <2>1, <2>2
  <2> QED BY <2>1, <2>3 DEF Whole
<1> QED
  BY <1>1, <1>2, <1>3, <1>4, <1>5

LEMMA PipeNext ==
  ASSUME OneEachStep, PipeInv, [AnyNext]_vars PROVE PipeInv'
<1>1. Aligned /\ Whole(Ones) /\ SourceKinds = {}
  BY OneEach, Adapters
<1>2. BaseInv /\ CompleteInv /\ SyncInv /\ CountInv(Ones)
  BY DEF PipeInv
<1>3. CountInv(Ones)'
  BY <1>1, <1>2, CountNext
<1>4. BaseInv' /\ CompleteInv' /\ SyncInv'
  BY <1>1, <1>2, BaseNext, CompleteNext, SyncInvNext
<1> QED
  BY <1>3, <1>4 DEF PipeInv

(* What a process finds that begins a step: the data in front of its       *)
(* inputs and its next outputs carry the number of its steps.              *)
LEMMA AtTheTop ==
  ASSUME OneEachStep, PipeInv, NEW p \in Procs, pc[p] = "top", ~is_complete[p],
         \A e \in RequiredInputs(p) : Available(e)
  PROVE  \E n \in Nat :
           /\ \A i \in DOMAIN Outputs[p] : stamp[p][i] = n
           /\ \A e \in InputSet(p) : /\ 1 \in 1..Len(q[e]) /\ q[e][1].stamp = n
                                     /\ Head(q[e]) = q[e][1] /\ Due(e) = n
           /\ (p # Ia /\ check_required_input(p) = "none") => \E e \in InputSet(p) : q[e][1].type = "data"
           /\ check_required_input(p) = "complete" => \E e \in InputSet(p) : q[e][1].type = "complete"
<1>1. /\ BaseInv /\ ChainInv /\ KindsInv /\ TallyInv /\ PlaceInv /\ TypeOK /\ CallsInv /\ ClosedInv
      /\ QueueTypes /\ todo[p] = <<>> /\ verdict[p] # "complete" /\ SourceKinds = {}
  BY TypedQueues, Adapters DEF PipeInv, SyncInv, CountInv, BaseInv, CallsInv
<1>2. RequiredInputs(p) = InputSet(p) /\ \A e \in InputSet(p) : e \in Edges /\ Down(e) = p
  BY OneEach, RequiredEdges
<1>3. PICK n \in Nat : Tally(p, n)
  BY <1>1 DEF TallyInv
<1>4. \A i \in DOMAIN Outputs[p] : stamp[p][i] = n
  <2> TAKE i \in DOMAIN Outputs[p]
  <2>1. stamp[p][i] = (n * Outputs[p][i].freq) * Increment(p, i)
    BY <1>1, <1>3 DEF Tally, Ended
  <2>2. Outputs[p][i].freq = 1 /\ Increment(p, i) = 1
    BY OneEach
  <2> QED BY <2>1, <2>2
<1>5. ASSUME NEW e \in InputSet(p)
      PROVE  /\ 1 \in 1..Len(q[e]) /\ q[e][1].stamp = n /\ Head(q[e]) = q[e][1] /\ Due(e) = n
             /\ Taken(e) = 1
  <2>1. e \in Edges /\ Down(e) = p /\ e \in RequiredInputs(p) /\ InFreq[e] = 1 /\ Inc(e) = 1
        /\ e \in Required /\ Available(e)
    BY <1>2, OneEach DEF RequiredInputs
  <2>2. Len(q[e]) \in Nat \ {0} /\ Head(q[e]) = q[e][1] /\ Taken(e) = 1
    BY <1>1, <2>1, TakenPlaces DEF Taken
  <2>3. ~closed[e]
    BY <1>1, <2>1 DEF ClosedInv, Available
  <2>4. InPlace(e)
    BY <1>1, <2>1, <2>3 DEF PlaceInv
  <2>5. PICK a \in Nat, k \in Nat : a = processed[e] * Inc(e) /\ EdgeChain(e, a, k)
    BY <2>4 DEF InPlace
  <2>6. q[e][1].stamp = a + (1 - 1) * Inc(e)
    BY <2>2, <2>5 DEF EdgeChain
  <2>7. processed[e] \in Nat
    BY <1>1, <2>1 DEF TypeOK
  <2>8. q[e][1].stamp = processed[e]
    BY <2>1, <2>5, <2>6, <2>7
  <2>9. Due(e) = n * InFreq[e]
    BY <1>3, <2>1 DEF Tally
  <2>10. ~Reads(todo[p], e)
    BY <1>1, NoCalls
  <2>11. Due(e) = processed[e]
    BY <2>1, <2>7, <2>10 DEF Due
  <2> QED BY <2>1, <2>2, <2>8, <2>9, <2>11
<1>6. ASSUME p # Ia, check_required_input(p) = "none"
      PROVE  \E e \in InputSet(p) : q[e][1].type = "data"
  <2>1. PICK e \in InputSet(p) : TRUE
    BY <1>6, OneEach
  <2>2. q[e][1].type # "complete"
    BY <1>1, <1>2, <1>5, <1>6, <2>1, Judging
  <2>3. q[e][1].type \in Kinds
    BY <1>1, <1>2, <1>5, <2>1 DEF KindsInv
  <2> QED BY <1>1, <2>1, <2>2, <2>3 DEF Kinds
<1>7. ASSUME check_required_input(p) = "complete"
      PROVE  \E e \in InputSet(p) : q[e][1].type = "complete"
  <2>1. InStep(p)
    BY <1>1, AtTheHeads
  <2>2. \E e \in RequiredInputs(p) : \E i \in 1..Taken(e) : q[e][i].type = "complete"
    <3>1. \E e \in RequiredInputs(p) : \E i \in 1..Taken(e) :
            LET m == q[e][i].type
            IN  /\ check_required_input(p) = IF m = "data" THEN "none" ELSE m
                /\ \A f \in RequiredInputs(p) : \A j \in 1..Taken(f) : Rank[q[f][j].type] <= Rank[m]
      BY <1>1, <1>7, <2>1, CheckedInputs
    <3> QED BY <1>7, <3>1
  <2> QED BY <1>2, <1>5, <2>2
<1> QED
  BY <1>4, <1>5, <1>6, <1>7


(* The steps of the application and the processes, as steps of the         *)
(* pipeline.                                                               *)
LEMMA EmbeddedCases ==
  ASSUME [EmbeddedNext]_embeddedVars
  PROVE  \/ UNCHANGED vars
         \/ \E p \in Procs : Interruption(p) \/ Grab(p) \/ Push(p) \/ EndStep(p) \/ StepAfterCompletion(p)
         \/ \E p \in Procs \ {Ia} : Propagate(p) \/ Step(p) \/ StepAndStop(p)
         \/ IaReceive
<1>1. CASE UNCHANGED embeddedVars
  BY <1>1 DEF embeddedVars
<1>2. CASE AppSend \/ AppReceive \/ Stop \/ IaBegin \/ IaWait \/ OaOffer \/ OaWait \/ OaSend
  BY <1>2 DEF AppSend, AppReceive, Stop, IaBegin, IaWait, OaOffer, OaWait, OaSend
<1>3. CASE OaBegin \/ AdapterStep
  BY <1>3, Adapters DEF OaBegin, AdapterStep
<1>4. CASE \E p \in Others : OtherStep(p)
  BY <1>4 DEF OtherStep, Others, ProcNext
<1>5. CASE \E p \in Procs : Interrupted(p)
  BY <1>5 DEF Interrupted, Interruption
<1> QED
  BY <1>1, <1>2, <1>3, <1>4, <1>5, Adapters DEF EmbeddedNext, IaNext, OaNext, Others

-----------------------------------------------------------------------------
(* What is under way in the pipeline.                                      *)

(* A process behind the input adapter has ended, or is about to end,       *)
(* though its inputs have not.                                             *)
Broke == \E p \in Procs \ {Ia} : is_complete[p] /\ verdict[p] # "complete"

(* Real data come from the data sets that the input adapter has received,  *)
(* and the end of the data from the end of the input, unless a process     *)
(* ended before.                                                           *)
Origin(d) ==
  /\ d.type = "data" => d.stamp < steps[Ia]
  /\ d.type = "complete" => d.stamp = supply \/ Broke

OriginInv ==
  \A e \in Edges : /\ \A i \in 1..Len(q[e]) : Origin(q[e][i])
                   /\ \A c \in PushTo(e) : Origin(c.datum)

(* The n-th call of send sends this.                                       *)
Nth(i) == IF i <= supply THEN i ELSE end_of_input

(* Between send and the input adapter nothing is lost or overtaken, and    *)
(* the stamps of the adapter count the data sets.                          *)
FeedInv ==
  /\ handed \in 0..(supply + 1) /\ supply \in 0..MaxSets /\ fed \in Seq(Nat)
  /\ fed \o Contents(buf["in"]) = [i \in 1..handed |-> Nth(i)]
  /\ steps[Ia] = IF Len(fed) <= supply THEN Len(fed) ELSE supply
  /\ Ended(Ia) \/ (Len(fed) <= supply /\ \A i \in DOMAIN Outputs[Ia] : stamp[Ia][i] = steps[Ia])

LEMMA BrokeStays ==
  ASSUME BaseInv, [AnyNext]_vars, Broke PROVE Broke'
<1>1. TypeOK
  BY DEF BaseInv
<1>2. PICK p \in Procs \ {Ia} : is_complete[p] /\ verdict[p] # "complete"
  BY DEF Broke
<1>3. ASSUME NEW r \in Procs, ProcNext(r) PROVE is_complete'[p] /\ verdict'[p] # "complete"
  <2>1. CASE r # p
    BY <1>1, <1>2, <1>3, <2>1, OthersKeep
  <2>2. CASE r = p
    <3>1. DOMAIN verdict = Procs /\ DOMAIN is_complete = Procs
      BY <1>1 DEF TypeOK
    <3>2. ~(Propagate(p) \/ Step(p) \/ StepAndStop(p))
      BY <1>2 DEF Propagate, Step, StepAndStop
    <3>3. CASE StepAfterCompletion(p)
      BY <1>2, <3>1, <3>3 DEF StepAfterCompletion
    <3>4. CASE Grab(p) \/ Push(p)
      BY <1>2, <3>4 DEF Grab, Push
    <3>5. CASE EndStep(p)
      BY <1>2, <3>1, <3>5 DEF EndStep
    <3> QED BY <1>3, <2>2, <3>2, <3>3, <3>4, <3>5 DEF ProcNext
  <2> QED BY <2>1, <2>2
<1>4. ASSUME UNCHANGED vars \/ \E r \in Procs : Interruption(r)
      PROVE  is_complete'[p] /\ verdict'[p] # "complete"
  BY <1>2, <1>4 DEF vars, Interruption
<1>5. is_complete'[p] /\ verdict'[p] # "complete"
  BY <1>2, <1>3, <1>4 DEF AnyNext
<1> QED
  BY <1>5 DEF Broke

(* The configuration and the number of data sets stay.                     *)
LEMMA SupplyStays ==
  ASSUME [EmbeddedNext]_embeddedVars
  PROVE  supply' = supply /\ wait_on_queue_full' = wait_on_queue_full /\ usage' = usage
BY DEF EmbeddedNext, embeddedVars, appVars, AppSend, AppReceive, Stop, IaNext, OaNext, AdapterStep,
   OtherStep, Interrupted, IaBegin, IaWait, IaReceive, OaBegin, OaOffer, OaWait, OaSend

LEMMA PushedData ==
  ASSUME TypeOK, NEW e \in Edges, NEW c \in PushTo(e)
  PROVE  c.datum \in Data
<1>1. Up(e) \in Procs /\ todo[Up(e)] \in Seq(Calls(Up(e)))
  BY EdgeEnds DEF TypeOK
<1>2. c \in Calls(Up(e)) /\ c.op = "push"
  BY <1>1, ListOfSeq DEF PushTo, PushesIn
<1> QED
  BY <1>2 DEF Calls

(* What holds of a datum goes on to hold.                                  *)
LEMMA OriginStays ==
  ASSUME BaseInv, [AnyNext]_vars, supply' = supply, steps[Ia] \in Nat, steps'[Ia] \in Nat,
         steps[Ia] <= steps'[Ia], NEW d \in Data, Origin(d)
  PROVE  Origin(d)'
<1>1. Broke => Broke'
  BY BrokeStays
<1>2. d.stamp \in Nat
  BY DEF Data
<1>3. /\ Origin(d)' <=> /\ d.type = "data" => d.stamp < steps'[Ia]
                        /\ d.type = "complete" => d.stamp = supply' \/ Broke'
  BY DEF Origin
<1> QED
  BY <1>1, <1>2, <1>3 DEF Origin

(* The data that a step decides to push are all alike.                     *)
LEMMA OneDecided ==
  ASSUME OneEachStep, BaseInv, NEW p \in Procs, NEW t \in Types, NEW n \in Nat,
         \A i \in DOMAIN Outputs[p] : stamp[p][i] = n
  PROVE  \A e \in Edges : Up(e) = p => \A c \in NewPushes(p, e, t) : c.datum = [type |-> t, stamp |-> n]
<1> SUFFICES ASSUME NEW e \in Edges, Up(e) = p, NEW c \in NewPushes(p, e, t)
             PROVE  c.datum = [type |-> t, stamp |-> n]
  OBVIOUS
<1>1. PortOf(e) \in DOMAIN Outputs[p] /\ Times(p, PortOf(e), t) = 1 /\ Increment(p, PortOf(e)) = 1
  BY PortOfEdge, OneEach, EdgeEnds
<1>2. c = PushOf(e, t, StampAt(p, PortOf(e), 1))
  BY <1>1 DEF NewPushes
<1>3. StampAt(p, PortOf(e), 1) = n
  BY <1>1 DEF StampAt
<1> QED
  BY <1>2, <1>3 DEF PushOf

(* Origin is kept when the new data have it.                               *)
LEMMA OriginDecided ==
  ASSUME OneEachStep, BaseInv, BaseInv', OriginInv, [AnyNext]_vars, supply' = supply, steps[Ia] \in Nat,
         steps'[Ia] \in Nat, steps[Ia] <= steps'[Ia],
         NEW p \in Procs, NEW t \in Types, NEW n \in Nat, pc[p] = "top",
         \A i \in DOMAIN Outputs[p] : stamp[p][i] = n,
         todo' = [todo EXCEPT ![p] = Grabs(p) \o Pushes(p, t)] \/ todo' = [todo EXCEPT ![p] = Pushes(p, t)],
         \A e \in Edges : q'[e] = q[e] \/ q'[e] = <<>>,
         Origin([type |-> t, stamp |-> n])'
  PROVE  OriginInv'
<1>1. TypeOK /\ TypeOK'
  BY DEF BaseInv
<1>2. ASSUME NEW e \in Edges, NEW i \in 1..Len(q'[e]), NEW d, d = q'[e][i] PROVE Origin(d)'
  <2>1. q'[e] = q[e]
    <3>1. ASSUME q'[e] = <<>> PROVE FALSE
      BY <1>2, <3>1
    <3> QED BY <3>1
  <2>2. q[e] \in Seq(Data) /\ i \in 1..Len(q[e])
    BY <1>1, <2>1 DEF TypeOK
  <2>3. d = q[e][i] /\ d \in Data /\ Origin(d)
    BY <1>2, <2>1, <2>2, ElementOfSeq DEF OriginInv
  <2> QED BY <2>3, OriginStays
<1>3. ASSUME NEW e \in Edges, NEW c \in PushTo(e)' PROVE Origin(c.datum)'
  <2>1. CASE Up(e) = p
    <3>1. PushTo(e)' = NewPushes(p, e, t)
      BY <2>1, DecidedPushes
    <3>2. c.datum = [type |-> t, stamp |-> n]
      BY <1>3, <2>1, <3>1, OneDecided
    <3> QED BY <3>2
  <2>2. CASE Up(e) # p
    <3>1. c \in PushTo(e)
      BY <1>3, <2>2, DecidedPushes
    <3>2. c.datum \in Data /\ Origin(c.datum)
      BY <1>1, <3>1, PushedData DEF OriginInv
    <3> QED BY <3>2, OriginStays
  <2> QED BY <2>1, <2>2
<1>4. /\ \A e \in Edges : \A i \in 1..Len(q'[e]) : \A d : d = q'[e][i] => Origin(d)'
      /\ \A e \in Edges : \A c \in PushTo(e)' : Origin(c.datum)'
  BY <1>2, <1>3
<1> QED
  BY <1>4 DEF OriginInv, Origin


(* A step that decides on no push, and takes none from the inputs but in   *)
(* their order.                                                            *)
LEMMA OriginCalls ==
  ASSUME OneEachStep, BaseInv, BaseInv', OriginInv, [AnyNext]_vars, supply' = supply, steps' = steps,
         steps[Ia] \in Nat,
         NEW p \in Procs, Interruption(p) \/ Grab(p) \/ Push(p) \/ EndStep(p) \/ StepAfterCompletion(p)
  PROVE  OriginInv'
<1>1. TypeOK /\ TypeOK'
  BY DEF BaseInv
<1>2. ASSUME NEW d \in Data, Origin(d) PROVE Origin(d)'
  BY <1>2, OriginStays
<1>3. ASSUME \A e \in Edges : \A i \in 1..Len(q'[e]) :
               \/ \E j \in 1..Len(q[e]) : q'[e][i] = q[e][j]
               \/ \E c \in PushTo(e) : q'[e][i] = c.datum,
             \A e \in Edges : PushTo(e)' \subseteq PushTo(e)
      PROVE  OriginInv'
  <2>1. ASSUME NEW e \in Edges, NEW i \in 1..Len(q'[e]), NEW d, d = q'[e][i] PROVE Origin(d)'
    <3>1. q[e] \in Seq(Data)
      BY <1>1 DEF TypeOK
    <3>2. d \in Data /\ Origin(d)
      <4>1. CASE \E j \in 1..Len(q[e]) : d = q[e][j]
        BY <3>1, <4>1, ElementOfSeq DEF OriginInv
      <4>2. CASE \E c \in PushTo(e) : d = c.datum
        BY <1>1, <4>2, PushedData DEF OriginInv
      <4> QED BY <1>3, <2>1, <4>1, <4>2
    <3> QED BY <1>2, <3>2
  <2>2. ASSUME NEW e \in Edges, NEW c \in PushTo(e)' PROVE Origin(c.datum)'
    <3>1. c \in PushTo(e)
      BY <1>3, <2>2
    <3> QED BY <1>1, <1>2, <3>1, PushedData DEF OriginInv
  <2>3. /\ \A e \in Edges : \A i \in 1..Len(q'[e]) : \A d : d = q'[e][i] => Origin(d)'
        /\ \A e \in Edges : \A c \in PushTo(e)' : Origin(c.datum)'
    BY <2>1, <2>2
  <2> QED BY <2>3 DEF OriginInv, Origin
<1>4. ASSUME todo' = todo, \A e \in Edges : q'[e] = q[e] \/ q'[e] = <<>> PROVE OriginInv'
  <2>1. \A e \in Edges : PushTo(e)' \subseteq PushTo(e)
    BY <1>4 DEF PushTo, PushesIn, Elems
  <2>2. ASSUME NEW e \in Edges, NEW i \in 1..Len(q'[e])
        PROVE  \E j \in 1..Len(q[e]) : q'[e][i] = q[e][j]
    <3>1. ASSUME q'[e] = <<>> PROVE FALSE
      BY <2>2, <3>1
    <3> QED BY <1>4, <3>1
  <2> QED BY <1>3, <2>1, <2>2
<1>5. CASE Interruption(p) \/ StepAfterCompletion(p)
  BY <1>4, <1>5 DEF Interruption, StepAfterCompletion
<1>6. CASE EndStep(p)
  <2>1. todo' = todo
    BY <1>6 DEF EndStep
  <2>2. \A e \in Edges : q'[e] = q[e] \/ q'[e] = <<>>
    <3>1. CASE verdict[p] = "complete" \/ required_outputs_done(p)
      <4>1. Stops(p)
        BY <1>6, <3>1 DEF EndStep, Stops
      <4> QED BY <1>1, <4>1, Stopping
    <3>2. CASE ~(verdict[p] = "complete" \/ required_outputs_done(p))
      BY <1>6, <3>2 DEF EndStep
    <3> QED BY <3>1, <3>2
  <2> QED BY <1>4, <2>1, <2>2
<1>7. CASE Grab(p)
  <2>1. CallMade(p) /\ \E f \in InputSet(p) : Grabbed(p, f)
    BY <1>7, Grabbing
  <2>2. PICK f \in InputSet(p) : Grabbed(p, f)
    BY <2>1
  <2>3. \A e \in Edges : PushTo(e)' = PushTo(e)
    BY <2>1, <2>2, CallsLeft
  <2>4. ASSUME NEW e \in Edges, NEW i \in 1..Len(q'[e])
        PROVE  \E j \in 1..Len(q[e]) : q'[e][i] = q[e][j]
    <3>1. CASE e = f
      BY <2>2, <2>4, <3>1 DEF Grabbed
    <3>2. CASE e # f
      BY <2>2, <2>4, <3>2 DEF Grabbed
    <3> QED BY <3>1, <3>2
  <2> QED BY <1>3, <2>3, <2>4
<1>8. CASE Push(p)
  <2>1. CallMade(p) /\ \E f \in OutputSet(p) : \E d \in Data : Pushed(p, f, d)
    BY <1>8, Pushing
  <2>2. PICK f \in OutputSet(p), d \in Data : Pushed(p, f, d)
    BY <2>1
  <2>3. /\ \A e \in Edges : e # f => PushTo(e)' = PushTo(e)
        /\ Head(todo[p]) \in PushTo(f) /\ PushTo(f) = {Head(todo[p])} \cup PushTo(f)'
    BY <2>1, <2>2, CallsLeft
  <2>4. PICK h \in PushTo(f) : h.datum = d
    BY <2>2, <2>3 DEF Pushed
  <2>5. \A e \in Edges : PushTo(e)' \subseteq PushTo(e)
    BY <2>3
  <2>6. ASSUME NEW e \in Edges, NEW i \in 1..Len(q'[e])
        PROVE  \/ \E j \in 1..Len(q[e]) : q'[e][i] = q[e][j]
               \/ \E c \in PushTo(e) : q'[e][i] = c.datum
    <3>1. CASE e # f \/ closed[e]
      BY <2>2, <2>6, <3>1 DEF Pushed
    <3>2. CASE e = f /\ ~closed[e]
      <4>1. /\ Len(q'[f]) = Len(q[f]) + 1 /\ q'[f][Len(q[f]) + 1] = d
            /\ \A j \in 1..Len(q[f]) : q'[f][j] = q[f][j]
        BY <2>2, <3>2 DEF Pushed
      <4>2. Len(q[f]) \in Nat
        BY <1>1, <2>6, <3>2, LenProperties DEF TypeOK
      <4>3. i \in 1..Len(q[f]) \/ i = Len(q[f]) + 1
        BY <2>6, <3>2, <4>1, <4>2
      <4> QED BY <2>4, <3>2, <4>1, <4>3
    <3> QED BY <3>1, <3>2
  <2> QED BY <1>3, <2>5, <2>6
<1> QED
  BY <1>5, <1>6, <1>7, <1>8

(* A process behind the input adapter hands on what it finds.              *)
LEMMA OriginPassedOn ==
  ASSUME OneEachStep, PipeInv, BaseInv', OriginInv, [AnyNext]_vars, supply' = supply, steps[Ia] \in Nat,
         NEW p \in Procs \ {Ia}, Propagate(p) \/ Step(p) \/ StepAndStop(p)
  PROVE  OriginInv' /\ steps' = steps
<1>1. /\ BaseInv /\ ChainInv /\ KindsInv /\ TypeOK /\ SourceKinds = {} /\ pc[p] = "top" /\ ~is_complete[p]
      /\ \A e \in RequiredInputs(p) : Available(e)
  BY Adapters DEF PipeInv, SyncInv, BaseInv, Propagate, Step, StepAndStop, Begin
<1>2. PICK n \in Nat :
        /\ \A i \in DOMAIN Outputs[p] : stamp[p][i] = n
        /\ \A e \in InputSet(p) : 1 \in 1..Len(q[e]) /\ q[e][1].stamp = n
        /\ check_required_input(p) = "none" => \E e \in InputSet(p) : q[e][1].type = "data"
        /\ check_required_input(p) = "complete" => \E e \in InputSet(p) : q[e][1].type = "complete"
  BY <1>1, AtTheTop
<1>3. steps' = steps
  <2>1. Inputs[p] # <<>>
    BY DEF OneEachStep
  <2>2. steps = [r \in Procs |-> steps[r]]
    BY <1>1 DEF TypeOK
  <2> QED BY <2>1, <2>2 DEF Propagate, Step, StepAndStop
<1>4. \A e \in InputSet(p) : Origin(q[e][1]) /\ e \in Edges
  BY <1>2, InputPorts DEF OriginInv
<1>7. steps'[Ia] \in Nat /\ steps[Ia] <= steps'[Ia]
  BY <1>3
<1>5. CASE Propagate(p) \/ Step(p)
  <2>1. PICK t \in {"data", "complete"}, v \in {"none", "complete"} :
          Starts(p, t, v) /\ (t = "data" => v = "none") /\ (t = "complete" => v = "complete")
    BY <1>1, <1>5, PlainStart
  <2>2. /\ t \in Types /\ check_required_input(p) = v /\ q' = q
        /\ todo' = [todo EXCEPT ![p] = Grabs(p) \o Pushes(p, t)]
    BY <2>1 DEF Starts
  <2>3. PICK e \in InputSet(p) : q[e][1].type = t
    BY <1>2, <2>1, <2>2
  <2>4. PICK d : d = q[e][1]
    OBVIOUS
  <2>5. d \in Data /\ Origin(d) /\ d.type = t /\ d.stamp = n
    <3>1. q[e] \in Seq(Data)
      BY <1>1, <1>4 DEF TypeOK
    <3>2. d \in Data
      BY <1>2, <2>4, <3>1, ElementOfSeq
    <3> QED BY <1>2, <1>4, <2>3, <2>4, <3>2
  <2>6. Origin(d)'
    BY <1>1, <1>3, <2>5, OriginStays
  <2>7. d = [type |-> t, stamp |-> n]
    BY <2>5 DEF Data
  <2>8. Origin([type |-> t, stamp |-> n])'
    BY <2>6, <2>7
  <2>9. \A x \in Edges : q'[x] = q[x] \/ q'[x] = <<>>
    BY <2>2
  <2>10. OriginInv'
    BY <1>1, <1>2, <1>7, <2>2, <2>8, <2>9, OriginDecided
  <2> QED BY <1>3, <2>10
<1>6. CASE StepAndStop(p)
  <2>1. /\ todo' = [todo EXCEPT ![p] = Pushes(p, "complete")] /\ "complete" \in Types
        /\ verdict' = [verdict EXCEPT ![p] = "none"] /\ is_complete' = [is_complete EXCEPT ![p] = TRUE]
        /\ Stops(p)
    BY <1>6 DEF StepAndStop, Stops, Types
  <2>2. is_complete'[p] /\ verdict'[p] # "complete"
    BY <1>1, <2>1 DEF TypeOK
  <2>3. Broke'
    BY <2>2 DEF Broke
  <2>4. Origin([type |-> "complete", stamp |-> n])'
    BY <2>3 DEF Origin
  <2>5. \A e \in Edges : q'[e] = q[e] \/ q'[e] = <<>>
    BY <1>1, <2>1, Stopping
  <2>6. OriginInv'
    BY <1>1, <1>2, <1>7, <2>1, <2>4, <2>5, OriginDecided
  <2> QED BY <1>3, <2>6
<1> QED
  BY <1>3, <1>5, <1>6


-----------------------------------------------------------------------------
(* What is under way in the interface queues.                              *)

LEMMA PassedOn ==
  ASSUME NEW T, NEW a \in Seq(T), NEW b \in Seq(T)
  PROVE  /\ b # <<>> => /\ b[1] \in T /\ Tail(b) \in Seq(T) /\ Append(a, b[1]) \in Seq(T)
                        /\ Append(a, b[1]) \o Tail(b) = a \o b
         /\ \A x \in T : a \o Append(b, x) = Append(a \o b, x) /\ Append(b, x) \in Seq(T)
<1>1. ASSUME b # <<>>
      PROVE  /\ b[1] \in T /\ Tail(b) \in Seq(T) /\ Append(a, b[1]) \in Seq(T)
             /\ Append(a, b[1]) \o Tail(b) = a \o b
  <2>1. /\ b = <<Head(b)>> \o Tail(b) /\ Head(b) \in T /\ Tail(b) \in Seq(T) /\ Head(b) = b[1]
    BY <1>1, JoinsOfOne, SomeLists
  <2>2. PICK x \in T, r \in Seq(T) : x = b[1] /\ r = Tail(b) /\ b = <<x>> \o r
    BY <2>1
  <2>3. Append(a, x) = a \o <<x>> /\ <<x>> \in Seq(T) /\ Append(a, x) \in Seq(T)
    BY JoinsOfOne, SomeLists
  <2>4. (a \o <<x>>) \o r = a \o (<<x>> \o r)
    BY <2>3, ConcatAssociative
  <2> QED BY <2>2, <2>3, <2>4
<1>2. ASSUME NEW x \in T PROVE a \o Append(b, x) = Append(a \o b, x) /\ Append(b, x) \in Seq(T)
  <2>1. Append(b, x) = b \o <<x>> /\ <<x>> \in Seq(T) /\ Append(b, x) \in Seq(T)
    BY JoinsOfOne, SomeLists
  <2>2. a \o b \in Seq(T)
    BY ConcatProperties
  <2>3. Append(a \o b, x) = (a \o b) \o <<x>>
    BY <2>2, JoinsOfOne
  <2>4. (a \o b) \o <<x>> = a \o (b \o <<x>>)
    BY <2>1, ConcatAssociative
  <2> QED BY <2>1, <2>3, <2>4
<1> QED
  BY <1>1, <1>2

AppThreads == {"sender", "receiver", Ia, Oa}
Items      == Nat \cup {NoElement}
InQueue    == Contents(buf["in"])
OutQueue   == Contents(buf["out"])

LEMMA QueueItems ==
  ASSUME RingInv(AppThreads)
  PROVE  InQueue \in Seq(Items) /\ OutQueue \in Seq(Items)
<1>1. Queues = {"in", "out"} /\ Elements \cup {NoElement} \subseteq Items
  BY EmbeddedAssumption DEF Items
<1>2. \A k \in Queues : Contents(buf[k]) \in Seq(Elements \cup {NoElement})
  BY ContentsPlaces DEF RingInv
<1>3. \A s \in Seq(Elements \cup {NoElement}) : s \in Seq(Items)
  BY <1>1, SeqMonotonic
<1> QED
  BY <1>1, <1>2, <1>3 DEF InQueue, OutQueue

(* The step does nothing to what is under way in the queues, and the       *)
(* call of the output adapter stays as it is, begins or is decided.        *)
NoTransfer ==
  /\ InQueue' = InQueue /\ OutQueue' = OutQueue
  /\ handed' = handed /\ fed' = fed /\ received' = received
  /\ OaBegin \/ OaOffer \/ call'[Oa] = call[Oa]

SetSent ==
  /\ handed <= supply /\ handed' = handed + 1 /\ InQueue' = Append(InQueue, Nth(handed + 1))
  /\ OutQueue' = OutQueue /\ fed' = fed /\ received' = received /\ call'[Oa] = call[Oa]

SetTaken ==
  /\ InQueue # <<>> /\ Oldest("in") = InQueue[1]
  /\ InQueue' = Tail(InQueue) /\ fed' = Append(fed, InQueue[1])
  /\ OutQueue' = OutQueue /\ handed' = handed /\ received' = received /\ call'[Oa] = call[Oa]

SetReceived ==
  /\ OutQueue # <<>> /\ OutQueue' = Tail(OutQueue) /\ received' = Append(received, OutQueue[1])
  /\ InQueue' = InQueue /\ handed' = handed /\ fed' = fed /\ call'[Oa] = call[Oa]

SetOffered ==
  /\ call[Oa].op = "send" /\ OutQueue' = Append(OutQueue, call[Oa].set) /\ call'[Oa] = None
  /\ InQueue' = InQueue /\ handed' = handed /\ fed' = fed /\ received' = received

LEMMA Transfers ==
  ASSUME RingInv(AppThreads), OaInv, handed \in 0..(supply + 1), supply \in 0..MaxSets,
         call[Oa].op = "send" => call[Oa].set \in Elements, [EmbeddedNext]_embeddedVars
  PROVE  /\ RingInv(AppThreads)'
         /\ IaReceive => SetTaken
         /\ IaReceive \/ NoTransfer \/ SetSent \/ SetReceived \/ SetOffered
<1>1. /\ "in" \in Queues /\ "out" \in Queues /\ "in" # "out" /\ Elements = 0..MaxSets /\ MaxSets \in Nat
      /\ {"sender", "receiver", Ia, Oa} \subseteq AppThreads /\ Ia # Oa /\ DOMAIN call = {Ia, Oa}
  BY EmbeddedAssumption, Adapters DEF AppThreads, OaInv
<1>2. /\ InQueue' = Contents(buf'["in"]) /\ OutQueue' = Contents(buf'["out"])
      /\ InQueue = Contents(buf["in"]) /\ OutQueue = Contents(buf["out"])
  BY DEF InQueue, OutQueue, Contents
<1>3. \A l \in Queues : buf'[l] = buf[l] => Contents(buf'[l]) = Contents(buf[l])
  OBVIOUS
<1>4. ASSUME buf' = buf PROVE RingInv(AppThreads)' /\ InQueue' = InQueue /\ OutQueue' = OutQueue
  BY <1>2, <1>4 DEF RingInv
<1>5. ASSUME NEW t \in AppThreads, NEW k \in Queues, SendWait(t, k) \/ ReceiveWait(t, k)
      PROVE  RingInv(AppThreads)' /\ InQueue' = InQueue /\ OutQueue' = OutQueue
  <2>1. RingInv(AppThreads)' /\ \A l \in Queues : Contents(buf'[l]) = Contents(buf[l])
    BY <1>5, WaitKeeps
  <2> QED BY <1>1, <1>2, <2>1
<1> DEFINE Goal == RingInv(AppThreads)' /\ (NoTransfer \/ SetSent \/ SetReceived \/ SetOffered)
<1>6. ASSUME UNCHANGED embeddedVars PROVE Goal
  BY <1>4, <1>6 DEF embeddedVars, appVars, NoTransfer
<1>7. ASSUME AppSend PROVE Goal
  <2>1. UNCHANGED <<call, fed, received>> /\ handed <= supply
    BY <1>7 DEF AppSend, WantsToSend
  <2>2. CASE SendWait("sender", "in") /\ UNCHANGED handed
    BY <1>1, <1>5, <2>1, <2>2 DEF NoTransfer
  <2>3. CASE /\ Send("sender", "in", IF handed < supply THEN handed + 1 ELSE end_of_input)
             /\ handed' = handed + 1
    <3>1. (IF handed < supply THEN handed + 1 ELSE end_of_input) = Nth(handed + 1)
      BY <2>1 DEF Nth
    <3>2. PICK m \in Elements : m = Nth(handed + 1) /\ Send("sender", "in", m)
      <4>1. Nth(handed + 1) \in Elements
        BY <1>1, <2>1 DEF Nth, end_of_input
      <4> QED BY <2>3, <3>1, <4>1
    <3>3. /\ RingInv(AppThreads)' /\ Contents(buf'["in"]) = Append(Contents(buf["in"]), m)
          /\ \A l \in Queues \ {"in"} : buf'[l] = buf[l]
      BY <1>1, <3>2, SendPuts
    <3>4. SetSent
      BY <1>1, <1>2, <1>3, <2>1, <2>3, <3>2, <3>3 DEF SetSent
    <3> QED BY <3>3, <3>4
  <2> QED BY <1>7, <2>2, <2>3 DEF AppSend
<1>8. ASSUME AppReceive PROVE Goal
  <2>1. UNCHANGED <<call, fed, handed>>
    BY <1>8 DEF AppReceive
  <2>2. CASE ReceiveWait("receiver", "out") /\ UNCHANGED received
    BY <1>1, <1>5, <2>1, <2>2 DEF NoTransfer
  <2>3. CASE Receive("receiver", "out") /\ received' = Append(received, Oldest("out"))
    <3>1. /\ RingInv(AppThreads)' /\ Contents(buf["out"]) # <<>> /\ Contents(buf["out"])[1] = Oldest("out")
          /\ Contents(buf'["out"]) = Tail(Contents(buf["out"])) /\ \A l \in Queues \ {"out"} : buf'[l] = buf[l]
      BY <1>1, <2>3, ReceiveGets
    <3>2. SetReceived
      BY <1>1, <1>2, <1>3, <2>1, <2>3, <3>1 DEF SetReceived
    <3> QED BY <3>1, <3>2
  <2> QED BY <1>8, <2>2, <2>3 DEF AppReceive
<1>9. ASSUME IaReceive PROVE RingInv(AppThreads)' /\ SetTaken
  <2>1. /\ Receive(Ia, "in") /\ call' = [call EXCEPT ![Ia] = None] /\ fed' = Append(fed, Oldest("in"))
        /\ handed' = handed /\ received' = received
    BY <1>9 DEF IaReceive, appVars
  <2>2. /\ RingInv(AppThreads)' /\ Contents(buf["in"]) # <<>> /\ Contents(buf["in"])[1] = Oldest("in")
        /\ Contents(buf'["in"]) = Tail(Contents(buf["in"])) /\ \A l \in Queues \ {"in"} : buf'[l] = buf[l]
    BY <1>1, <2>1, ReceiveGets
  <2>3. SetTaken
    BY <1>1, <1>2, <1>3, <1>9, <2>1, <2>2 DEF SetTaken
  <2> QED BY <2>2, <2>3
<1>10. ASSUME OaSend PROVE Goal
  <2>1. /\ call[Oa].op = "send" /\ Send(Oa, "out", call[Oa].set) /\ call' = [call EXCEPT ![Oa] = None]
        /\ UNCHANGED <<handed, fed, received>>
    BY <1>10 DEF OaSend, OaReady, appVars
  <2>2. PICK m \in Elements : m = call[Oa].set /\ Send(Oa, "out", m)
    BY <2>1
  <2>3. /\ RingInv(AppThreads)' /\ Contents(buf'["out"]) = Append(Contents(buf["out"]), m)
        /\ \A l \in Queues \ {"out"} : buf'[l] = buf[l]
    BY <1>1, <2>2, SendPuts
  <2>4. SetOffered
    BY <1>1, <1>2, <1>3, <2>1, <2>2, <2>3 DEF SetOffered
  <2> QED BY <2>3, <2>4
<1>11. ASSUME IaWait \/ OaWait PROVE Goal
  <2>1. UNCHANGED <<call, handed, fed, received>>
    BY <1>11 DEF IaWait, OaWait, appVars
  <2> QED BY <1>1, <1>5, <1>11, <2>1 DEF IaWait, OaWait, NoTransfer
<1>12. ASSUME IaBegin PROVE Goal
  <2>1. UNCHANGED <<buf, handed, fed, received>> /\ call'[Oa] = call[Oa]
    BY <1>1, <1>12 DEF IaBegin, appVars
  <2> QED BY <1>4, <1>12, <2>1 DEF NoTransfer, IaBegin
<1>13. ASSUME OaBegin \/ OaOffer PROVE Goal
  <2>1. UNCHANGED <<buf, handed, fed, received>>
    BY <1>13 DEF OaBegin, OaOffer, appVars
  <2> QED BY <1>4, <1>13, <2>1 DEF NoTransfer
<1>14. ASSUME Stop \/ AdapterStep \/ \E p \in Procs : OtherStep(p) \/ Interrupted(p)
       PROVE  Goal
  <2>1. UNCHANGED <<buf, handed, fed, received, call>>
    BY <1>14 DEF Stop, AdapterStep, OtherStep, Interrupted, appVars
  <2> QED BY <1>4, <2>1 DEF NoTransfer
<1> QED
  BY <1>6, <1>7, <1>8, <1>9, <1>10, <1>11, <1>12, <1>13, <1>14, Adapters
  DEF EmbeddedNext, IaNext, OaNext, Others


(* The input adapter, which does what comes next in its queue.             *)
LEMMA IaReceives ==
  ASSUME OneEachStep, PipeInv, RingInv(AppThreads), FeedInv, IaReceive, SetTaken
  PROVE  /\ pc[Ia] = "top" /\ ~is_complete[Ia] /\ Len(fed) = steps[Ia] /\ steps[Ia] \in Nat
         /\ \A i \in DOMAIN Outputs[Ia] : stamp[Ia][i] = steps[Ia]
         /\ InQueue[1] \in Nat /\ InQueue[1] = Nth(Len(fed) + 1)
         /\ \/ /\ Len(fed) = supply /\ StepAndStop(Ia) /\ steps' = steps
            \/ /\ Len(fed) < supply /\ Step(Ia) /\ steps'[Ia] = steps[Ia] + 1
<1>1. TypeOK /\ Ia \in Procs /\ Inputs[Ia] = <<>> /\ InQueue \in Seq(Items) /\ InQueue # <<>>
      /\ fed \in Seq(Nat) /\ handed \in Nat /\ supply \in Nat /\ handed <= supply + 1
      /\ fed \o InQueue = [i \in 1..handed |-> Nth(i)] /\ Oldest("in") = InQueue[1]
  BY Adapters, QueueItems, EmbeddedAssumption DEF PipeInv, BaseInv, SetTaken, FeedInv, InQueue
<1>2. /\ pc[Ia] = "top" /\ ~is_complete[Ia]
      /\ IF Oldest("in") = end_of_input THEN StepAndStop(Ia) ELSE Step(Ia)
  BY DEF IaReceive, StepAndStop, Step, Begin
<1>3. ~Ended(Ia)
  BY <1>2 DEF Ended
<1>4. /\ Len(fed) \in Nat /\ Len(fed) <= supply /\ steps[Ia] = Len(fed)
      /\ \A i \in DOMAIN Outputs[Ia] : stamp[Ia][i] = steps[Ia]
  BY <1>1, <1>3, LenProperties DEF FeedInv
<1>5. InQueue[1] = Nth(Len(fed) + 1) /\ Len(fed) + 1 \in 1..handed
  <2>1. fed \in Seq(Items)
    BY <1>1, SeqMonotonic DEF Items
  <2>2. /\ Len(InQueue) \in Nat /\ Len(InQueue) >= 1
    BY <1>1, SomeLists
  <2>3. /\ Len(fed \o InQueue) = Len(fed) + Len(InQueue)
        /\ \A i \in 1..(Len(fed) + Len(InQueue)) :
             (fed \o InQueue)[i] = IF i <= Len(fed) THEN fed[i] ELSE InQueue[i - Len(fed)]
    BY <1>1, <2>1, ConcatProperties
  <2>4. Len(fed \o InQueue) = handed
    BY <1>1
  <2>5. Len(fed) + 1 \in 1..handed /\ (Len(fed) + 1) - Len(fed) = 1 /\ ~(Len(fed) + 1 <= Len(fed))
    BY <1>4, <2>2, <2>3, <2>4
  <2>6. (fed \o InQueue)[Len(fed) + 1] = InQueue[1]
    BY <2>3, <2>4, <2>5
  <2>7. (fed \o InQueue)[Len(fed) + 1] = Nth(Len(fed) + 1)
    BY <1>1, <2>5
  <2> QED BY <2>5, <2>6, <2>7
<1>6. InQueue[1] \in Nat /\ (InQueue[1] = end_of_input <=> Len(fed) + 1 > supply)
  BY <1>1, <1>4, <1>5 DEF Nth, end_of_input
<1>7. CASE Len(fed) = supply
  <2>1. StepAndStop(Ia)
    BY <1>1, <1>2, <1>4, <1>6, <1>7
  <2> QED BY <1>1, <1>2, <1>4, <1>5, <1>6, <1>7, <2>1 DEF StepAndStop
<1>8. CASE Len(fed) < supply
  <2>1. Step(Ia)
    BY <1>1, <1>2, <1>4, <1>6, <1>8
  <2>2. steps' = [steps EXCEPT ![Ia] = @ + 1] /\ DOMAIN steps = Procs
    BY <1>1, <2>1 DEF Step, TypeOK
  <2> QED BY <1>1, <1>2, <1>4, <1>5, <1>6, <1>8, <2>1, <2>2
<1> QED
  BY <1>1, <1>4, <1>7, <1>8

LEMMA OriginNext ==
  ASSUME OneEachStep, PipeInv, PipeInv', RingInv(AppThreads), FeedInv, OriginInv,
         [EmbeddedNext]_embeddedVars, IaReceive => SetTaken
  PROVE  /\ OriginInv'
         /\ steps'[Ia] \in Nat /\ steps[Ia] <= steps'[Ia]
         /\ IaReceive \/ (steps' = steps /\ (Ended(Ia)' \/ (~Ended(Ia) /\ stamp'[Ia] = stamp[Ia])))
<1>1. /\ BaseInv /\ BaseInv' /\ TypeOK /\ TypeOK' /\ [AnyNext]_vars /\ supply' = supply /\ Ia \in Procs
      /\ steps[Ia] \in Nat /\ steps'[Ia] \in Nat /\ supply \in Nat
  <2>1. steps[Ia] \in 0..MaxSteps /\ steps'[Ia] \in 0..MaxSteps
    BY Adapters DEF PipeInv, BaseInv, TypeOK
  <2> QED BY <2>1, EmbeddedSteps, SupplyStays, Adapters DEF PipeInv, BaseInv, FeedInv
<1>2. Ended(Ia) => Ended(Ia)'
  BY <1>1, EndedStays
<1>3. CASE IaReceive
  <2>1. PICK n \in Nat : n = steps[Ia]
    BY <1>1
  <2>2. /\ pc[Ia] = "top" /\ Len(fed) = n /\ \A i \in DOMAIN Outputs[Ia] : stamp[Ia][i] = n
    BY <1>3, <2>1, IaReceives
  <2>3. CASE Len(fed) = supply /\ StepAndStop(Ia) /\ steps' = steps
    <3>1. /\ todo' = [todo EXCEPT ![Ia] = Pushes(Ia, "complete")] /\ "complete" \in Types /\ Stops(Ia)
      BY <2>3 DEF StepAndStop, Stops, Types
    <3>2. \A e \in Edges : q'[e] = q[e] \/ q'[e] = <<>>
      BY <1>1, <3>1, Stopping
    <3>3. Origin([type |-> "complete", stamp |-> n])'
      BY <1>1, <2>2, <2>3 DEF Origin
    <3>4. steps[Ia] <= steps'[Ia]
      BY <1>1, <2>3
    <3>5. OriginInv'
      BY <1>1, <2>2, <3>1, <3>2, <3>3, <3>4, OriginDecided
    <3> QED BY <1>1, <1>3, <3>4, <3>5
  <2>4. CASE Len(fed) < supply /\ Step(Ia) /\ steps'[Ia] = steps[Ia] + 1
    <3>1. Starts(Ia, "data", "none")
      BY <1>1, <2>4, PlainStart, Adapters DEF PipeInv, SyncInv
    <3>2. /\ todo' = [todo EXCEPT ![Ia] = Grabs(Ia) \o Pushes(Ia, "data")] /\ "data" \in Types
          /\ \A e \in Edges : q'[e] = q[e] \/ q'[e] = <<>>
      BY <3>1 DEF Starts
    <3>3. Origin([type |-> "data", stamp |-> n])'
      BY <2>1, <2>4 DEF Origin
    <3>4. steps[Ia] <= steps'[Ia]
      BY <1>1, <2>4
    <3>5. OriginInv'
      BY <1>1, <2>2, <3>2, <3>3, <3>4, OriginDecided
    <3> QED BY <1>1, <1>3, <3>4, <3>5
  <2> QED BY <1>3, <2>3, <2>4, IaReceives
<1>4. CASE UNCHANGED vars
  <2>1. UNCHANGED <<q, todo, steps, stamp, is_complete, verdict, pc>>
    BY <1>4 DEF vars
  <2>2. \A e \in Edges : PushTo(e)' = PushTo(e)
    BY <2>1 DEF PushTo, PushesIn, Elems
  <2>3. Broke' <=> Broke
    BY <2>1 DEF Broke
  <2>4. OriginInv'
    BY <1>1, <2>1, <2>2, <2>3 DEF OriginInv, Origin
  <2> QED BY <1>1, <1>2, <2>1, <2>4
<1>5. ASSUME NEW p \in Procs, Interruption(p) \/ Grab(p) \/ Push(p) \/ EndStep(p) \/ StepAfterCompletion(p)
      PROVE  OriginInv' /\ steps' = steps /\ stamp' = stamp
  <2>1. steps' = steps /\ stamp' = stamp
    BY <1>5 DEF Interruption, Grab, Push, EndStep, StepAfterCompletion
  <2> QED BY <1>1, <1>5, <2>1, OriginCalls
<1>6. ASSUME NEW p \in Procs \ {Ia}, Propagate(p) \/ Step(p) \/ StepAndStop(p)
      PROVE  OriginInv' /\ steps' = steps /\ stamp'[Ia] = stamp[Ia]
  <2>1. OriginInv' /\ steps' = steps
    BY <1>1, <1>6, OriginPassedOn
  <2>2. stamp'[Ia] = stamp[Ia]
    BY <1>1, <1>6, OthersKeep DEF ProcNext
  <2> QED BY <2>1, <2>2
<1> QED
  BY <1>1, <1>2, <1>3, <1>4, <1>5, <1>6, EmbeddedCases

LEMMA FeedNext ==
  ASSUME OneEachStep, PipeInv, PipeInv', RingInv(AppThreads), FeedInv, OriginInv,
         [EmbeddedNext]_embeddedVars, IaReceive => SetTaken,
         IaReceive \/ NoTransfer \/ SetSent \/ SetReceived \/ SetOffered
  PROVE  FeedInv'
<1>1. /\ supply' = supply /\ supply \in 0..MaxSets /\ supply \in Nat /\ handed \in Nat /\ handed <= supply + 1
      /\ fed \in Seq(Nat) /\ Len(fed) \in Nat /\ fed \in Seq(Items)
      /\ InQueue \in Seq(Items) /\ fed \o InQueue = [i \in 1..handed |-> Nth(i)] /\ Ia \in Procs
  <2>1. fed \in Seq(Nat) /\ fed \in Seq(Items)
    BY SeqMonotonic DEF FeedInv, Items
  <2> QED BY <2>1, SupplyStays, QueueItems, Adapters, EmbeddedAssumption, LenProperties DEF FeedInv, InQueue
<1>2. \A i : Nth(i)' = Nth(i)
  BY <1>1 DEF Nth
<1>3. ASSUME fed' \o InQueue' = fed \o InQueue, handed' = handed
      PROVE  /\ handed' \in 0..(supply' + 1)
             /\ fed' \o InQueue' = [i \in 1..handed' |-> Nth(i)']
  BY <1>1, <1>2, <1>3
<1>4. /\ handed' \in 0..(supply' + 1)
      /\ fed' \o InQueue' = [i \in 1..handed' |-> Nth(i)']
  <2>1. CASE IaReceive
    <3>1. InQueue # <<>> /\ InQueue' = Tail(InQueue) /\ fed' = Append(fed, InQueue[1]) /\ handed' = handed
      BY <2>1 DEF SetTaken
    <3>2. fed' \o InQueue' = fed \o InQueue
      <4>1. PICK a \in Seq(Items), b \in Seq(Items) : a = fed /\ b = InQueue
        BY <1>1
      <4>2. Append(a, b[1]) \o Tail(b) = a \o b
        BY <3>1, <4>1, PassedOn
      <4> QED BY <3>1, <4>1, <4>2
    <3> QED BY <1>3, <3>1, <3>2
  <2>2. CASE NoTransfer \/ SetReceived \/ SetOffered
    <3>1. InQueue' = InQueue /\ fed' = fed /\ handed' = handed
      BY <2>2 DEF NoTransfer, SetReceived, SetOffered
    <3> QED BY <1>3, <3>1
  <2>3. CASE SetSent
    <3>1. handed <= supply /\ handed' = handed + 1 /\ InQueue' = Append(InQueue, Nth(handed + 1)) /\ fed' = fed
      BY <2>3 DEF SetSent
    <3>2. PICK m \in Items : m = Nth(handed + 1)
      BY <1>1 DEF Nth, end_of_input, Items
    <3>3. fed' \o InQueue' = Append(fed \o InQueue, m)
      <4>1. PICK a \in Seq(Items), b \in Seq(Items) : a = fed /\ b = InQueue
        BY <1>1
      <4>2. a \o Append(b, m) = Append(a \o b, m)
        BY PassedOn
      <4> QED BY <3>1, <3>2, <4>1, <4>2
    <3> DEFINE s == [i \in 1..handed |-> Nth(i)]
               t == [i \in 1..(handed + 1) |-> Nth(i)]
    <3>4. s \in Seq(Items) /\ t \in Seq(Items) /\ Len(s) = handed /\ Len(t) = handed + 1
      <4>1. \A i \in Nat : Nth(i) \in Items
        BY <1>1 DEF Nth, end_of_input, Items
      <4>2. s \in [1..handed -> Items] /\ t \in [1..(handed + 1) -> Items]
        BY <1>1, <4>1
      <4> QED BY <1>1, <4>2, LenProperties
    <3>5. /\ Append(s, m) \in Seq(Items) /\ Len(Append(s, m)) = handed + 1
          /\ \A i \in 1..handed : Append(s, m)[i] = s[i]
          /\ Append(s, m)[handed + 1] = m
      <4> HIDE DEF s
      <4> QED BY <3>2, <3>4, SomeLists
    <3>6. \A i \in 1..(handed + 1) : i \in 1..handed \/ i = handed + 1
      BY <1>1
    <3>7. Append(s, m) = t
      <4>1. \A i \in 1..(handed + 1) : Append(s, m)[i] = t[i]
        BY <3>2, <3>5, <3>6
      <4> HIDE DEF s, t
      <4> QED BY <3>4, <3>5, <4>1, SeqEqual
    <3>8. fed' \o InQueue' = t
      BY <1>1, <3>3, <3>7
    <3>9. handed + 1 \in 0..(supply' + 1) /\ t = [i \in 1..(handed + 1) |-> Nth(i)']
      BY <1>1, <1>2, <3>1
    <3> QED BY <3>1, <3>8, <3>9
  <2> QED BY <2>1, <2>2, <2>3
<1>5. /\ fed' \in Seq(Nat)
      /\ steps'[Ia] = IF Len(fed') <= supply' THEN Len(fed') ELSE supply'
      /\ Ended(Ia)' \/ (Len(fed') <= supply' /\ \A i \in DOMAIN Outputs[Ia] : stamp'[Ia][i] = steps'[Ia])
  <2>1. CASE IaReceive
    <3>1. fed' = Append(fed, InQueue[1])
      BY <2>1 DEF SetTaken
    <3>2. /\ pc[Ia] = "top" /\ ~is_complete[Ia] /\ Len(fed) = steps[Ia] /\ steps[Ia] \in Nat
          /\ \A i \in DOMAIN Outputs[Ia] : stamp[Ia][i] = steps[Ia]
          /\ InQueue[1] \in Nat
      BY <2>1, IaReceives
    <3>3. fed' \in Seq(Nat) /\ Len(fed') = Len(fed) + 1
      BY <1>1, <3>1, <3>2, SomeLists
    <3>4. TypeOK
      BY DEF PipeInv, BaseInv
    <3>5. CASE Len(fed) = supply /\ StepAndStop(Ia) /\ steps' = steps
      <4>1. is_complete'[Ia]
        BY <1>1, <3>4, <3>5 DEF StepAndStop, TypeOK
      <4>2. Ended(Ia)'
        BY <4>1 DEF Ended
      <4>3. Len(fed') = supply' + 1 /\ steps'[Ia] = supply'
        BY <1>1, <3>2, <3>3, <3>5
      <4>4. steps'[Ia] = IF Len(fed') <= supply' THEN Len(fed') ELSE supply'
        BY <1>1, <4>3
      <4> QED BY <3>3, <4>2, <4>4
    <3>6. CASE Len(fed) < supply /\ Step(Ia) /\ steps'[Ia] = steps[Ia] + 1
      <4>1. Starts(Ia, "data", "none")
        BY <1>1, <3>6, PlainStart, Adapters DEF PipeInv, SyncInv
      <4>2. stamp' = StampsAfter(Ia, "data") /\ DOMAIN stamp = Procs
        BY <3>4, <4>1 DEF Starts, TypeOK
      <4>3. \A i \in DOMAIN Outputs[Ia] : stamp'[Ia][i] = stamp[Ia][i] + Times(Ia, i, "data") * Increment(Ia, i)
        BY <1>1, <4>2 DEF StampsAfter
      <4>4. \A i \in DOMAIN Outputs[Ia] : Times(Ia, i, "data") = 1 /\ Increment(Ia, i) = 1
        BY <1>1, OneEach
      <4>5. \A i \in DOMAIN Outputs[Ia] : stamp'[Ia][i] = steps'[Ia]
        BY <3>2, <3>6, <4>3, <4>4
      <4> QED BY <1>1, <3>2, <3>3, <3>6, <4>5
    <3> QED BY <2>1, <3>5, <3>6, IaReceives
  <2>2. CASE ~IaReceive
    <3>1. fed' = fed
      BY <2>2 DEF NoTransfer, SetSent, SetReceived, SetOffered
    <3>2. steps' = steps /\ (Ended(Ia)' \/ (~Ended(Ia) /\ stamp'[Ia] = stamp[Ia]))
      BY <2>2, OriginNext
    <3> QED BY <1>1, <3>1, <3>2 DEF FeedInv
  <2> QED BY <2>1, <2>2
<1>6. Contents(buf["in"])' = InQueue'
  BY DEF InQueue
<1> QED
  BY <1>1, <1>4, <1>5, <1>6 DEF FeedInv


-----------------------------------------------------------------------------
(* What comes out.                                                         *)

(* s holds numbers up to n in their order, and 0 behind them when done;    *)
(* when all must be there, it holds all of them.                           *)
Orderly(s, n, done, all) ==
  /\ s \in Seq(Nat)
  /\ \A i \in 1..Len(s) : s[i] <= n
  /\ \A i \in 1..Len(s) : s[i] = 0 => i = Len(s) /\ done
  /\ \A i, j \in 1..Len(s) : i < j /\ s[j] # 0 => s[i] < s[j]
  /\ all => /\ \A i \in 1..Len(s) : s[i] # 0 => s[i] = i
            /\ Len(s) = n + (IF done THEN 1 ELSE 0)

LEMMA OrderlyNext ==
  ASSUME NEW s, NEW n \in Nat, NEW all, Orderly(s, n, FALSE, all)
  PROVE  /\ Orderly(Append(s, n + 1), n + 1, FALSE, all)
         /\ Orderly(Append(s, 0), n, TRUE, all)
<1>1. s \in Seq(Nat) /\ Len(s) \in Nat /\ \A i \in 1..Len(s) : s[i] \in Nat
  BY SomeLists DEF Orderly
<1>2. ASSUME NEW x \in Nat
      PROVE  /\ Append(s, x) \in Seq(Nat) /\ Len(Append(s, x)) = Len(s) + 1
             /\ Append(s, x)[Len(s) + 1] = x /\ \A i \in 1..Len(s) : Append(s, x)[i] = s[i]
             /\ \A i \in 1..(Len(s) + 1) : i \in 1..Len(s) \/ i = Len(s) + 1
  BY <1>1, SomeLists
<1>3. /\ \A i \in 1..Len(s) : s[i] # 0 /\ s[i] <= n
      /\ \A i, j \in 1..Len(s) : i < j => s[i] < s[j]
      /\ all => Len(s) = n /\ \A i \in 1..Len(s) : s[i] = i
  BY DEF Orderly
<1>4. ASSUME NEW x \in Nat, NEW m \in Nat, NEW done, NEW t, t = Append(s, x), n <= m,
             (x = 0 /\ m = n /\ done = TRUE) \/ (x = n + 1 /\ m = n + 1 /\ done = FALSE)
      PROVE  Orderly(t, m, done, all)
  <2>1. /\ t \in Seq(Nat) /\ Len(t) = Len(s) + 1 /\ t[Len(s) + 1] = x
        /\ \A i \in 1..Len(s) : t[i] = s[i]
    BY <1>2, <1>4
  <2>2. \A i \in 1..Len(t) : i \in 1..Len(s) \/ i = Len(s) + 1
    BY <1>1, <2>1
  <2>3. \A i \in 1..Len(t) : t[i] <= m /\ (t[i] = 0 => i = Len(t) /\ done)
    <3> TAKE i \in 1..Len(t)
    <3>1. CASE i \in 1..Len(s)
      <4>1. t[i] = s[i] /\ s[i] \in Nat /\ s[i] # 0 /\ s[i] <= n
        BY <1>1, <1>3, <2>1, <3>1
      <4> QED BY <1>4, <4>1
    <3>2. CASE i = Len(s) + 1
      BY <1>4, <2>1, <3>2
    <3> QED BY <2>2, <3>1, <3>2
  <2>4. ASSUME NEW i \in 1..Len(t), NEW j \in 1..Len(t), i < j, t[j] # 0 PROVE t[i] < t[j]
    <3>1. i \in 1..Len(s) /\ t[i] = s[i] /\ s[i] \in Nat /\ s[i] <= n
      BY <1>1, <1>3, <2>1, <2>2, <2>4
    <3>2. CASE j \in 1..Len(s)
      BY <1>3, <2>1, <2>4, <3>1, <3>2
    <3>3. CASE j = Len(s) + 1
      BY <1>4, <2>1, <2>4, <3>1, <3>3
    <3> QED BY <2>2, <3>2, <3>3
  <2>5. all => /\ \A i \in 1..Len(t) : t[i] # 0 => t[i] = i
               /\ Len(t) = m + (IF done THEN 1 ELSE 0)
    BY <1>1, <1>3, <1>4, <2>1, <2>2
  <2> QED BY <2>1, <2>3, <2>4, <2>5 DEF Orderly
<1>5. PICK x \in Nat : x = n + 1 /\ n <= x
  OBVIOUS
<1>6. Orderly(Append(s, x), x, FALSE, all)
  BY <1>4, <1>5
<1>7. Orderly(Append(s, 0), n, TRUE, all)
  <2>1. 0 \in Nat /\ n <= n /\ TRUE \in BOOLEAN
    OBVIOUS
  <2>2. PICK x0 \in Nat, m \in Nat, done \in BOOLEAN : x0 = 0 /\ m = n /\ n <= m /\ done = TRUE
    BY <2>1
  <2>3. Orderly(Append(s, x0), m, done, all)
    BY <1>4, <2>2
  <2> QED BY <2>2, <2>3
<1> QED
  BY <1>5, <1>6, <1>7

LEMMA OrderlyLess ==
  ASSUME NEW T, NEW s \in Seq(T), NEW x \in T, NEW n \in Nat, NEW done, Orderly(Append(s, x), n, done, FALSE)
  PROVE  Orderly(s, n, done, FALSE)
<1> DEFINE t == Append(s, x)
<1>1. /\ Len(s) \in Nat /\ Len(t) = Len(s) + 1 /\ \A i \in 1..Len(s) : t[i] = s[i]
  BY SomeLists
<1>2. t \in Seq(Nat) /\ \A i \in 1..Len(t) : t[i] \in Nat
  BY SomeLists DEF Orderly
<1>3. Orderly(t, n, done, FALSE)
  OBVIOUS
<1> HIDE DEF t
<1>4. s \in Seq(Nat)
  <2>1. \A i \in 1..Len(s) : s[i] \in Nat
    BY <1>1, <1>2
  <2> QED BY <1>1, <2>1, LenProperties
<1> QED
  BY <1>1, <1>2, <1>3, <1>4 DEF Orderly

(* How many data sets the output adapter has been handed.                  *)
OaSteps == Due(Inputs[Oa][1])

(* What has been received, what is in the queue, and what the output       *)
(* adapter has in its hands.                                               *)
Pending == IF call[Oa].op = "none" THEN <<>> ELSE <<call[Oa].set>>
Outcome == (received \o OutQueue) \o Pending

OutInv ==
  /\ received \in Seq(Items) /\ call[Oa] \in [op : {"none", "offer", "send"}, set : Nat]
  /\ OaSteps <= steps[Ia]
  /\ Orderly(Outcome, OaSteps, verdict[Oa] = "complete", wait_on_queue_full)
  /\ verdict[Oa] = "complete" => OaSteps = supply \/ Broke

LEMMA OaEdge ==
  ASSUME OneEachStep, PipeInv
  PROVE  LET e == Inputs[Oa][1]
         IN  /\ e \in InputSet(Oa) /\ e \in Edges /\ Down(e) = Oa /\ e \in RequiredInputs(Oa)
             /\ InFreq[e] = 1 /\ OaSteps \in Nat /\ processed[e] \in Nat
<1> DEFINE e == Inputs[Oa][1]
<1>1. Inputs[Oa] \in Seq(Edges) /\ Inputs[Oa] # <<>>
  BY TopologyAssumption, Adapters DEF OneEachStep
<1>2. e \in InputSet(Oa)
  BY <1>1, SomeLists DEF InputSet
<1> HIDE DEF e
<1>3. e \in Edges /\ Down(e) = Oa /\ e \in RequiredInputs(Oa) /\ InFreq[e] = 1
  BY <1>2, OneEach, RequiredEdges, Adapters
<1>4. processed[e] \in Nat
  BY <1>3 DEF PipeInv, BaseInv, TypeOK
<1>5. Due(e) \in Nat
  BY <1>3, <1>4 DEF Due
<1> QED
  BY <1>2, <1>3, <1>4, <1>5 DEF e, OaSteps

LEMMA OaCases ==
  ASSUME [EmbeddedNext]_embeddedVars
  PROVE  \/ OaBegin \/ UNCHANGED vars \/ Grab(Oa) \/ EndStep(Oa)
         \/ \E p \in Procs : Interruption(p)
         \/ \E p \in Procs \ {Oa} : ProcNext(p)
<1>1. CASE UNCHANGED embeddedVars
  BY <1>1 DEF embeddedVars
<1>2. CASE AppSend \/ AppReceive \/ Stop \/ IaBegin \/ IaWait \/ OaOffer \/ OaWait \/ OaSend
  BY <1>2 DEF AppSend, AppReceive, Stop, IaBegin, IaWait, OaOffer, OaWait, OaSend
<1>3. CASE IaReceive \/ AdapterStep
  BY <1>3, Adapters DEF IaReceive, AdapterStep, ProcNext
<1>4. CASE \E p \in Others : OtherStep(p)
  BY <1>4 DEF OtherStep, Others
<1>5. CASE \E p \in Procs : Interrupted(p)
  BY <1>5 DEF Interrupted, Interruption
<1> QED
  BY <1>1, <1>2, <1>3, <1>4, <1>5, Adapters DEF EmbeddedNext, IaNext, OaNext, Others

LEMMA OaStepsKept ==
  ASSUME OneEachStep, PipeInv, [EmbeddedNext]_embeddedVars
  PROVE  OaBegin \/ (OaSteps' = OaSteps /\ verdict'[Oa] = verdict[Oa])
<1>1. /\ BaseInv /\ TypeOK /\ KindsInv /\ FitInv /\ SourceKinds = {} /\ Oa \in Procs
      /\ \A p \in Procs : pc[p] = "top" => todo[p] = <<>>
  BY Adapters DEF PipeInv, SyncInv, BaseInv, CallsInv
<1>2. PICK e \in InputSet(Oa) :
        e = Inputs[Oa][1] /\ e \in Edges /\ Down(e) = Oa /\ e \in RequiredInputs(Oa) /\ InFreq[e] = 1
        /\ processed[e] \in Nat
  BY OaEdge
<1>3. /\ OaSteps = processed[e] + (IF verdict[Oa] = "none" /\ Reads(todo[Oa], e) THEN 1 ELSE 0)
      /\ OaSteps' = processed'[e] + (IF verdict'[Oa] = "none" /\ Reads(todo'[Oa], e) THEN 1 ELSE 0)
  BY <1>2, DueLater DEF OaSteps, Due
<1>4. ASSUME processed'[e] = processed[e], todo'[Oa] = todo[Oa], verdict'[Oa] = verdict[Oa]
      PROVE  OaSteps' = OaSteps
  BY <1>3, <1>4
<1>5. CASE UNCHANGED vars
  BY <1>4, <1>5 DEF vars
<1>6. ASSUME NEW p \in Procs, Interruption(p) PROVE OaSteps' = OaSteps /\ verdict'[Oa] = verdict[Oa]
  BY <1>4, <1>6 DEF Interruption
<1>7. CASE EndStep(Oa)
  BY <1>4, <1>7 DEF EndStep
<1>8. ASSUME NEW p \in Procs \ {Oa}, ProcNext(p) PROVE OaSteps' = OaSteps /\ verdict'[Oa] = verdict[Oa]
  <2>1. todo'[Oa] = todo[Oa] /\ verdict'[Oa] = verdict[Oa]
    BY <1>1, <1>8, OthersKeep
  <2>2. processed'[e] = processed[e]
    <3>1. CASE Grab(p)
      <4>1. PICK f \in InputSet(p) : Grabbed(p, f)
        BY <1>1, <3>1, Grabbing
      <4>2. f # e
        BY <1>2, <1>8, <4>1 DEF Grabbed
      <4> QED BY <1>1, <1>2, <3>1, <4>1, <4>2, GrabCounts
    <3>2. CASE ~Grab(p)
      BY <1>8, <3>2 DEF ProcNext, Propagate, Step, StepAndStop, StepAfterCompletion, Push, EndStep
    <3> QED BY <3>1, <3>2
  <2> QED BY <1>4, <2>1, <2>2
<1>9. CASE Grab(Oa)
  <2>1. CallMade(Oa) /\ \E f \in InputSet(Oa) : Grabbed(Oa, f)
    BY <1>1, <1>9, Grabbing
  <2>2. PICK f \in InputSet(Oa) : Grabbed(Oa, f)
    BY <2>1
  <2>3. /\ ~Reads(todo'[Oa], f) /\ Reads(todo[Oa], f)
        /\ \A x : x # f => (Reads(todo'[Oa], x) <=> Reads(todo[Oa], x))
    BY <1>1, <2>1, <2>2, CallsLeft
  <2>4. verdict' = verdict
    BY <2>1 DEF CallMade
  <2>5. /\ \A x \in Edges : x # f => processed'[x] = processed[x]
        /\ processed'[f] = IF verdict[Oa] = "none" THEN processed[f] + Taken(f) ELSE processed[f]
    BY <1>1, <1>9, <2>2, GrabCounts
  <2>6. CASE e # f
    BY <1>2, <1>3, <2>3, <2>4, <2>5, <2>6
  <2>7. CASE e = f
    <3>1. verdict[Oa] = "none" => Taken(e) = 1
      BY <1>1, <1>2, <2>3, <2>7, TakesData
    <3> QED BY <1>2, <1>3, <2>3, <2>4, <2>5, <2>7, <3>1
  <2> QED BY <2>6, <2>7
<1> QED
  BY <1>5, <1>6, <1>7, <1>8, <1>9, <1>4, OaCases DEF EndStep

(* The output adapter begins a step: with the next data set, or with the   *)
(* end that has come through the pipeline.                                 *)
LEMMA OaBegins ==
  ASSUME OneEachStep, PipeInv, RingInv(AppThreads), FeedInv, OriginInv, OaInv, OaBegin
  PROVE  /\ verdict[Oa] # "complete" /\ call[Oa] = None
         /\ \/ /\ OaSteps' = OaSteps + 1 /\ OaSteps < steps[Ia] /\ verdict'[Oa] = "none"
               /\ call'[Oa] = [op |-> "offer", set |-> OaSteps + 1]
            \/ /\ OaSteps' = OaSteps /\ verdict'[Oa] = "complete" /\ (OaSteps = supply \/ Broke)
               /\ call'[Oa] = [op |-> "send", set |-> end_of_input]
<1>1. /\ BaseInv /\ ChainInv /\ KindsInv /\ TypeOK /\ SourceKinds = {} /\ Oa \in Procs /\ Oa # Ia
      /\ pc[Oa] = "top" /\ ~is_complete[Oa] /\ \A e \in RequiredInputs(Oa) : Available(e)
      /\ verdict[Oa] # "complete" /\ todo[Oa] = <<>>
  BY Adapters DEF PipeInv, SyncInv, BaseInv, CallsInv, OaBegin, Propagate, Step, Begin
<1>2. call[Oa] = None /\ DOMAIN call = {Ia, Oa}
  BY <1>1 DEF OaInv
<1>3. PICK e \in InputSet(Oa) :
        e = Inputs[Oa][1] /\ e \in Edges /\ Down(e) = Oa /\ e \in RequiredInputs(Oa) /\ InFreq[e] = 1
        /\ processed[e] \in Nat
  BY OaEdge
<1>4. PICK n \in Nat :
        /\ \A x \in InputSet(Oa) : /\ 1 \in 1..Len(q[x]) /\ q[x][1].stamp = n
                                   /\ Head(q[x]) = q[x][1] /\ Due(x) = n
        /\ check_required_input(Oa) = "none" => \E x \in InputSet(Oa) : q[x][1].type = "data"
        /\ check_required_input(Oa) = "complete" => \E x \in InputSet(Oa) : q[x][1].type = "complete"
  BY <1>1, AtTheTop
<1>5. OaSteps = n /\ processed[e] = n
  <2>1. ~Reads(todo[Oa], e)
    BY <1>1, NoCalls
  <2> QED BY <1>3, <1>4, <2>1 DEF OaSteps, Due
<1>6. \A x \in InputSet(Oa) : x \in Edges /\ Origin(q[x][1])
  BY <1>1, <1>4, InputPorts DEF OriginInv
<1>7. \A t, v : Starts(Oa, t, v) =>
         OaSteps' = n + (IF v = "none" THEN 1 ELSE 0) /\ verdict'[Oa] = v /\ check_required_input(Oa) = v
  <2> SUFFICES ASSUME NEW t, NEW v, Starts(Oa, t, v)
               PROVE  /\ OaSteps' = n + (IF v = "none" THEN 1 ELSE 0)
                      /\ verdict'[Oa] = v /\ check_required_input(Oa) = v
    OBVIOUS
  <2>1. /\ verdict' = [verdict EXCEPT ![Oa] = v] /\ check_required_input(Oa) = v /\ processed' = processed
        /\ todo' = [todo EXCEPT ![Oa] = Grabs(Oa) \o Pushes(Oa, t)] /\ t \in Types
    BY DEF Starts
  <2>2. verdict'[Oa] = v /\ todo'[Oa] = Grabs(Oa) \o Pushes(Oa, t)
    BY <1>1, <2>1 DEF TypeOK
  <2>3. Reads(Grabs(Oa) \o Pushes(Oa, t), e)
    BY <1>1, <1>3, <2>1, StartedPushes, TypedQueues
  <2>4. OaSteps' = processed'[e] + (IF verdict'[Oa] = "none" /\ Reads(todo'[Oa], e) THEN 1 ELSE 0)
    BY <1>3, DueLater DEF OaSteps
  <2> QED BY <1>5, <2>1, <2>2, <2>3, <2>4
<1>8. CASE Step(Oa) /\ call' = [call EXCEPT ![Oa] = [op |-> "offer", set |-> SetOf(Oa)]]
  <2>1. OaSteps' = n + 1 /\ verdict'[Oa] = "none" /\ check_required_input(Oa) = "none"
    BY <1>1, <1>7, <1>8, PlainStart
  <2>2. n < steps[Ia]
    BY <1>4, <1>6, <2>1 DEF Origin
  <2>3. fed[n + 1] = n + 1
    <3>1. /\ fed \in Seq(Items) /\ InQueue \in Seq(Items) /\ Len(fed) \in Nat /\ supply \in Nat /\ handed \in Nat
          /\ fed \o InQueue = [i \in 1..handed |-> Nth(i)]
          /\ steps[Ia] = IF Len(fed) <= supply THEN Len(fed) ELSE supply
      <4>1. fed \in Seq(Nat) /\ fed \in Seq(Items)
        BY SeqMonotonic DEF FeedInv, Items
      <4> QED BY <4>1, QueueItems, LenProperties, EmbeddedAssumption DEF FeedInv, InQueue
    <3>2. n + 1 \in 1..Len(fed) /\ n + 1 <= supply
      BY <2>2, <3>1
    <3>3. /\ Len(InQueue) \in Nat /\ Len(fed \o InQueue) = Len(fed) + Len(InQueue)
          /\ \A i \in 1..(Len(fed) + Len(InQueue)) :
               (fed \o InQueue)[i] = IF i <= Len(fed) THEN fed[i] ELSE InQueue[i - Len(fed)]
      BY <3>1, ConcatProperties, LenProperties
    <3>4. Len(fed \o InQueue) = handed
      BY <3>1
    <3>5. n + 1 \in 1..handed /\ n + 1 \in 1..(Len(fed) + Len(InQueue)) /\ n + 1 <= Len(fed)
      BY <3>1, <3>2, <3>3, <3>4
    <3>6. (fed \o InQueue)[n + 1] = fed[n + 1]
      BY <3>3, <3>5
    <3>7. (fed \o InQueue)[n + 1] = n + 1
      BY <3>1, <3>2, <3>5 DEF Nth
    <3> QED BY <3>6, <3>7
  <2>4. SetOf(Oa) = n + 1
    BY <1>3, <1>4, <2>3 DEF SetOf
  <2>5. call'[Oa] = [op |-> "offer", set |-> n + 1]
    BY <1>2, <1>8, <2>4
  <2> QED BY <1>1, <1>2, <1>5, <2>1, <2>2, <2>5
<1>9. CASE Propagate(Oa) /\ call' = [call EXCEPT ![Oa].op = "send"]
  <2>1. OaSteps' = n /\ verdict'[Oa] = "complete" /\ check_required_input(Oa) = "complete"
    <3>1. Starts(Oa, "complete", "complete")
      BY <1>1, <1>9, PlainStart
    <3>2. OaSteps' = n + (IF "complete" = "none" THEN 1 ELSE 0)
      BY <1>7, <3>1
    <3> QED BY <1>7, <3>1, <3>2
  <2>2. n = supply \/ Broke
    BY <1>4, <1>6, <2>1 DEF Origin
  <2>3. call'[Oa] = [op |-> "send", set |-> end_of_input]
    BY <1>2, <1>9 DEF None
  <2> QED BY <1>1, <1>2, <1>5, <2>1, <2>2, <2>3
<1> QED
  BY <1>8, <1>9 DEF OaBegin


LEMMA OutcomeItems ==
  ASSUME RingInv(AppThreads), OutInv
  PROVE  /\ OutQueue \in Seq(Items) /\ received \in Seq(Items) /\ Pending \in Seq(Items)
         /\ received \o OutQueue \in Seq(Items) /\ call[Oa].set \in Items
<1>1. call[Oa].set \in Items /\ received \in Seq(Items) /\ OutQueue \in Seq(Items)
  BY QueueItems DEF OutInv, Items
<1>2. <<call[Oa].set>> \in Seq(Items) /\ <<>> \in Seq(Items)
  BY <1>1, JoinsOfOne
<1> QED
  BY <1>1, <1>2, ConcatProperties DEF Pending

(* What the steps do to the outcome.                                       *)
LEMMA OutcomeNext ==
  ASSUME OneEachStep, RingInv(AppThreads), OaInv, OutInv, [EmbeddedNext]_embeddedVars,
         IaReceive => SetTaken, IaReceive \/ NoTransfer \/ SetSent \/ SetReceived \/ SetOffered
  PROVE  /\ received' \in Seq(Items)
         /\ \/ /\ OaBegin /\ (call[Oa] = None => \A m \in Items : call'[Oa].op # "none" /\ call'[Oa].set = m =>
                                                    Outcome' = Append(Outcome, m))
            \/ /\ Outcome' = Outcome /\ call'[Oa] \in [op : {"none", "offer", "send"}, set : Nat]
            \/ /\ ~wait_on_queue_full /\ call'[Oa] = None
               /\ Outcome' \in Seq(Items) /\ \E m \in Items : Outcome = Append(Outcome', m)
<1>1. /\ OutQueue \in Seq(Items) /\ received \in Seq(Items) /\ Pending \in Seq(Items)
      /\ received \o OutQueue \in Seq(Items) /\ call[Oa].set \in Items
      /\ call[Oa] \in [op : {"none", "offer", "send"}, set : Nat] /\ DOMAIN call = {Ia, Oa}
      /\ None \in [op : {"none", "offer", "send"}, set : Nat] /\ None.op = "none"
  BY OutcomeItems DEF OutInv, OaInv, None, end_of_input
<1>2. Outcome' = (received' \o OutQueue') \o Pending'
  BY DEF Outcome
<1>3. Pending' = IF call'[Oa].op = "none" THEN <<>> ELSE <<call'[Oa].set>>
  BY DEF Pending
<1>4. \A s \in Seq(Items) : s \o <<>> = s /\ \A m \in Items : Append(s, m) = s \o <<m>>
  BY ConcatEmptySeq, JoinsOfOne
<1>5. CASE OaBegin
  <2>1. OutQueue' = OutQueue /\ received' = received
    BY <1>5 DEF OaBegin, appVars, OutQueue, Contents
  <2>2. ASSUME call[Oa] = None, NEW m \in Items, call'[Oa].op # "none", call'[Oa].set = m
        PROVE  Outcome' = Append(Outcome, m)
    <3>1. Pending' = <<m>> /\ Pending = <<>>
      BY <1>1, <1>3, <2>2 DEF Pending
    <3>2. Outcome' = (received \o OutQueue) \o <<m>>
      BY <1>2, <2>1, <3>1
    <3>3. Outcome = received \o OutQueue
      BY <1>1, <1>4, <3>1 DEF Outcome
    <3> QED BY <1>1, <1>4, <3>2, <3>3
  <2> QED BY <1>1, <1>5, <2>1, <2>2
<1>6. ASSUME OutQueue' = OutQueue, received' = received, call'[Oa] = call[Oa]
      PROVE  received' \in Seq(Items) /\ Outcome' = Outcome
             /\ call'[Oa] \in [op : {"none", "offer", "send"}, set : Nat]
  BY <1>1, <1>2, <1>3, <1>6 DEF Outcome, Pending
<1>7. CASE IaReceive \/ SetSent
  BY <1>6, <1>7 DEF SetTaken, SetSent
<1>8. CASE SetReceived
  <2>1. /\ OutQueue # <<>> /\ OutQueue' = Tail(OutQueue) /\ received' = Append(received, OutQueue[1])
        /\ call'[Oa] = call[Oa]
    BY <1>8 DEF SetReceived
  <2>2. PICK a \in Seq(Items), b \in Seq(Items) : a = received /\ b = OutQueue
    BY <1>1
  <2>3. Append(a, b[1]) \in Seq(Items) /\ Append(a, b[1]) \o Tail(b) = a \o b
    BY <2>1, <2>2, PassedOn
  <2>4. received' \o OutQueue' = received \o OutQueue /\ received' \in Seq(Items)
    BY <2>1, <2>2, <2>3
  <2>5. Pending' = Pending
    BY <1>3, <2>1 DEF Pending
  <2>6. Outcome' = Outcome
    BY <1>2, <2>4, <2>5 DEF Outcome
  <2> QED BY <1>1, <2>1, <2>4, <2>6
<1>9. CASE SetOffered
  <2>1. /\ call[Oa].op = "send" /\ OutQueue' = Append(OutQueue, call[Oa].set) /\ call'[Oa] = None
        /\ received' = received
    BY <1>9 DEF SetOffered
  <2>2. PICK a \in Seq(Items), b \in Seq(Items), m \in Items : a = received /\ b = OutQueue /\ m = call[Oa].set
    BY <1>1
  <2>3. a \o Append(b, m) = Append(a \o b, m) /\ Append(a \o b, m) = (a \o b) \o <<m>>
    BY <1>1, <1>4, <2>2, PassedOn
  <2>4. Pending' = <<>> /\ Pending = <<m>>
    BY <1>1, <1>3, <2>1, <2>2 DEF Pending
  <2>5. Append(a \o b, m) \in Seq(Items)
    BY <1>1, <2>2, SomeLists
  <2>6. Outcome' = Append(a \o b, m) \o <<>>
    BY <1>2, <2>1, <2>2, <2>3, <2>4
  <2>7. Outcome' = Append(a \o b, m)
    BY <1>4, <2>5, <2>6
  <2>8. Outcome' = Outcome
    BY <2>2, <2>3, <2>4, <2>7 DEF Outcome
  <2> QED BY <1>1, <2>1, <2>8
<1>10. CASE OaOffer
  <2>1. /\ call[Oa].op = "offer" /\ OutQueue' = OutQueue /\ received' = received
        /\ call' = [call EXCEPT ![Oa] = IF wait_on_queue_full \/ ~Full("out")
                                        THEN [@ EXCEPT !.op = "send"] ELSE None]
    BY <1>10 DEF OaOffer, OaReady, appVars, OutQueue, Contents
  <2>2. CASE wait_on_queue_full \/ ~Full("out")
    <3>1. call'[Oa] = [call[Oa] EXCEPT !.op = "send"]
      BY <1>1, <2>1, <2>2
    <3>2. call'[Oa].op = "send" /\ call'[Oa].set = call[Oa].set
          /\ call'[Oa] \in [op : {"none", "offer", "send"}, set : Nat]
      BY <1>1, <3>1
    <3>3. Pending' = Pending
      BY <1>3, <2>1, <3>2 DEF Pending
    <3>4. Outcome' = Outcome
      BY <1>2, <2>1, <3>3 DEF Outcome
    <3> QED BY <1>1, <2>1, <3>2, <3>4
  <2>3. CASE ~(wait_on_queue_full \/ ~Full("out"))
    <3>1. call'[Oa] = None
      BY <1>1, <2>1, <2>3
    <3>2. PICK m \in Items : m = call[Oa].set
      BY <1>1
    <3>3. Pending' = <<>> /\ Pending = <<m>>
      BY <1>1, <1>3, <2>1, <3>1, <3>2 DEF Pending
    <3>4. Outcome' = received \o OutQueue
      BY <1>1, <1>2, <1>4, <2>1, <3>3
    <3>5. PICK a \in Seq(Items) : a = received \o OutQueue
      BY <1>1, <1>4
    <3>6. Outcome = a \o <<m>> /\ Outcome' = a
      BY <3>3, <3>4, <3>5 DEF Outcome
    <3>7. Outcome = Append(Outcome', m)
      BY <3>6, JoinsOfOne
    <3> QED BY <1>1, <2>1, <2>3, <3>1, <3>4, <3>7
  <2> QED BY <2>2, <2>3
<1>11. CASE NoTransfer /\ ~OaBegin /\ ~OaOffer
  BY <1>6, <1>11 DEF NoTransfer
<1> QED
  BY <1>5, <1>7, <1>8, <1>9, <1>10, <1>11 DEF NoTransfer

LEMMA OutNext ==
  ASSUME OneEachStep, PipeInv, PipeInv', RingInv(AppThreads), FeedInv, OriginInv, OaInv, OutInv,
         [EmbeddedNext]_embeddedVars,
         IaReceive => SetTaken, IaReceive \/ NoTransfer \/ SetSent \/ SetReceived \/ SetOffered
  PROVE  OutInv'
<1>1. /\ BaseInv /\ [AnyNext]_vars /\ supply' = supply /\ wait_on_queue_full' = wait_on_queue_full
      /\ steps[Ia] \in Nat /\ steps'[Ia] \in Nat /\ steps[Ia] <= steps'[Ia] /\ (Broke => Broke')
  <2>1. BaseInv /\ TypeOK /\ Ia \in Procs
    BY Adapters DEF PipeInv, BaseInv
  <2>2. steps[Ia] \in 0..MaxSteps /\ MaxSteps \in Nat
    BY <2>1, DataflowAssumption DEF TypeOK
  <2>3. [AnyNext]_vars
    BY EmbeddedSteps
  <2> QED BY <2>1, <2>2, <2>3, SupplyStays, OriginNext, BrokeStays
<1>2. /\ OaSteps \in Nat /\ OaSteps <= steps[Ia]
      /\ Orderly(Outcome, OaSteps, verdict[Oa] = "complete", wait_on_queue_full)
      /\ verdict[Oa] = "complete" => OaSteps = supply \/ Broke
      /\ call[Oa] \in [op : {"none", "offer", "send"}, set : Nat]
  BY OaEdge DEF OutInv
<1>3. received' \in Seq(Items)
  BY OutcomeNext
<1>4. SUFFICES /\ call'[Oa] \in [op : {"none", "offer", "send"}, set : Nat] /\ OaSteps' <= steps'[Ia]
               /\ Orderly(Outcome', OaSteps', verdict'[Oa] = "complete", wait_on_queue_full)
               /\ verdict'[Oa] = "complete" => OaSteps' = supply \/ Broke'
  <2>1. Orderly(Outcome, OaSteps, verdict[Oa] = "complete", wait_on_queue_full)'
          <=> Orderly(Outcome', OaSteps', verdict'[Oa] = "complete", wait_on_queue_full')
    BY DEF Orderly
  <2> QED BY <1>1, <1>3, <2>1 DEF OutInv
<1>5. CASE OaBegin
  <2>1. verdict[Oa] # "complete" /\ call[Oa] = None
    BY <1>5, OaBegins
  <2>2. \A m \in Items : call'[Oa].op # "none" /\ call'[Oa].set = m => Outcome' = Append(Outcome, m)
    <3>1. Outcome' = (received' \o OutQueue') \o Pending'
      BY DEF Outcome
    <3>2. OutQueue' = OutQueue /\ received' = received
      BY <1>5 DEF OaBegin, appVars, OutQueue, Contents
    <3>3. Pending = <<>> /\ Pending' = IF call'[Oa].op = "none" THEN <<>> ELSE <<call'[Oa].set>>
      BY <2>1 DEF Pending, None
    <3>4. PICK r \in Seq(Items) : r = received \o OutQueue
      BY OutcomeItems
    <3>5. Outcome = r
      BY <3>3, <3>4, ConcatEmptySeq DEF Outcome
    <3>6. \A m \in Items : Append(r, m) = r \o <<m>>
      BY JoinsOfOne
    <3> QED BY <3>1, <3>2, <3>3, <3>4, <3>5, <3>6
  <2>3. Orderly(Outcome, OaSteps, FALSE, wait_on_queue_full)
    BY <1>2, <2>1
  <2>4. PICK n \in Nat : n = OaSteps
    BY <1>2
  <2>5. /\ Orderly(Append(Outcome, n + 1), n + 1, FALSE, wait_on_queue_full)
        /\ Orderly(Append(Outcome, 0), n, TRUE, wait_on_queue_full)
    BY <2>3, <2>4, OrderlyNext
  <2>6. CASE /\ OaSteps' = OaSteps + 1 /\ OaSteps < steps[Ia] /\ verdict'[Oa] = "none"
             /\ call'[Oa] = [op |-> "offer", set |-> OaSteps + 1]
    <3>1. call'[Oa].op # "none" /\ call'[Oa].set = n + 1 /\ n + 1 \in Items /\ n + 1 \in Nat
      BY <2>4, <2>6 DEF Items
    <3>2. Outcome' = Append(Outcome, n + 1)
      BY <2>2, <3>1
    <3>3. (verdict'[Oa] = "complete") = FALSE
      BY <2>6
    <3>4. OaSteps' <= steps'[Ia]
      BY <1>1, <1>2, <2>6
    <3>5. OaSteps' = n + 1
      BY <2>4, <2>6
    <3>6. Orderly(Outcome', OaSteps', verdict'[Oa] = "complete", wait_on_queue_full)
      BY <2>5, <3>2, <3>3, <3>5
    <3>7. call'[Oa] \in [op : {"none", "offer", "send"}, set : Nat]
      BY <2>4, <2>6, <3>1
    <3> QED BY <2>6, <3>4, <3>6, <3>7
  <2>7. CASE /\ OaSteps' = OaSteps /\ verdict'[Oa] = "complete" /\ (OaSteps = supply \/ Broke)
             /\ call'[Oa] = [op |-> "send", set |-> end_of_input]
    <3>1. call'[Oa].op # "none" /\ call'[Oa].set = 0 /\ 0 \in Items
      BY <2>7 DEF Items, end_of_input
    <3>2. Outcome' = Append(Outcome, 0)
      BY <2>2, <3>1
    <3>3. (verdict'[Oa] = "complete") = TRUE
      BY <2>7
    <3>4. OaSteps' <= steps'[Ia]
      BY <1>1, <1>2, <2>7
    <3>5. Orderly(Outcome', OaSteps', verdict'[Oa] = "complete", wait_on_queue_full)
      BY <2>4, <2>5, <2>7, <3>2, <3>3
    <3>6. call'[Oa] \in [op : {"none", "offer", "send"}, set : Nat]
      BY <2>7 DEF end_of_input
    <3> QED BY <1>1, <2>7, <3>4, <3>5, <3>6
  <2> QED BY <1>5, <2>6, <2>7, OaBegins
<1>6. CASE ~OaBegin
  <2>1. OaSteps' = OaSteps /\ verdict'[Oa] = verdict[Oa]
    BY <1>6, OaStepsKept
  <2>2. OaSteps' <= steps'[Ia] /\ (verdict'[Oa] = "complete" => OaSteps' = supply \/ Broke')
    BY <1>1, <1>2, <2>1
  <2>3. CASE Outcome' = Outcome /\ call'[Oa] \in [op : {"none", "offer", "send"}, set : Nat]
    BY <1>2, <2>1, <2>2, <2>3
  <2>4. CASE /\ ~wait_on_queue_full /\ call'[Oa] = None
             /\ Outcome' \in Seq(Items) /\ \E m \in Items : Outcome = Append(Outcome', m)
    <3>1. PICK s \in Seq(Items), m \in Items : s = Outcome' /\ Outcome = Append(s, m)
      BY <2>4
    <3>2. PICK n \in Nat : n = OaSteps
      BY <1>2
    <3>3. PICK done \in BOOLEAN : done = (verdict[Oa] = "complete")
      OBVIOUS
    <3>4. Orderly(Append(s, m), n, done, FALSE)
      BY <1>2, <2>4, <3>1, <3>2, <3>3 DEF Orderly
    <3>5. Orderly(s, n, done, FALSE)
      BY <3>4, OrderlyLess
    <3>6. Orderly(Outcome', OaSteps', verdict'[Oa] = "complete", wait_on_queue_full)
      BY <2>1, <2>4, <3>1, <3>2, <3>3, <3>5 DEF Orderly
    <3>7. call'[Oa] \in [op : {"none", "offer", "send"}, set : Nat]
      BY <2>4 DEF None, end_of_input
    <3> QED BY <2>2, <3>6, <3>7
  <2> QED BY <1>6, <2>3, <2>4, OutcomeNext
<1> QED
  BY <1>5, <1>6


(* What has been received comes first in the outcome, and the call of the  *)
(* output adapter last.                                                    *)
LEMMA OutcomePlaces ==
  ASSUME RingInv(AppThreads), OutInv
  PROVE  /\ Len(received) \in Nat /\ Len(Outcome) \in Nat /\ Len(received) <= Len(Outcome)
         /\ \A i \in 1..Len(received) : i \in 1..Len(Outcome) /\ received[i] = Outcome[i]
         /\ call[Oa].op # "none" => Len(Outcome) \in 1..Len(Outcome) /\ Outcome[Len(Outcome)] = call[Oa].set
<1>1. PICK a \in Seq(Items), b \in Seq(Items), c \in Seq(Items) :
        a = received /\ b = OutQueue /\ c = Pending
  BY OutcomeItems
<1>2. PICK d \in Seq(Items) : d = a \o b
  BY ConcatProperties
<1>3. PICK s \in Seq(Items) : s = d \o c
  BY ConcatProperties
<1>4. /\ Len(a) \in Nat /\ Len(b) \in Nat /\ Len(c) \in Nat /\ Len(d) \in Nat /\ Len(s) \in Nat
      /\ Len(d) = Len(a) + Len(b) /\ Len(s) = Len(d) + Len(c)
  BY <1>2, <1>3, LenProperties, ConcatProperties
<1>5. /\ \A i \in 1..Len(a) : i \in 1..(Len(a) + Len(b)) /\ d[i] = a[i]
      /\ \A i \in 1..Len(d) : i \in 1..(Len(d) + Len(c)) /\ s[i] = d[i]
      /\ \A i \in (Len(d) + 1)..(Len(d) + Len(c)) : s[i] = c[i - Len(d)]
  <2>1. \A i \in 1..(Len(a) + Len(b)) : d[i] = IF i <= Len(a) THEN a[i] ELSE b[i - Len(a)]
    BY <1>2, ConcatProperties
  <2>2. \A i \in 1..(Len(d) + Len(c)) : s[i] = IF i <= Len(d) THEN d[i] ELSE c[i - Len(d)]
    BY <1>3, ConcatProperties
  <2> QED BY <1>4, <2>1, <2>2
<1>6. s = Outcome
  BY <1>1, <1>2, <1>3 DEF Outcome
<1>7. ASSUME call[Oa].op # "none" PROVE Len(s) \in 1..Len(s) /\ s[Len(s)] = call[Oa].set
  <2>1. PICK m \in Items : m = call[Oa].set
    BY OutcomeItems
  <2>2. c = <<m>> /\ Len(c) = 1 /\ c[1] = m
    BY <1>1, <1>7, <2>1 DEF Pending
  <2>3. Len(s) = Len(d) + 1 /\ Len(s) - Len(d) = 1
    BY <1>4, <2>2
  <2> QED BY <1>4, <1>5, <2>1, <2>2, <2>3
<1>8. Len(a) <= Len(s) /\ \A i \in 1..Len(a) : i \in 1..Len(s) /\ a[i] = s[i]
  BY <1>4, <1>5
<1>9. Len(a) \in Nat /\ Len(s) \in Nat
  BY <1>4
<1> QED
  BY <1>1, <1>6, <1>7, <1>8, <1>9

(* The output adapter is not ahead of the application.                     *)
LEMMA NotAhead ==
  ASSUME OneEachStep, PipeInv, RingInv(AppThreads), FeedInv, OutInv
  PROVE  OaSteps \in 0..handed /\ handed \in Nat /\ OaSteps \in 0..MaxSets
<1>1. /\ handed \in Nat /\ supply \in Nat /\ MaxSets \in Nat /\ supply <= MaxSets
      /\ fed \in Seq(Nat) /\ fed \o InQueue = [i \in 1..handed |-> Nth(i)]
  BY EmbeddedAssumption DEF FeedInv, InQueue
<1>2. fed \in Seq(Items) /\ InQueue \in Seq(Items) /\ Len(fed) \in Nat /\ Len(InQueue) \in Nat
  <2>1. fed \in Seq(Items)
    BY <1>1, SeqMonotonic DEF Items
  <2> QED BY <2>1, QueueItems, LenProperties
<1>3. Len(fed \o InQueue) = Len(fed) + Len(InQueue)
  BY <1>2, ConcatProperties
<1>4. Len([i \in 1..handed |-> Nth(i)]) = handed
  <2>1. [i \in 1..handed |-> Nth(i)] \in [1..handed -> Nat]
    BY <1>1 DEF Nth, end_of_input
  <2>2. [i \in 1..handed |-> Nth(i)] \in Seq(Nat)
    BY <1>1, <2>1, IsASeq
  <2> QED BY <1>1, <2>1, <2>2, LenProperties
<1>5. Len(fed) <= handed
  BY <1>1, <1>2, <1>3, <1>4
<1>6. OaSteps \in Nat /\ OaSteps <= steps[Ia] /\ steps[Ia] = IF Len(fed) <= supply THEN Len(fed) ELSE supply
  BY OaEdge DEF OutInv, FeedInv
<1> QED
  BY <1>1, <1>2, <1>5, <1>6

(* What the output adapter sends is an element of its queue.               *)
LEMMA SendsAnElement ==
  ASSUME OneEachStep, PipeInv, RingInv(AppThreads), FeedInv, OutInv
  PROVE  call[Oa].op = "send" => call[Oa].set \in Elements
<1> SUFFICES ASSUME call[Oa].op = "send" PROVE call[Oa].set \in Elements
  OBVIOUS
<1>1. Len(Outcome) \in 1..Len(Outcome) /\ Outcome[Len(Outcome)] = call[Oa].set
  BY OutcomePlaces
<1>2. call[Oa].set \in Nat /\ call[Oa].set <= OaSteps
  BY <1>1 DEF OutInv, Orderly
<1>3. OaSteps \in 0..MaxSets /\ MaxSets \in Nat /\ Elements = 0..MaxSets
  BY NotAhead, EmbeddedAssumption
<1> QED
  BY <1>2, <1>3

-----------------------------------------------------------------------------
(* The inductive invariant.                                                *)

Delivery ==
  /\ PipeInv /\ BuffersInv /\ OaInv /\ RingInv(AppThreads)
  /\ FeedInv /\ OriginInv /\ OutInv

LEMMA DeliveryInit ==
  ASSUME OneEachStep, EmbeddedInit PROVE Delivery
<1>1. PipeInv
  BY BaseInit, CompleteInit, SyncInvInit, CountInit DEF EmbeddedInit, Init, PipeInv
<1>2. BuffersInv /\ OaInv
  BY OaInit
<1>3. RingInv(AppThreads) /\ InQueue = <<>> /\ OutQueue = <<>>
  BY RingInit, EmbeddedAssumption DEF EmbeddedInit, InQueue, OutQueue
<1>4. /\ \A e \in Edges : q[e] = <<>> /\ processed[e] = 0
      /\ \A p \in Procs : todo[p] = <<>> /\ verdict[p] = "none" /\ steps[p] = 0
      /\ \A p \in Procs : \A i \in DOMAIN Outputs[p] : stamp[p][i] = 0
  BY DEF EmbeddedInit, Init, InitOf
<1>5. /\ handed = 0 /\ fed = <<>> /\ received = <<>> /\ supply \in 0..MaxSets /\ MaxSets \in Nat
      /\ call[Oa] = None /\ call[Oa].op = "none" /\ None = [op |-> "none", set |-> 0]
      /\ <<>> \in Seq(Nat) /\ <<>> \in Seq(Items) /\ Len(<<>>) = 0 /\ <<>> \o <<>> = <<>>
  BY EmptySeq, EmbeddedAssumption, ConcatEmptySeq, Adapters DEF EmbeddedInit, None, end_of_input
<1>6. OriginInv
  <2>1. \A e \in Edges : Up(e) \in Procs
    BY EdgeEnds
  <2>2. \A e \in Edges : 1..Len(q[e]) = {} /\ PushTo(e) = {}
    BY <1>4, <1>5, <2>1, NoCalls DEF PushTo
  <2> QED BY <2>2 DEF OriginInv
<1>7. FeedInv
  <2>1. [i \in 1..0 |-> Nth(i)] = <<>>
    OBVIOUS
  <2>2. fed \o Contents(buf["in"]) = [i \in 1..handed |-> Nth(i)]
    BY <1>3, <1>5, <2>1 DEF InQueue
  <2>3. steps[Ia] = 0 /\ \A i \in DOMAIN Outputs[Ia] : stamp[Ia][i] = 0
    BY <1>4, Adapters
  <2> QED BY <1>5, <2>2, <2>3 DEF FeedInv
<1>8. OutInv
  <2>1. OaSteps = 0
    <3>1. PICK e \in Edges : e = Inputs[Oa][1] /\ Down(e) = Oa
      BY <1>1, OaEdge
    <3>2. processed[e] = 0 /\ todo[Oa] = <<>> /\ ~Reads(<<>>, e)
      BY <1>4, NoCalls, Adapters
    <3>3. Due(e) = 0
      BY <3>1, <3>2 DEF Due
    <3> QED BY <3>1, <3>3 DEF OaSteps
  <2>2. Outcome = <<>>
    BY <1>3, <1>5 DEF Outcome, Pending
  <2>3. Orderly(<<>>, 0, FALSE, wait_on_queue_full)
    BY <1>5 DEF Orderly
  <2>4. verdict[Oa] # "complete" /\ steps[Ia] = 0
    BY <1>4, Adapters
  <2>5. Orderly(Outcome, OaSteps, verdict[Oa] = "complete", wait_on_queue_full)
    BY <2>1, <2>2, <2>3, <2>4
  <2> QED BY <1>5, <2>1, <2>4, <2>5 DEF OutInv
<1> QED
  BY <1>1, <1>2, <1>3, <1>6, <1>7, <1>8 DEF Delivery

LEMMA DeliveryNext ==
  ASSUME OneEachStep, Delivery, [EmbeddedNext]_embeddedVars PROVE Delivery'
<1>1. PipeInv'
  BY EmbeddedSteps, PipeNext DEF Delivery
<1>2. BuffersInv' /\ OaInv'
  BY OaStep DEF Delivery, PipeInv
<1>3. /\ RingInv(AppThreads)' /\ (IaReceive => SetTaken)
      /\ IaReceive \/ NoTransfer \/ SetSent \/ SetReceived \/ SetOffered
  <2>1. handed \in 0..(supply + 1) /\ supply \in 0..MaxSets /\ RingInv(AppThreads) /\ OaInv
    BY DEF Delivery, FeedInv
  <2>2. call[Oa].op = "send" => call[Oa].set \in Elements
    BY SendsAnElement DEF Delivery
  <2> QED BY <2>1, <2>2, Transfers
<1>4. OriginInv'
  BY <1>1, <1>3, OriginNext DEF Delivery
<1>5. FeedInv'
  BY <1>1, <1>3, FeedNext DEF Delivery
<1>6. OutInv'
  BY <1>1, <1>3, OutNext DEF Delivery
<1> QED
  BY <1>1, <1>2, <1>3, <1>4, <1>5, <1>6 DEF Delivery


(* The conclusion from the invariant.                                      *)
LEMMA InOrder ==
  ASSUME OneEachStep, Delivery PROVE DeliveredInOrder
<1>0. PipeInv /\ RingInv(AppThreads) /\ FeedInv /\ OutInv
  BY DEF Delivery
<1>1. PICK n \in Nat : n = OaSteps /\ n <= handed /\ handed \in Nat
  BY <1>0, NotAhead
<1>2. PICK s : s = Outcome
  OBVIOUS
<1>3. PICK r \in Seq(Items) : r = received
  BY <1>0 DEF OutInv
<1>4. /\ Len(r) \in Nat /\ Len(s) \in Nat /\ Len(r) <= Len(s)
      /\ \A i \in 1..Len(r) : i \in 1..Len(s) /\ r[i] = s[i]
  BY <1>0, <1>2, <1>3, OutcomePlaces
<1>5. /\ s \in Seq(Nat) /\ \A i \in 1..Len(s) : s[i] \in Nat /\ s[i] <= n
      /\ \A i \in 1..Len(s) : s[i] = 0 => i = Len(s) /\ verdict[Oa] = "complete"
      /\ \A i, j \in 1..Len(s) : i < j /\ s[j] # 0 => s[i] < s[j]
      /\ wait_on_queue_full =>
           /\ \A i \in 1..Len(s) : s[i] # 0 => s[i] = i
           /\ verdict[Oa] = "complete" => Len(s) = n + 1
  <2>1. Orderly(s, n, verdict[Oa] = "complete", wait_on_queue_full)
    BY <1>0, <1>1, <1>2 DEF OutInv
  <2>2. s \in Seq(Nat)
    BY <2>1 DEF Orderly
  <2>3. \A i \in 1..Len(s) : s[i] \in Nat
    BY <2>2, SomeLists
  <2> QED BY <2>1, <2>2, <2>3 DEF Orderly
<1>6. m_at_end => Len(r) >= 1 /\ Len(r) = Len(s) /\ verdict[Oa] = "complete"
  <2> SUFFICES ASSUME m_at_end PROVE Len(r) >= 1 /\ Len(r) = Len(s) /\ verdict[Oa] = "complete"
    OBVIOUS
  <2>1. r # <<>> /\ r[Len(r)] = 0
    BY <1>3 DEF m_at_end, end_of_input
  <2>2. Len(r) \in Nat \ {0}
    BY <2>1, EmptySeq
  <2>3. Len(r) \in 1..Len(r)
    BY <2>2
  <2> QED BY <1>4, <1>5, <2>1, <2>2, <2>3
<1>7. PICK k \in Nat : /\ DOMAIN Sets = 1..k /\ Len(Sets) = k /\ k <= Len(r)
                       /\ \A i \in 1..k : Sets[i] = r[i] /\ r[i] # 0
                       /\ m_at_end => Len(r) = k + 1
  <2>1. CASE m_at_end
    <3>1. PICK k \in Nat : k = Len(r) - 1
      BY <1>4, <1>6, <2>1
    <3>2. Sets = SubSeq(r, 1, k)
      BY <1>3, <2>1, <3>1 DEF Sets
    <3>3. \A i \in 1..k : i \in 1..Len(r) /\ i # Len(r) /\ r[i] \in Items
      BY <1>4, <3>1, SomeLists
    <3>4. /\ SubSeq(r, 1, k) \in Seq(Items)
          /\ Len(SubSeq(r, 1, k)) = IF 1 <= k THEN k - 1 + 1 ELSE 0
          /\ \A i \in 1..(k - 1 + 1) : SubSeq(r, 1, k)[i] = r[1 + i - 1]
      BY <3>3, SubSeqProperties
    <3>5. Sets \in Seq(Items) /\ Len(Sets) = k /\ \A i \in 1..k : Sets[i] = r[i]
      BY <3>2, <3>4
    <3>6. DOMAIN Sets = 1..k
      BY <3>5, LenProperties
    <3>7. \A i \in 1..k : r[i] # 0
      BY <1>4, <1>5, <1>6, <2>1, <3>3
    <3> QED BY <1>4, <3>1, <3>5, <3>6, <3>7
  <2>2. CASE ~m_at_end
    <3>1. Sets = r /\ DOMAIN r = 1..Len(r)
      BY <1>3, <2>2, LenProperties DEF Sets
    <3>2. ASSUME NEW i \in 1..Len(r), r[i] = 0 PROVE FALSE
      <4>1. i = Len(s) /\ i = Len(r) /\ r # <<>>
        BY <1>4, <1>5, <3>2, EmptySeq
      <4>2. r[Len(r)] = 0
        BY <3>2, <4>1
      <4>3. received # <<>> /\ received[Len(received)] = 0
        BY <1>3, <4>1, <4>2
      <4> QED BY <2>2, <4>3 DEF m_at_end, end_of_input
    <3>3. PICK k \in Nat : k = Len(r)
      BY <1>4
    <3>4. /\ DOMAIN Sets = 1..k /\ Len(Sets) = k /\ k <= Len(r)
          /\ \A i \in 1..k : Sets[i] = r[i] /\ r[i] # 0
      BY <3>1, <3>2, <3>3
    <3> QED BY <2>2, <3>4
  <2> QED BY <2>1, <2>2
<1>8. \A i \in 1..k : i \in 1..Len(s) /\ Sets[i] = s[i] /\ s[i] \in Nat /\ s[i] # 0 /\ s[i] <= n
  <2>1. \A i \in 1..k : i \in 1..Len(r)
    BY <1>4, <1>7
  <2> QED BY <1>4, <1>5, <1>7, <2>1
<1>9. \A i, j \in DOMAIN Sets : i < j => Sets[i] < Sets[j]
  BY <1>5, <1>7, <1>8
<1>10. \A i \in DOMAIN Sets : Sets[i] \in 1..handed
  BY <1>1, <1>7, <1>8
<1>11. ASSUME wait_on_queue_full
       PROVE  /\ \A i \in DOMAIN Sets : Sets[i] = i
              /\ m_at_end /\ RanToItsEnd => Len(Sets) = supply
  <2>1. \A i \in DOMAIN Sets : Sets[i] = i
    BY <1>5, <1>7, <1>8, <1>11
  <2>2. ASSUME m_at_end, RanToItsEnd PROVE Len(Sets) = supply
    <3>1. verdict[Oa] = "complete" /\ Len(r) = Len(s) /\ Len(s) = n + 1 /\ Len(r) = k + 1
      BY <1>5, <1>6, <1>7, <1>11, <2>2
    <3>2. n = supply
      BY <1>0, <1>1, <2>2, <3>1 DEF OutInv, RanToItsEnd, Broke
    <3> QED BY <1>7, <3>1, <3>2
  <2> QED BY <2>1, <2>2
<1> QED
  BY <1>9, <1>10, <1>11 DEF DeliveredInOrder

(* Where each step of a process takes a datum from each input and gives    *)
(* one to each output, the application receives the data sets in the order *)
(* in which it sent them, each at most once and the end after them; none   *)
(* is missing between two if the output adapter waits for its queue, and   *)
(* none at all if no process has ended by itself: for any such pipeline,   *)
(* queues of any size, and whenever stop is called (embedded_pipeline::    *)
(* send and receive, and _step of the two adapters).                       *)
THEOREM OrderKept ==
  ASSUME OneEachStep PROVE EmbeddedSpec => []DeliveredInOrder
<1>1. EmbeddedInit => Delivery
  BY DeliveryInit
<1>2. Delivery /\ [EmbeddedNext]_embeddedVars => Delivery'
  BY DeliveryNext
<1>3. Delivery => DeliveredInOrder
  BY InOrder
<1> QED
  BY <1>1, <1>2, <1>3, PTL DEF EmbeddedSpec


(* For its queues each step of the application and the adapters is a call  *)
(* of a thread, or nothing.                                                *)
LEMMA BufferSteps ==
  ASSUME Delivery, OneEachStep, [EmbeddedNext]_embeddedVars PROVE [BufferNext(AppThreads)]_buf
<1>1. /\ "in" \in Queues /\ "out" \in Queues /\ Elements = 0..MaxSets /\ MaxSets \in Nat
      /\ "sender" \in AppThreads /\ "receiver" \in AppThreads /\ Ia \in AppThreads /\ Oa \in AppThreads
  BY EmbeddedAssumption DEF AppThreads
<1>2. handed \in Nat /\ supply \in Nat /\ supply <= MaxSets
  BY <1>1 DEF Delivery, FeedInv
<1>3. CASE AppSend
  <2>1. (IF handed < supply THEN handed + 1 ELSE end_of_input) \in Elements
    BY <1>1, <1>2 DEF end_of_input
  <2>2. PICK m \in Elements : m = IF handed < supply THEN handed + 1 ELSE end_of_input
    BY <2>1
  <2>3. SendWait("sender", "in") \/ Send("sender", "in", m)
    BY <1>3, <2>2 DEF AppSend
  <2> QED BY <1>1, <2>3 DEF BufferNext
<1>4. CASE AppReceive
  <2>1. ReceiveWait("receiver", "out") \/ Receive("receiver", "out")
    BY <1>4 DEF AppReceive
  <2> QED BY <1>1, <2>1 DEF BufferNext
<1>5. CASE IaWait \/ IaReceive
  <2>1. ReceiveWait(Ia, "in") \/ Receive(Ia, "in")
    BY <1>5 DEF IaWait, IaReceive
  <2> QED BY <1>1, <2>1 DEF BufferNext
<1>6. CASE OaWait
  <2>1. SendWait(Oa, "out")
    BY <1>6 DEF OaWait
  <2> QED BY <1>1, <2>1 DEF BufferNext
<1>7. CASE OaSend
  <2>1. call[Oa].op = "send" /\ Send(Oa, "out", call[Oa].set)
    BY <1>7 DEF OaSend, OaReady
  <2>2. call[Oa].set \in Elements
    BY <2>1, SendsAnElement DEF Delivery
  <2>3. PICK m \in Elements : m = call[Oa].set
    BY <2>2
  <2>4. Send(Oa, "out", m)
    BY <2>1, <2>3
  <2> QED BY <1>1, <2>4 DEF BufferNext
<1>8. CASE UNCHANGED embeddedVars \/ Stop \/ IaBegin \/ OaBegin \/ OaOffer \/ AdapterStep
  BY <1>8 DEF embeddedVars, Stop, IaBegin, OaBegin, OaOffer, AdapterStep
<1>9. CASE \E p \in Others : OtherStep(p)
  BY <1>9 DEF OtherStep
<1>10. CASE \E p \in Procs : Interrupted(p)
  BY <1>10 DEF Interrupted
<1> QED
  BY <1>3, <1>4, <1>5, <1>6, <1>7, <1>8, <1>9, <1>10, Adapters
  DEF EmbeddedNext, IaNext, OaNext, Others

(* The two interface queues of such a pipeline are FIFOs, as the           *)
(* application and the adapters use them (bounded_buffer.h,                *)
(* adapter_base.h).                                                        *)
THEOREM QueuesAreFifos ==
  ASSUME OneEachStep PROVE EmbeddedSpec => ImplementsFifo
<1>1. EmbeddedInit => Delivery /\ Fifo!Init
  BY DeliveryInit, RingInit DEF EmbeddedInit, Fifo!Init
<1>2. Delivery /\ [EmbeddedNext]_embeddedVars
        => Delivery' /\ [Fifo!Next]_([k \in Queues |-> Contents(buf[k])])
  BY DeliveryNext, BufferSteps, RingStep DEF Delivery
<1> QED
  BY <1>1, <1>2, PTL DEF EmbeddedSpec, ImplementsFifo, Fifo!Spec
=============================================================================
