-------------------------------- MODULE Edge --------------------------------
(***************************************************************************)
(* sprokit::edge (sprokit/pipeline/edge.cxx): the bounded queue between an *)
(* output port and an input port, used by exactly two threads: the         *)
(* upstream process pushes, the downstream process peeks, pops and finally *)
(* marks the edge as complete.                                             *)
(*                                                                         *)
(* A step is the code between two points where another thread can get in:  *)
(* one critical section of `mutex' or of `complete_mutex', or one notify.  *)
(* A thread blocked on a condition variable has pc "waiting"; notify_one   *)
(* and spurious wakeups move it to "enter", where it tests its predicate.  *)
(***************************************************************************)
EXTENDS Naturals, Sequences

CONSTANTS
  Capacity,     \* edge::priv::capacity; 0 means unbounded
  Blocking,     \* edge::priv::blocking
  MaxPushes,    \* bound: calls the upstream process makes
  MaxPeeks      \* the data a step of the downstream process looks at

ASSUME EdgeAssumption ==
  /\ Capacity \in Nat
  /\ Blocking \in BOOLEAN
  /\ MaxPushes \in Nat
  /\ MaxPeeks \in Nat
  /\ Capacity > 0 => MaxPeeks <= Capacity

VARIABLES
  q,                     \* edge::priv::q
  downstream_complete,   \* edge::priv::downstream_complete
  up,                    \* the upstream thread: pc, its call, its datum, has it a time limit
  down,                  \* the downstream thread: pc, its call, the index it needs
  calls,                 \* pushes called so far; numbers the data
  accepted,              \* history: every datum stored in q, in order
  delivered,             \* history: every datum popped, in order
  dropped,               \* history: data whose push_datum gave up on a full edge
  refused,               \* history: data whose try_push_datum returned false
  ignored,               \* history: data pushed on an edge already complete
  peeked                 \* history: data looked at since the last pop

edgeVars == <<q, downstream_complete>>
history  == <<accepted, delivered, dropped, refused, ignored, peeked>>
vars     == <<edgeVars, up, down, calls, history>>

(* A packet is its number and what matters of its type: push_datum may     *)
(* lose only datum::data, every other type is control.                     *)
Kinds  == {"data", "control"}
Packet == [n : 1..MaxPushes, kind : Kinds]
NoPacket == [n |-> 0, kind |-> "none"]

(* Operators named <definition>_<mistake> are plausible mistakes in the    *)
(* code, against which the properties are tried; no specification uses     *)
(* them.                                                                   *)

full_of_data_OffByOne == Capacity # 0 /\ Capacity < Len(q)

full_of_data == Capacity # 0 /\ Capacity <= Len(q)

(* A thread outside of the edge.                                           *)
IdleUp   == [pc |-> "idle", call |-> "none", datum |-> NoPacket, limit |-> "none"]
IdleDown == [pc |-> "idle", call |-> "none", idx |-> 0, limit |-> "none"]

Woken(t) == IF t.pc = "waiting" THEN [t EXCEPT !.pc = "enter"] ELSE t

Init ==
  /\ q = <<>>
  /\ downstream_complete = FALSE
  /\ up = IdleUp
  /\ down = IdleDown
  /\ calls = 0
  /\ accepted = <<>> /\ delivered = <<>> /\ peeked = <<>>
  /\ dropped = {} /\ refused = {} /\ ignored = {}

-----------------------------------------------------------------------------
(* The upstream process.                                                   *)

(* priv::push, first critical section: an edge that is complete swallows   *)
(* the datum, otherwise the push goes on, having released complete_mutex.  *)
Push(c, k, limit) ==
  LET d == [n |-> calls + 1, kind |-> k]
  IN /\ up.pc = "idle" /\ calls < MaxPushes
     /\ calls' = calls + 1
     /\ \/ /\ downstream_complete
           /\ ignored' = ignored \cup {d}
           /\ UNCHANGED up
        \/ /\ ~downstream_complete
           /\ up' = [pc |-> "enter", call |-> c, datum |-> d, limit |-> limit]
           /\ UNCHANGED ignored
     /\ UNCHANGED <<edgeVars, down, accepted, delivered, dropped, refused, peeked>>

PushDatum_ControlTimed ==
  \E k \in Kinds : Push("push", k, IF ~Blocking THEN "running" ELSE "none")

(* push_datum: data on a non-blocking edge have a time limit of zero.      *)
PushDatum ==
  \E k \in Kinds : Push("push", k, IF ~Blocking /\ k = "data" THEN "running" ELSE "none")

(* try_push_datum: any packet, a control message too, has the time limit   *)
(* of the caller.                                                          *)
TryPushDatum == \E k \in Kinds : Push("try", k, "running")

Store_ControlFirst ==
  /\ up.pc = "enter" /\ ~full_of_data
  /\ q' = IF up.datum.kind = "control" THEN <<up.datum>> \o q ELSE Append(q, up.datum)
  /\ accepted' = Append(accepted, up.datum)
  /\ up' = [up EXCEPT !.pc = "notify"]
  /\ UNCHANGED <<downstream_complete, down, calls, delivered, dropped, refused, ignored, peeked>>

(* priv::push, second critical section, there is space.                    *)
Store ==
  /\ up.pc = "enter" /\ ~full_of_data
  /\ q' = Append(q, up.datum)
  /\ accepted' = Append(accepted, up.datum)
  /\ up' = [up EXCEPT !.pc = "notify"]
  /\ UNCHANGED <<downstream_complete, down, calls, delivered, dropped, refused, ignored, peeked>>

WaitForSpace ==
  /\ up.pc = "enter" /\ full_of_data /\ up.limit # "over"
  /\ up' = [up EXCEPT !.pc = "waiting"]
  /\ UNCHANGED <<edgeVars, down, calls, history>>

(* wait_for returns false: the time is over and the edge is still full.    *)
(* try_push_datum passes that on, push_datum returns nothing.              *)
GiveUpPush ==
  /\ up.pc = "enter" /\ full_of_data /\ up.limit = "over"
  /\ \/ up.call = "push" /\ dropped' = dropped \cup {up.datum} /\ UNCHANGED refused
     \/ up.call = "try"  /\ refused' = refused \cup {up.datum} /\ UNCHANGED dropped
  /\ up' = IdleUp
  /\ UNCHANGED <<edgeVars, down, calls, accepted, delivered, ignored, peeked>>

PushTimeout ==
  /\ up.pc = "waiting" /\ up.limit = "running"
  /\ up' = [up EXCEPT !.pc = "enter", !.limit = "over"]
  /\ UNCHANGED <<edgeVars, down, calls, history>>

PushSpuriousWake ==
  /\ up.pc = "waiting"
  /\ up' = Woken(up)
  /\ UNCHANGED <<edgeVars, down, calls, history>>

NotifyData_Missing ==
  /\ up.pc = "notify" /\ up' = IdleUp
  /\ UNCHANGED <<edgeVars, down, calls, history>>

(* cond_have_data.notify_one, with no lock held.                           *)
NotifyData ==
  /\ up.pc = "notify"
  /\ up' = IdleUp
  /\ down' = Woken(down)
  /\ UNCHANGED <<edgeVars, calls, history>>

-----------------------------------------------------------------------------
(* The downstream process.  A step of it looks at the first MaxPeeks data, *)
(* at one index after the other, and then takes them one by one            *)
(* (check_required_input and grab_from_input_edges in process.cxx).        *)

(* complete_check: a call on a complete edge throws and has no effect on   *)
(* the edge; the callers of process.cxx make none (see Process.tla).       *)
Call(c, i, limit) ==
  /\ down.pc = "idle" /\ ~downstream_complete
  /\ down' = [pc |-> "enter", call |-> c, idx |-> i, limit |-> limit]
  /\ UNCHANGED <<edgeVars, up, calls, history>>

PeekDatum_OneTooFar == Len(peeked) <= MaxPeeks /\ Call("peek", Len(peeked), "none")

GetDatum    == Call("get", 0, "none")
TryGetDatum == Call("get", 0, "running")
PeekDatum   == Len(peeked) < MaxPeeks /\ Call("peek", Len(peeked), "none")

Pop ==
  /\ down.pc = "enter" /\ down.call = "get" /\ q # <<>>
  /\ q' = Tail(q)
  /\ delivered' = Append(delivered, Head(q))
  /\ peeked' = IF peeked = <<>> THEN <<>> ELSE Tail(peeked)
  /\ down' = [down EXCEPT !.pc = "notify"]
  /\ UNCHANGED <<downstream_complete, up, calls, accepted, dropped, refused, ignored>>

Peek ==
  /\ down.pc = "enter" /\ down.call = "peek" /\ Len(q) > down.idx
  /\ peeked' = Append(peeked, q[down.idx + 1])
  /\ down' = IdleDown
  /\ UNCHANGED <<edgeVars, up, calls, accepted, delivered, dropped, refused, ignored>>

WaitForData ==
  /\ down.pc = "enter" /\ Len(q) <= down.idx /\ down.limit # "over"
  /\ down' = [down EXCEPT !.pc = "waiting"]
  /\ UNCHANGED <<edgeVars, up, calls, history>>

GiveUpGet ==
  /\ down.pc = "enter" /\ q = <<>> /\ down.limit = "over"
  /\ down' = IdleDown
  /\ UNCHANGED <<edgeVars, up, calls, history>>

GetTimeout ==
  /\ down.pc = "waiting" /\ down.limit = "running"
  /\ down' = [down EXCEPT !.pc = "enter", !.limit = "over"]
  /\ UNCHANGED <<edgeVars, up, calls, history>>

GetSpuriousWake ==
  /\ down.pc = "waiting"
  /\ down' = Woken(down)
  /\ UNCHANGED <<edgeVars, up, calls, history>>

NotifySpace_Missing ==
  /\ down.pc = "notify" /\ down' = IdleDown
  /\ UNCHANGED <<edgeVars, up, calls, history>>

(* cond_have_space.notify_one, with no lock held.                          *)
NotifySpace ==
  /\ down.pc = "notify"
  /\ down' = IdleDown
  /\ up' = Woken(up)
  /\ UNCHANGED <<edgeVars, calls, history>>

MarkDownstreamAsComplete_NoFlush ==
  /\ down.pc = "idle"
  /\ downstream_complete' = TRUE
  /\ up' = Woken(up)
  /\ UNCHANGED <<q, down, calls, history>>

MarkDownstreamAsComplete_NoNotify ==
  /\ down.pc = "idle"
  /\ downstream_complete' = TRUE
  /\ q' = <<>> /\ peeked' = <<>>
  /\ UNCHANGED <<up, down, calls, accepted, delivered, dropped, refused, ignored>>

(* mark_downstream_as_complete: both locks are held throughout, so the     *)
(* flag, the flush and the notification are one step.                      *)
MarkDownstreamAsComplete ==
  /\ down.pc = "idle"
  /\ downstream_complete' = TRUE
  /\ q' = <<>>
  /\ peeked' = <<>>
  /\ up' = Woken(up)
  /\ UNCHANGED <<down, calls, accepted, delivered, dropped, refused, ignored>>

-----------------------------------------------------------------------------
Upstream ==
  \/ PushDatum \/ TryPushDatum
  \/ Store \/ WaitForSpace \/ GiveUpPush \/ PushTimeout \/ NotifyData

Downstream ==
  \/ GetDatum \/ TryGetDatum \/ PeekDatum
  \/ Pop \/ Peek \/ WaitForData \/ GiveUpGet \/ GetTimeout \/ NotifySpace
  \/ MarkDownstreamAsComplete

Next == Upstream \/ Downstream \/ PushSpuriousWake \/ GetSpuriousWake

Spec == Init /\ [][Next]_vars

(* Both threads keep running, and the downstream process keeps asking for  *)
(* data until it marks the edge as complete, as the loop of a scheduler    *)
(* over process::step does.  Nothing makes a spurious wakeup happen.       *)
FairSpec == Spec /\ WF_vars(Upstream) /\ WF_vars(Downstream)

-----------------------------------------------------------------------------
(* The types of the queue, of the threads' program counters and calls, and *)
(* of the histories; a thread peeks within its step's data.                *)
TypeOK ==
  /\ q \in Seq(Packet) /\ accepted \in Seq(Packet)
  /\ delivered \in Seq(Packet) /\ peeked \in Seq(Packet)
  /\ downstream_complete \in BOOLEAN
  /\ up \in [pc : {"idle", "enter", "waiting", "notify"},
             call : {"none", "push", "try"}, datum : Packet \cup {NoPacket},
             limit : {"none", "running", "over"}]
  /\ down \in [pc : {"idle", "enter", "waiting", "notify"},
               call : {"none", "get", "peek"}, idx : 0..MaxPeeks,
               limit : {"none", "running", "over"}]
  /\ down.call = "peek" => down.idx < MaxPeeks
  /\ calls \in 0..MaxPushes
  /\ dropped \in SUBSET Packet /\ refused \in SUBSET Packet /\ ignored \in SUBSET Packet

(* The pc of a thread that is between the two critical sections of a call. *)
Inside(t) == t.pc \in {"enter", "waiting"}

(* A bounded edge never holds more data than its capacity, although the    *)
(* test for space and the store are separated by waits and wakeups.        *)
CapacityBound == Capacity # 0 => Len(q) <= Capacity

(* Data leave the edge in the order in which they were stored, and until   *)
(* the downstream process marks the edge as complete none is lost or       *)
(* duplicated; afterwards the data delivered are still a prefix.           *)
InOrderDelivery ==
  /\ Len(delivered) <= Len(accepted)
  /\ \A i \in 1..Len(delivered) : delivered[i] = accepted[i]
  /\ ~downstream_complete => /\ Len(accepted) = Len(delivered) + Len(q)
                             /\ \A i \in 1..Len(q) : q[i] = accepted[Len(delivered) + i]

(* "We can lose data but not control messages" (push_datum): each packet   *)
(* whose push has returned was stored, unless the edge was complete or the *)
(* push gave up on a full edge; what push_datum gives up, without a word   *)
(* to its caller, is data.  try_push_datum may give up any packet, and     *)
(* then it tells its caller.                                               *)
NoControlLost ==
  /\ \A i \in 1..calls :
       \/ Inside(up) /\ up.datum.n = i
       \/ \E j \in DOMAIN accepted : accepted[j].n = i
       \/ \E d \in dropped \cup refused \cup ignored : d.n = i
  /\ \A d \in dropped : d.kind = "data"
  /\ ignored # {} => downstream_complete

(* What the downstream process looked at is what it then takes: a peek at  *)
(* index i shows the datum that the (i+1)st pop from now returns.          *)
PeekedIsNext ==
  /\ Len(peeked) <= Len(q)
  /\ \A i \in 1..Len(peeked) : peeked[i] = q[i]

(* An edge that is complete holds at most one datum: that of the push      *)
(* which had tested the flag before the edge was marked.                   *)
AtMostOneLateDatum ==
  downstream_complete => Len(q) <= (IF Inside(up) THEN 0 ELSE 1)

(* No wakeup is lost: a push waiting for space that is there, or a call    *)
(* waiting for data that are there, is about to be notified.               *)
NoLostWakeup ==
  /\ up.pc = "waiting" /\ ~full_of_data => down.pc = "notify"
  /\ down.pc = "waiting" /\ Len(q) > down.idx => up.pc = "notify"

(* The edge is a bounded channel: EdgeSpec with the locks, the waits and   *)
(* the notifications hidden.                                               *)
Abstract == INSTANCE EdgeSpec WITH
  Items   <- Packet,
  None    <- NoPacket,
  closed  <- downstream_complete,
  offered <- IF Inside(up) THEN up.datum ELSE NoPacket,
  wanted  <- IF Inside(down) THEN down.idx + 1 ELSE 0,
  got     <- delivered

AbstractSpec == Abstract!Spec
=============================================================================
