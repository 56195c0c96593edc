----------------------------- MODULE EdgeProofs -----------------------------
(***************************************************************************)
(* Proofs about Edge, for every capacity, both kinds of edge, every number *)
(* of calls and of peeks: an inductive invariant that implies each safety  *)
(* invariant of Edge, and the safety part of its refinement of EdgeSpec.   *)
(***************************************************************************)
EXTENDS Edge, SequenceTheorems, TLAPS

(* What the threads are in the middle of: this is what makes the safety    *)
(* invariants inductive.  A pushed datum bears the number of the latest    *)
(* call, a call of the downstream thread is only under way on an edge that *)
(* is not complete, and its index is that of the next datum to look at.    *)
ThreadInv ==
  /\ up.pc = "idle" => up = IdleUp
  /\ up.pc # "idle" => up.datum \in Packet /\ up.datum.n = calls
  /\ up.pc # "idle" => up.call # "none"
  /\ up.call = "push" /\ up.limit # "none" => up.datum.kind = "data"
  /\ down.pc = "idle" => down = IdleDown
  /\ down.pc # "idle" => ~downstream_complete /\ down.call # "none"
  /\ down.call = "get" => down.idx = 0
  /\ down.limit # "none" => down.call = "get"
  /\ down.call = "peek" => down.idx = Len(peeked)
  /\ down.pc = "notify" => down.call = "get"
  /\ Len(peeked) <= MaxPeeks

EdgeInv ==
  /\ TypeOK /\ ThreadInv
  /\ CapacityBound /\ InOrderDelivery /\ NoControlLost
  /\ PeekedIsNext /\ AtMostOneLateDatum /\ NoLostWakeup

(* The steps that change neither the queue nor the histories: they only    *)
(* move a thread from one program counter to another.                      *)
ThreadStep ==
  \/ WaitForSpace \/ PushTimeout \/ PushSpuriousWake \/ NotifyData
  \/ GetDatum \/ TryGetDatum \/ PeekDatum
  \/ WaitForData \/ GiveUpGet \/ GetTimeout \/ GetSpuriousWake \/ NotifySpace

LEMMA NextCases ==
  Next <=> \/ ThreadStep
           \/ PushDatum \/ TryPushDatum \/ Store \/ GiveUpPush
           \/ Pop \/ Peek \/ MarkDownstreamAsComplete
BY DEF Next, Upstream, Downstream, ThreadStep

LEMMA ThreadStepFrame == ThreadStep => UNCHANGED <<edgeVars, calls, history>>
BY DEF ThreadStep, WaitForSpace, PushTimeout, PushSpuriousWake, NotifyData,
       GetDatum, TryGetDatum, PeekDatum, Call, WaitForData, GiveUpGet,
       GetTimeout, GetSpuriousWake, NotifySpace

LEMMA ThreadStepUp ==
  ASSUME TypeOK, ThreadStep, Inside(up)
  PROVE  Inside(up') /\ up'.datum = up.datum
<1> USE DEF TypeOK, Inside, Woken
<1>1. CASE WaitForSpace \/ PushTimeout \/ PushSpuriousWake
  BY <1>1 DEF WaitForSpace, PushTimeout, PushSpuriousWake
<1>2. CASE NotifyData
  BY <1>2 DEF NotifyData
<1>3. CASE NotifySpace
  BY <1>3 DEF NotifySpace
<1>4. CASE \/ GetDatum \/ TryGetDatum \/ PeekDatum
           \/ WaitForData \/ GiveUpGet \/ GetTimeout \/ GetSpuriousWake
  BY <1>4 DEF GetDatum, TryGetDatum, PeekDatum, Call, WaitForData, GiveUpGet,
       GetTimeout, GetSpuriousWake
<1> QED
  BY <1>1, <1>2, <1>3, <1>4 DEF ThreadStep

LEMMA InitInv == Init => EdgeInv
<1> SUFFICES ASSUME Init PROVE EdgeInv
  OBVIOUS
<1> USE EdgeAssumption DEF Init, IdleUp, IdleDown
<1>1. TypeOK
  <2>1. << >> \in Seq(Packet)
    BY EmptySeq
  <2>2. q \in Seq(Packet) /\ accepted \in Seq(Packet) /\ delivered \in Seq(Packet) /\ peeked \in Seq(Packet)
    BY <2>1
  <2>3. downstream_complete \in BOOLEAN /\ dropped \in SUBSET Packet /\ refused \in SUBSET Packet /\ ignored \in SUBSET Packet
    OBVIOUS
  <2>4. /\ up \in [pc : {"idle", "enter", "waiting", "notify"},
                  call : {"none", "push", "try"}, datum : Packet \cup {NoPacket},
                  limit : {"none", "running", "over"}]
        /\ down \in [pc : {"idle", "enter", "waiting", "notify"},
                    call : {"none", "get", "peek"}, idx : 0..MaxPeeks,
                    limit : {"none", "running", "over"}]
        /\ down.call # "peek" /\ calls \in 0..MaxPushes
    OBVIOUS
  <2> QED
    BY <2>2, <2>3, <2>4 DEF TypeOK
<1>2. ThreadInv /\ CapacityBound /\ NoControlLost /\ PeekedIsNext
  BY DEF ThreadInv, CapacityBound, NoControlLost, PeekedIsNext
<1>3. InOrderDelivery /\ AtMostOneLateDatum /\ NoLostWakeup
  BY EmptySeq DEF InOrderDelivery, AtMostOneLateDatum, NoLostWakeup
<1> QED
  BY <1>1, <1>2, <1>3 DEF EdgeInv

LEMMA TypeStep == EdgeInv /\ Next => TypeOK'
<1> SUFFICES ASSUME EdgeInv, Next PROVE TypeOK'
  OBVIOUS
<1> USE EdgeAssumption DEF EdgeInv, TypeOK, ThreadInv, history, edgeVars, IdleUp, IdleDown, Woken
<1>1. CASE ThreadStep
  <2>1. CASE WaitForSpace      BY <2>1 DEF WaitForSpace
  <2>2. CASE PushTimeout       BY <2>2 DEF PushTimeout
  <2>3. CASE PushSpuriousWake  BY <2>3 DEF PushSpuriousWake
  <2>4. CASE NotifyData        BY <2>4 DEF NotifyData
  <2>5. CASE GetDatum          BY <2>5 DEF GetDatum, Call
  <2>6. CASE TryGetDatum       BY <2>6 DEF TryGetDatum, Call
  <2>7. CASE PeekDatum         BY <2>7 DEF PeekDatum, Call
  <2>8. CASE WaitForData       BY <2>8 DEF WaitForData
  <2>9. CASE GiveUpGet         BY <2>9 DEF GiveUpGet
  <2>10. CASE GetTimeout       BY <2>10 DEF GetTimeout
  <2>11. CASE GetSpuriousWake  BY <2>11 DEF GetSpuriousWake
  <2>12. CASE NotifySpace      BY <2>12 DEF NotifySpace
  <2> QED
    BY <1>1, <2>1, <2>2, <2>3, <2>4, <2>5, <2>6, <2>7, <2>8, <2>9, <2>10, <2>11, <2>12 DEF ThreadStep
<1>2. CASE PushDatum \/ TryPushDatum
  BY <1>2 DEF PushDatum, TryPushDatum, Push, Packet, Kinds
<1>3. CASE Store
  BY <1>3, AppendProperties DEF Store
<1>4. CASE GiveUpPush
  BY <1>4 DEF GiveUpPush
<1>5. CASE Pop
  BY <1>5, AppendProperties, HeadTailProperties, EmptySeq DEF Pop
<1>6. CASE Peek
  BY <1>6, AppendProperties, ElementOfSeq DEF Peek
<1>7. CASE MarkDownstreamAsComplete
  BY <1>7, EmptySeq DEF MarkDownstreamAsComplete
<1> QED
  BY <1>1, <1>2, <1>3, <1>4, <1>5, <1>6, <1>7, NextCases

LEMMA ThreadInvStep == EdgeInv /\ Next => ThreadInv'
<1> SUFFICES ASSUME EdgeInv, Next PROVE ThreadInv'
  OBVIOUS
<1> USE EdgeAssumption DEF EdgeInv, TypeOK, ThreadInv, history, edgeVars, IdleUp, IdleDown, Woken
<1>1. CASE ThreadStep
  <2>1. CASE WaitForSpace      BY <2>1 DEF WaitForSpace
  <2>2. CASE PushTimeout       BY <2>2 DEF PushTimeout
  <2>3. CASE PushSpuriousWake  BY <2>3 DEF PushSpuriousWake
  <2>4. CASE NotifyData        BY <2>4 DEF NotifyData
  <2>5. CASE GetDatum          BY <2>5 DEF GetDatum, Call
  <2>6. CASE TryGetDatum       BY <2>6 DEF TryGetDatum, Call
  <2>7. CASE PeekDatum         BY <2>7 DEF PeekDatum, Call
  <2>8. CASE WaitForData       BY <2>8 DEF WaitForData
  <2>9. CASE GiveUpGet         BY <2>9 DEF GiveUpGet
  <2>10. CASE GetTimeout       BY <2>10 DEF GetTimeout
  <2>11. CASE GetSpuriousWake  BY <2>11 DEF GetSpuriousWake
  <2>12. CASE NotifySpace      BY <2>12 DEF NotifySpace
  <2> QED
    BY <1>1, <2>1, <2>2, <2>3, <2>4, <2>5, <2>6, <2>7, <2>8, <2>9, <2>10, <2>11, <2>12 DEF ThreadStep
<1>2. CASE PushDatum \/ TryPushDatum
  BY <1>2 DEF PushDatum, TryPushDatum, Push, Packet, Kinds, NoPacket
<1>3. CASE Store
  BY <1>3 DEF Store
<1>4. CASE GiveUpPush
  BY <1>4 DEF GiveUpPush
<1>5. CASE Pop
  BY <1>5, HeadTailProperties, EmptySeq DEF Pop
<1>6. CASE Peek
  BY <1>6, AppendProperties, ElementOfSeq DEF Peek
<1>7. CASE MarkDownstreamAsComplete
  BY <1>7, EmptySeq DEF MarkDownstreamAsComplete
<1> QED
  BY <1>1, <1>2, <1>3, <1>4, <1>5, <1>6, <1>7, NextCases

LEMMA CapacityStep == EdgeInv /\ Next => CapacityBound'
<1> SUFFICES ASSUME EdgeInv, Next PROVE CapacityBound'
  OBVIOUS
<1> USE EdgeAssumption DEF EdgeInv, TypeOK, history, edgeVars, CapacityBound
<1>1. CASE ThreadStep
  BY <1>1, ThreadStepFrame
<1>2. CASE PushDatum \/ TryPushDatum \/ GiveUpPush \/ Peek
  BY <1>2 DEF PushDatum, TryPushDatum, Push, GiveUpPush, Peek
<1>3. CASE Store
  <2>1. Len(q') = Len(q) + 1
    BY <1>3, AppendProperties DEF Store, ThreadInv
  <2> QED
    BY <1>3, <2>1, LenProperties DEF Store, full_of_data
<1>4. CASE Pop
  BY <1>4, HeadTailProperties, LenProperties DEF Pop
<1>5. CASE MarkDownstreamAsComplete
  BY <1>5, EmptySeq DEF MarkDownstreamAsComplete
<1> QED
  BY <1>1, <1>2, <1>3, <1>4, <1>5, NextCases

LEMMA OrderStep == EdgeInv /\ Next => InOrderDelivery'
<1> SUFFICES ASSUME EdgeInv, Next PROVE InOrderDelivery'
  OBVIOUS
<1>1. /\ q \in Seq(Packet) /\ accepted \in Seq(Packet) /\ delivered \in Seq(Packet)
      /\ Len(q) \in Nat /\ Len(accepted) \in Nat /\ Len(delivered) \in Nat
      /\ ThreadInv /\ InOrderDelivery
  BY LenProperties DEF EdgeInv, TypeOK
<1>2. ASSUME UNCHANGED <<q, downstream_complete, accepted, delivered>> PROVE InOrderDelivery'
  BY <1>1, <1>2 DEF InOrderDelivery
<1>3. CASE ThreadStep
  BY <1>2, <1>3, ThreadStepFrame DEF edgeVars, history
<1>4. CASE PushDatum \/ TryPushDatum \/ GiveUpPush \/ Peek
  BY <1>2, <1>4 DEF PushDatum, TryPushDatum, Push, GiveUpPush, Peek, edgeVars
<1>5. CASE Store
  <2>1. up.datum \in Packet
    BY <1>1, <1>5 DEF Store, ThreadInv
  <2>2. /\ Len(accepted') = Len(accepted) + 1
        /\ \A i \in 1..Len(accepted) : accepted'[i] = accepted[i]
        /\ accepted'[Len(accepted) + 1] = up.datum
    BY <1>1, <1>5, <2>1, AppendProperties DEF Store
  <2>3. /\ Len(q') = Len(q) + 1
        /\ \A i \in 1..Len(q) : q'[i] = q[i]
        /\ q'[Len(q) + 1] = up.datum
    BY <1>1, <1>5, <2>1, AppendProperties DEF Store
  <2>4. UNCHANGED <<delivered, downstream_complete>>
    BY <1>5 DEF Store
  <2>5. \A i \in 1..Len(delivered') : delivered'[i] = accepted'[i]
    BY <1>1, <2>2, <2>4 DEF InOrderDelivery
  <2>6. CASE downstream_complete
    BY <1>1, <2>2, <2>4, <2>5, <2>6 DEF InOrderDelivery
  <2>7. CASE ~downstream_complete
    <3>0. Len(accepted) = Len(delivered) + Len(q) /\ Len(delivered') = Len(delivered)
      BY <1>1, <2>4, <2>7 DEF InOrderDelivery
    <3>1. ASSUME NEW i \in 1..Len(q') PROVE q'[i] = accepted'[Len(delivered') + i]
      <4>1. CASE i \in 1..Len(q)
        <5>1. Len(delivered) + i \in 1..Len(accepted)
          BY <1>1, <3>0, <4>1
        <5> QED
          BY <1>1, <2>2, <2>3, <2>7, <3>0, <4>1, <5>1 DEF InOrderDelivery
      <4>2. CASE i = Len(q) + 1
        BY <1>1, <2>2, <2>3, <3>0, <4>2
      <4> QED
        BY <1>1, <2>3, <4>1, <4>2
    <3>2. Len(accepted') = Len(delivered') + Len(q') /\ Len(delivered') <= Len(accepted')
      BY <1>1, <2>2, <2>3, <3>0
    <3> QED
      BY <2>5, <3>1, <3>2 DEF InOrderDelivery
  <2> QED
    BY <2>6, <2>7
<1>6. CASE Pop
  <2>1. q # << >> /\ ~downstream_complete /\ UNCHANGED <<accepted, downstream_complete>>
    BY <1>1, <1>6 DEF Pop, ThreadInv
  <2>2. /\ Len(q') = Len(q) - 1 /\ \A i \in 1..Len(q') : q'[i] = q[i + 1]
        /\ Head(q) \in Packet /\ Head(q) = q[1] /\ Len(q) > 0
    BY <1>1, <1>6, <2>1, HeadTailProperties, EmptySeq DEF Pop
  <2>3. /\ Len(delivered') = Len(delivered) + 1
        /\ \A i \in 1..Len(delivered) : delivered'[i] = delivered[i]
        /\ delivered'[Len(delivered) + 1] = Head(q)
    BY <1>1, <1>6, <2>2, AppendProperties DEF Pop
  <2>4. ASSUME NEW i \in 1..Len(delivered') PROVE delivered'[i] = accepted'[i]
    <3>1. CASE i \in 1..Len(delivered)
      BY <1>1, <2>1, <2>3, <3>1 DEF InOrderDelivery
    <3>2. CASE i = Len(delivered) + 1
      BY <1>1, <2>1, <2>2, <2>3, <3>2 DEF InOrderDelivery
    <3> QED
      BY <1>1, <2>3, <3>1, <3>2
  <2>5. ASSUME NEW i \in 1..Len(q') PROVE q'[i] = accepted'[Len(delivered') + i]
    <3>1. i + 1 \in 1..Len(q) /\ Len(delivered') + i = Len(delivered) + (i + 1)
      BY <1>1, <2>2, <2>3
    <3>2. q'[i] = q[i + 1] /\ q[i + 1] = accepted[Len(delivered) + (i + 1)]
      BY <1>1, <2>1, <2>2, <3>1 DEF InOrderDelivery
    <3> QED
      BY <2>1, <3>1, <3>2
  <2>6. Len(accepted') = Len(delivered') + Len(q') /\ Len(delivered') <= Len(accepted')
    BY <1>1, <2>1, <2>2, <2>3 DEF InOrderDelivery
  <2> QED
    BY <2>4, <2>5, <2>6 DEF InOrderDelivery
<1>7. CASE MarkDownstreamAsComplete
  BY <1>1, <1>7 DEF MarkDownstreamAsComplete, InOrderDelivery
<1> QED
  BY <1>3, <1>4, <1>5, <1>6, <1>7, NextCases

LEMMA ControlStep == EdgeInv /\ Next => NoControlLost'
<1> SUFFICES ASSUME EdgeInv, Next PROVE NoControlLost'
  OBVIOUS
<1>1. ThreadInv /\ NoControlLost /\ TypeOK
  BY DEF EdgeInv
<1> USE DEF NoControlLost, Inside
<1>2. CASE ThreadStep
  <2>1. UNCHANGED <<accepted, dropped, refused, ignored, calls, downstream_complete>>
    BY <1>2, ThreadStepFrame DEF edgeVars, history
  <2>2. Inside(up) => Inside(up') /\ up'.datum = up.datum
    BY <1>1, <1>2, ThreadStepUp
  <2> QED
    BY <1>1, <2>1, <2>2
<1>3. CASE PushDatum \/ TryPushDatum
  <2>1. PICK c \in {"push", "try"}, k \in Kinds, l \in {"none", "running"} : Push(c, k, l)
    BY <1>3 DEF PushDatum, TryPushDatum, Kinds
  <2>2. /\ up.pc = "idle" /\ calls' = calls + 1 /\ calls \in Nat
        /\ UNCHANGED <<accepted, dropped, refused, downstream_complete>>
    BY <1>1, <2>1 DEF Push, TypeOK, edgeVars
  <2>3. CASE downstream_complete
    <3>1. PICK d \in [n : {calls + 1}, kind : Kinds] : ignored' = ignored \cup {d} /\ up' = up
      BY <2>1, <2>3 DEF Push
    <3>2. d.n = calls + 1
      BY <3>1
    <3> QED
      BY <1>1, <2>2, <2>3, <3>1, <3>2
  <2>4. CASE ~downstream_complete
    <3>1. up'.pc = "enter" /\ up'.datum.n = calls + 1 /\ ignored' = ignored
      BY <2>1, <2>4 DEF Push
    <3> QED
      BY <1>1, <2>2, <2>4, <3>1
  <2> QED
    BY <2>3, <2>4
<1>4. CASE Store
  <2>1. /\ up.datum \in Packet /\ up.datum.n = calls
        /\ UNCHANGED <<calls, dropped, refused, ignored, downstream_complete>>
    BY <1>1, <1>4 DEF Store, ThreadInv
  <2>2. /\ DOMAIN accepted = 1..Len(accepted) /\ DOMAIN accepted' = 1..Len(accepted')
        /\ Len(accepted) \in Nat /\ Len(accepted') = Len(accepted) + 1
        /\ \A j \in 1..Len(accepted) : accepted'[j] = accepted[j]
        /\ accepted'[Len(accepted) + 1] = up.datum
    BY <1>1, <1>4, <2>1, AppendProperties, LenProperties DEF Store, TypeOK
  <2>3. ASSUME NEW j \in DOMAIN accepted
        PROVE  j \in DOMAIN accepted' /\ accepted'[j] = accepted[j]
    BY <2>2
  <2>4. Len(accepted) + 1 \in DOMAIN accepted'
    BY <2>2
  <2> QED
    BY <1>1, <2>1, <2>2, <2>3, <2>4
<1>5. CASE GiveUpPush
  BY <1>1, <1>5 DEF GiveUpPush, ThreadInv, edgeVars
<1>6. CASE Pop \/ Peek
  BY <1>1, <1>6 DEF Pop, Peek, edgeVars
<1>7. CASE MarkDownstreamAsComplete
  BY <1>1, <1>7 DEF MarkDownstreamAsComplete, Woken, TypeOK
<1> QED
  BY <1>2, <1>3, <1>4, <1>5, <1>6, <1>7, NextCases

LEMMA PeekedStep == EdgeInv /\ Next => PeekedIsNext'
<1> SUFFICES ASSUME EdgeInv, Next PROVE PeekedIsNext'
  OBVIOUS
<1>1. /\ q \in Seq(Packet) /\ peeked \in Seq(Packet)
      /\ Len(q) \in Nat /\ Len(peeked) \in Nat
      /\ TypeOK /\ ThreadInv /\ PeekedIsNext
  BY LenProperties DEF EdgeInv, TypeOK
<1>2. CASE ThreadStep
  BY <1>1, <1>2, ThreadStepFrame DEF edgeVars, history, PeekedIsNext
<1>3. CASE PushDatum \/ TryPushDatum \/ GiveUpPush
  BY <1>1, <1>3 DEF PushDatum, TryPushDatum, Push, GiveUpPush, edgeVars, PeekedIsNext
<1>4. CASE Store
  <2>1. /\ Len(q') = Len(q) + 1 /\ \A i \in 1..Len(q) : q'[i] = q[i]
        /\ peeked' = peeked
    BY <1>1, <1>4, AppendProperties DEF Store, ThreadInv
  <2> QED
    BY <1>1, <2>1 DEF PeekedIsNext
<1>5. CASE Pop
  <2>1. Len(q') = Len(q) - 1 /\ \A i \in 1..Len(q') : q'[i] = q[i + 1]
    BY <1>1, <1>5, HeadTailProperties DEF Pop
  <2>2. CASE peeked = << >>
    BY <1>1, <1>5, <2>1, <2>2, EmptySeq, LenProperties, HeadTailProperties DEF Pop, PeekedIsNext
  <2>3. CASE peeked # << >>
    <3>1. Len(peeked') = Len(peeked) - 1 /\ \A i \in 1..Len(peeked') : peeked'[i] = peeked[i + 1]
      BY <1>1, <1>5, <2>3, HeadTailProperties DEF Pop
    <3>2. ASSUME NEW i \in 1..Len(peeked') PROVE peeked'[i] = q'[i]
      <4>1. i + 1 \in 1..Len(peeked) /\ i \in 1..Len(q')
        BY <1>1, <2>1, <3>1 DEF PeekedIsNext
      <4> QED
        BY <1>1, <2>1, <3>1, <4>1 DEF PeekedIsNext
    <3> QED
      BY <1>1, <2>1, <3>1, <3>2 DEF PeekedIsNext
  <2> QED
    BY <2>2, <2>3
<1>6. CASE Peek
  <2>1. q' = q /\ down.idx = Len(peeked) /\ Len(q) > Len(peeked)
    BY <1>1, <1>6 DEF Peek, ThreadInv, edgeVars
  <2>2. q[Len(peeked) + 1] \in Packet
    BY <1>1, <2>1, ElementOfSeq
  <2>3. /\ Len(peeked') = Len(peeked) + 1
        /\ \A i \in 1..Len(peeked) : peeked'[i] = peeked[i]
        /\ peeked'[Len(peeked) + 1] = q[Len(peeked) + 1]
    BY <1>1, <1>6, <2>1, <2>2, AppendProperties DEF Peek
  <2> QED
    BY <1>1, <2>1, <2>3 DEF PeekedIsNext
<1>7. CASE MarkDownstreamAsComplete
  BY <1>7, EmptySeq DEF MarkDownstreamAsComplete, PeekedIsNext
<1> QED
  BY <1>2, <1>3, <1>4, <1>5, <1>6, <1>7, NextCases

LEMMA LateStep == EdgeInv /\ Next => AtMostOneLateDatum'
<1> SUFFICES ASSUME EdgeInv, Next PROVE AtMostOneLateDatum'
  OBVIOUS
<1>1. /\ q \in Seq(Packet) /\ Len(q) \in Nat
      /\ TypeOK /\ ThreadInv /\ AtMostOneLateDatum
  BY LenProperties DEF EdgeInv, TypeOK
<1>2. CASE ThreadStep
  <2>1. UNCHANGED <<q, downstream_complete>>
    BY <1>2, ThreadStepFrame DEF edgeVars
  <2>2. downstream_complete /\ Inside(up') => Inside(up)
    BY <1>1, <1>2 DEF TypeOK, ThreadInv, Inside, ThreadStep, WaitForSpace, PushTimeout,
         PushSpuriousWake, NotifyData, GetDatum, TryGetDatum, PeekDatum, Call,
         WaitForData, GiveUpGet, GetTimeout, GetSpuriousWake, NotifySpace, IdleUp
  <2> QED
    BY <1>1, <2>1, <2>2 DEF AtMostOneLateDatum
<1>3. CASE PushDatum \/ TryPushDatum
  BY <1>1, <1>3 DEF PushDatum, TryPushDatum, Push, edgeVars, AtMostOneLateDatum, Inside
<1>4. CASE Store
  <2>1. Len(q') = Len(q) + 1 /\ Inside(up) /\ ~Inside(up') /\ UNCHANGED downstream_complete
    BY <1>1, <1>4, AppendProperties DEF Store, ThreadInv, TypeOK, Inside
  <2> QED
    BY <1>1, <2>1 DEF AtMostOneLateDatum
<1>5. CASE GiveUpPush
  BY <1>1, <1>5 DEF GiveUpPush, edgeVars, AtMostOneLateDatum, Inside
<1>6. CASE Pop \/ Peek
  BY <1>1, <1>6 DEF Pop, Peek, ThreadInv, AtMostOneLateDatum, edgeVars
<1>7. CASE MarkDownstreamAsComplete
  BY <1>7, EmptySeq DEF MarkDownstreamAsComplete, AtMostOneLateDatum
<1> QED
  BY <1>2, <1>3, <1>4, <1>5, <1>6, <1>7, NextCases

(* The parts of NoLostWakeup, one for each thread. *)
UpWakeup   == up.pc = "waiting" /\ ~full_of_data => down.pc = "notify"
DownWakeup == down.pc = "waiting" /\ Len(q) > down.idx => up.pc = "notify"

LEMMA UpWakeupStep == EdgeInv /\ Next => UpWakeup'
<1> SUFFICES ASSUME EdgeInv, Next PROVE UpWakeup'
  OBVIOUS
<1>1. TypeOK /\ ThreadInv /\ UpWakeup
  BY DEF EdgeInv, NoLostWakeup, UpWakeup
<1> USE DEF UpWakeup, full_of_data, TypeOK, IdleUp, Woken
<1>2. CASE ThreadStep
  <2>1. UNCHANGED q
    BY <1>2, ThreadStepFrame DEF edgeVars
  <2>2. CASE WaitForSpace \/ PushTimeout \/ PushSpuriousWake \/ NotifyData
    BY <1>1, <2>1, <2>2 DEF WaitForSpace, PushTimeout, PushSpuriousWake, NotifyData
  <2>3. CASE GetDatum \/ TryGetDatum \/ PeekDatum
    BY <1>1, <2>1, <2>3 DEF GetDatum, TryGetDatum, PeekDatum, Call
  <2>4. CASE WaitForData \/ GiveUpGet \/ GetTimeout \/ GetSpuriousWake
    BY <1>1, <2>1, <2>4 DEF WaitForData, GiveUpGet, GetTimeout, GetSpuriousWake
  <2>5. CASE NotifySpace
    BY <1>1, <2>5 DEF NotifySpace
  <2> QED
    BY <1>2, <2>2, <2>3, <2>4, <2>5 DEF ThreadStep
<1>3. CASE PushDatum \/ TryPushDatum
  BY <1>1, <1>3 DEF PushDatum, TryPushDatum, Push, edgeVars
<1>4. CASE Store \/ GiveUpPush
  BY <1>1, <1>4 DEF Store, GiveUpPush
<1>5. CASE Pop
  BY <1>1, <1>5 DEF Pop
<1>6. CASE Peek
  BY <1>1, <1>6 DEF Peek, edgeVars
<1>7. CASE MarkDownstreamAsComplete
  BY <1>1, <1>7 DEF MarkDownstreamAsComplete
<1> QED
  BY <1>2, <1>3, <1>4, <1>5, <1>6, <1>7, NextCases

LEMMA DownWakeupStep == EdgeInv /\ Next => DownWakeup'
<1> SUFFICES ASSUME EdgeInv, Next PROVE DownWakeup'
  OBVIOUS
<1>1. TypeOK /\ ThreadInv /\ DownWakeup /\ Len(q) \in Nat
  BY LenProperties DEF EdgeInv, NoLostWakeup, DownWakeup, TypeOK
<1> USE DEF DownWakeup, TypeOK, IdleDown, Woken
<1>2. CASE ThreadStep
  <2>1. UNCHANGED q
    BY <1>2, ThreadStepFrame DEF edgeVars
  <2>2. CASE WaitForSpace \/ PushTimeout \/ PushSpuriousWake
    BY <1>1, <2>1, <2>2 DEF WaitForSpace, PushTimeout, PushSpuriousWake
  <2>3. CASE NotifyData
    BY <1>1, <2>1, <2>3 DEF NotifyData
  <2>4. CASE GetDatum \/ TryGetDatum \/ PeekDatum
    BY <1>1, <2>1, <2>4 DEF GetDatum, TryGetDatum, PeekDatum, Call
  <2>5. CASE WaitForData \/ GiveUpGet \/ GetTimeout \/ GetSpuriousWake
    <3>1. CASE WaitForData
      BY <1>1, <2>1, <3>1, EdgeAssumption DEF WaitForData
    <3>2. CASE GiveUpGet       BY <1>1, <3>2 DEF GiveUpGet
    <3>3. CASE GetTimeout      BY <1>1, <3>3 DEF GetTimeout
    <3>4. CASE GetSpuriousWake BY <1>1, <3>4 DEF GetSpuriousWake
    <3> QED
      BY <2>5, <3>1, <3>2, <3>3, <3>4
  <2>6. CASE NotifySpace
    BY <1>1, <2>6 DEF NotifySpace
  <2> QED
    BY <1>2, <2>2, <2>3, <2>4, <2>5, <2>6 DEF ThreadStep
<1>3. CASE PushDatum \/ TryPushDatum
  BY <1>1, <1>3 DEF PushDatum, TryPushDatum, Push, edgeVars, ThreadInv
<1>4. CASE Store
  BY <1>1, <1>4 DEF Store
<1>5. CASE GiveUpPush
  BY <1>1, <1>5 DEF GiveUpPush, edgeVars
<1>6. CASE Pop \/ Peek
  BY <1>1, <1>6 DEF Pop, Peek
<1>7. CASE MarkDownstreamAsComplete
  BY <1>1, <1>7 DEF MarkDownstreamAsComplete
<1> QED
  BY <1>2, <1>3, <1>4, <1>5, <1>6, <1>7, NextCases

(* Every reachable state of an edge satisfies its invariant. *)
THEOREM EdgeInvariant == Spec => []EdgeInv
<1>1. EdgeInv /\ [Next]_vars => EdgeInv'
  <2> SUFFICES ASSUME EdgeInv, [Next]_vars PROVE EdgeInv'
    OBVIOUS
  <2>1. CASE Next
    <3>1. TypeOK' /\ ThreadInv' /\ CapacityBound' /\ InOrderDelivery'
      BY <2>1, TypeStep, ThreadInvStep, CapacityStep, OrderStep
    <3>2. NoControlLost' /\ PeekedIsNext' /\ AtMostOneLateDatum'
      BY <2>1, ControlStep, PeekedStep, LateStep
    <3>3. NoLostWakeup'
      BY <2>1, UpWakeupStep, DownWakeupStep DEF NoLostWakeup, UpWakeup, DownWakeup
    <3> QED
      BY <3>1, <3>2, <3>3 DEF EdgeInv
  <2>2. CASE UNCHANGED vars
    <3>1. UNCHANGED <<q, downstream_complete, up, down, calls, accepted, delivered,
                      dropped, refused, ignored, peeked>>
      BY <2>2 DEF vars, edgeVars, history
    <3>2. TypeOK' /\ ThreadInv'
      BY <3>1 DEF EdgeInv, TypeOK, ThreadInv
    <3>3. CapacityBound' /\ InOrderDelivery'
      BY <3>1 DEF EdgeInv, CapacityBound, InOrderDelivery
    <3>4. NoControlLost' /\ PeekedIsNext'
      BY <3>1 DEF EdgeInv, NoControlLost, PeekedIsNext, Inside
    <3>5. AtMostOneLateDatum' /\ NoLostWakeup'
      BY <3>1 DEF EdgeInv, AtMostOneLateDatum, NoLostWakeup, Inside, full_of_data
    <3> QED
      BY <3>2, <3>3, <3>4, <3>5 DEF EdgeInv
  <2> QED
    BY <2>1, <2>2
<1> QED
  BY <1>1, InitInv, PTL DEF Spec

(* Type correctness of the edge.                                           *)
THEOREM TypeCorrect == Spec => []TypeOK
BY EdgeInvariant, PTL DEF EdgeInv

(* edge::push never grows a bounded queue beyond its capacity.             *)
THEOREM CapacityTheorem == Spec => []CapacityBound
BY EdgeInvariant, PTL DEF EdgeInv

(* edge::pop returns the data in the order of the pushes, without gaps.    *)
THEOREM OrderTheorem == Spec => []InOrderDelivery
BY EdgeInvariant, PTL DEF EdgeInv

(* edge::push_datum loses no control message on an edge that is not        *)
(* complete, and data only on a full non-blocking one; a push of           *)
(* try_push_datum, which may give up any packet, accounts for it too.      *)
THEOREM ControlTheorem == Spec => []NoControlLost
BY EdgeInvariant, PTL DEF EdgeInv

(* edge::peek_datum shows what edge::get_datum will return.                *)
THEOREM PeekTheorem == Spec => []PeekedIsNext
BY EdgeInvariant, PTL DEF EdgeInv

(* At most one datum reaches an edge after it was marked as complete.      *)
THEOREM LateTheorem == Spec => []AtMostOneLateDatum
BY EdgeInvariant, PTL DEF EdgeInv

(* A thread is never left waiting for a condition that holds, unless the   *)
(* other thread is about to notify it.                                     *)
THEOREM WakeupTheorem == Spec => []NoLostWakeup
BY EdgeInvariant, PTL DEF EdgeInv

(* The initial states of the edge are initial states of the channel.       *)
LEMMA AbstractInit == Init => Abstract!Init
BY DEF Init, Abstract!Init, Inside, IdleUp, IdleDown

(* Each step is a step of the channel or leaves it alone.                  *)
LEMMA AbstractStep == EdgeInv /\ EdgeInv' /\ Next => [Abstract!Next]_(Abstract!vars)
<1> SUFFICES ASSUME EdgeInv, EdgeInv', Next PROVE [Abstract!Next]_(Abstract!vars)
  OBVIOUS
<1>1. TypeOK /\ ThreadInv
  BY DEF EdgeInv
<1> USE <1>1 DEF TypeOK, ThreadInv, Inside, IdleUp, IdleDown, Woken, edgeVars, history,
                 Abstract!vars
<1>2. CASE \/ WaitForSpace \/ PushTimeout \/ PushSpuriousWake
           \/ WaitForData \/ GetTimeout \/ GetSpuriousWake
  BY <1>2 DEF WaitForSpace, PushTimeout, PushSpuriousWake, WaitForData, GetTimeout, GetSpuriousWake
<1>3. CASE NotifyData
  BY <1>3 DEF NotifyData
<1>4. CASE NotifySpace
  BY <1>4 DEF NotifySpace
<1>5. CASE GetDatum \/ TryGetDatum
  <2>1. Abstract!Ask
    BY <1>5 DEF GetDatum, TryGetDatum, Call, Abstract!Ask
  <2> QED
    BY <2>1 DEF Abstract!Next
<1>6. CASE PeekDatum
  <2>1. Abstract!Ask
    <3>1. Len(peeked) \in Nat
      BY LenProperties
    <3>2. /\ down.pc = "idle" /\ ~downstream_complete
          /\ down'.pc = "enter" /\ down'.idx = Len(peeked)
          /\ UNCHANGED <<q, downstream_complete, up, delivered>>
      BY <1>6 DEF PeekDatum, Call
    <3> QED
      BY <3>1, <3>2 DEF Abstract!Ask
  <2> QED
    BY <2>1 DEF Abstract!Next
<1>7. CASE GiveUpGet
  <2>1. Abstract!FailToReceive
    BY <1>7 DEF GiveUpGet, Abstract!FailToReceive
  <2> QED
    BY <2>1 DEF Abstract!Next
<1>8. CASE PushDatum \/ TryPushDatum
  <2>1. PICK c \in {"push", "try"}, k \in Kinds, l \in {"none", "running"} : Push(c, k, l)
    BY <1>8 DEF PushDatum, TryPushDatum, Kinds
  <2>2. CASE downstream_complete
    BY <2>1, <2>2 DEF Push
  <2>3. CASE ~downstream_complete
    <3>1. up'.datum \in Packet /\ up.pc = "idle" /\ up'.pc = "enter"
      BY <2>1, <2>3, EdgeAssumption DEF Push, Packet, Kinds
    <3>2. Abstract!Offer(up'.datum)
      BY <2>1, <2>3, <3>1 DEF Push, Abstract!Offer
    <3> QED
      BY <3>1, <3>2 DEF Abstract!Next
  <2> QED
    BY <2>2, <2>3
<1>9. CASE Store
  <2>1. up.datum # NoPacket
    BY <1>9, EdgeAssumption DEF Store, Packet, NoPacket
  <2>2. Abstract!Accept
    BY <1>9, <2>1, EdgeAssumption, LenProperties
    DEF Store, full_of_data, Abstract!Accept, Abstract!HasRoom
  <2> QED
    BY <2>2 DEF Abstract!Next
<1>10. CASE GiveUpPush
  <2>1. up.datum # NoPacket
    BY <1>10, EdgeAssumption DEF GiveUpPush, Packet, NoPacket
  <2>2. Abstract!FailToSend
    BY <1>10, <2>1, EdgeAssumption, LenProperties
    DEF GiveUpPush, full_of_data, Abstract!FailToSend, Abstract!HasRoom
  <2> QED
    BY <2>2 DEF Abstract!Next
<1>11. CASE Pop
  <2>1. Abstract!Receive
    BY <1>11 DEF Pop, Abstract!Receive
  <2> QED
    BY <2>1 DEF Abstract!Next
<1>12. CASE Peek
  <2>1. Abstract!Look
    BY <1>12, LenProperties DEF Peek, Abstract!Look
  <2> QED
    BY <2>1 DEF Abstract!Next
<1>13. CASE MarkDownstreamAsComplete
  <2>1. Abstract!Close
    BY <1>13 DEF MarkDownstreamAsComplete, Abstract!Close
  <2> QED
    BY <2>1 DEF Abstract!Next
<1> QED
  BY <1>2, <1>3, <1>4, <1>5, <1>6, <1>7, <1>8, <1>9, <1>10, <1>11, <1>12, <1>13
  DEF Next, Upstream, Downstream

(* The edge, with its locks, waits and notifications (edge.cxx), implements *)
(* the bounded channel of EdgeSpec, fairness apart.                        *)
THEOREM EdgeImplementsChannel == Spec => Abstract!Safety
<1>1. EdgeInv /\ EdgeInv' /\ [Next]_vars => [Abstract!Next]_(Abstract!vars)
  BY AbstractStep DEF vars, edgeVars, history, Abstract!vars, Inside
<1> QED
  BY <1>1, AbstractInit, EdgeInvariant, PTL DEF Spec, Abstract!Safety
=============================================================================
