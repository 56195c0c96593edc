------------------------------- MODULE FlowProofs -------------------------------
(***************************************************************************)
(* What is proved of Flow: the types and bounds, that the streams come out *)
(* of collate in their order, and that collate never waits for a worker    *)
(* that has nothing for it.                                                *)
(***************************************************************************)
EXTENDS Flow, ListsProofs

LEMMA OneRemainder ==
  ASSUME NEW n \in Nat \ {0}, NEW d \in Int, NEW e \in Int,
         NEW x \in 0..(n - 1), NEW y \in 0..(n - 1), n * e + x = n * d + y
  PROVE  x = y
<1> DEFINE f == e - d
<1>1. n * e = n * d + n * f /\ f \in Int
  OBVIOUS
<1>2. n * f = y - x
  BY <1>1
<1> HIDE DEF f
<1>3. f >= 1 => n * f >= n
  BY <1>1
<1>4. f <= -1 => n * f <= -n
  BY <1>1
<1>5. f = 0
  BY <1>1, <1>2, <1>3, <1>4
<1> QED
  BY <1>2, <1>5

LEMMA TurnsAround ==
  ASSUME NEW n \in Nat \ {0}, NEW k \in Nat
  PROVE  /\ k % n \in 0..(n - 1) /\ ((k % n) + 1) % n = (k + 1) % n
         /\ (k % n) + 1 \in 1..n
<1>1. k % n \in 0..(n - 1) /\ (k % n) + 1 \in 1..n
  OBVIOUS
<1>2. ((k % n) + 1) % n = (k + 1) % n
  <2> DEFINE d == k \div n
             m == k % n
             e == (k + 1) \div n
             x == (k + 1) % n
  <2>1. k = n * d + m /\ k + 1 = n * e + x /\ d \in Int /\ e \in Int /\ x \in 0..(n - 1)
    OBVIOUS
  <2>m. m \in 0..(n - 1)
    BY <1>1
  <2> HIDE DEF d, m, e, x
  <2>2. CASE m + 1 < n
    <3>1. (m + 1) % n = m + 1 /\ m + 1 \in 0..(n - 1)
      BY <2>m, <2>2
    <3>2. n * e + x = n * d + (m + 1)
      BY <2>1, <2>m
    <3>3. x = m + 1
      BY <2>1, <3>1, <3>2, OneRemainder
    <3> QED BY <3>1, <3>3 DEF m, x
  <2>3. CASE m + 1 = n
    <3>1. (m + 1) % n = 0 /\ 0 \in 0..(n - 1) /\ d + 1 \in Int
      BY <2>1, <2>3
    <3>2. n * (d + 1) = n * d + n
      BY <2>1
    <3>3. n * e + x = n * (d + 1) + 0
      BY <2>1, <2>m, <2>3, <3>2
    <3>4. x = 0
      BY <2>1, <3>1, <3>3, OneRemainder
    <3> QED BY <3>1, <3>4 DEF m, x
  <2> QED BY <2>m, <2>2, <2>3
<1> QED
  BY <1>1, <1>2


-----------------------------------------------------------------------------
(* The edges and the branches.                                             *)

LEMMA TheEdges ==
  /\ \A t \in TagSet : Src(t) \in Edges /\ Status(t) \in Edges /\ Res(t) \in Edges
  /\ \A b \in Branches : /\ Dist(b) \in Edges /\ Coll(b) \in Edges
                         /\ b = <<b[1], b[2]>> /\ b[1] \in TagSet
  /\ \A t, u : /\ Src(t) = Src(u) => t = u
               /\ Status(t) = Status(u) => t = u
               /\ Res(t) = Res(u) => t = u
               /\ Src(t) # Status(u) /\ Src(t) # Res(u) /\ Status(t) # Res(u)
  /\ \A b, t : /\ Dist(b) # Src(t) /\ Dist(b) # Status(t) /\ Dist(b) # Res(t)
               /\ Coll(b) # Src(t) /\ Coll(b) # Status(t) /\ Coll(b) # Res(t)
  /\ \A b, c \in Branches : /\ Dist(b) = Dist(c) => b = c
                            /\ Coll(b) = Coll(c) => b = c
                            /\ Dist(b) # Coll(c)
<1>1. \A b \in Branches : b = <<b[1], b[2]>> /\ b[1] \in TagSet
  BY DEF Branches
<1>2. \A t \in TagSet : Src(t) \in Edges /\ Status(t) \in Edges /\ Res(t) \in Edges
  BY DEF Edges, DistInputs, DistOutputs, CollInputs, CollOutputs
<1>3. \A b \in Branches : Dist(b) \in Edges /\ Coll(b) \in Edges
  BY DEF Edges, DistInputs, DistOutputs, CollInputs, CollOutputs
<1>4. \A t, u : /\ Src(t) = Src(u) => t = u
                /\ Status(t) = Status(u) => t = u
                /\ Res(t) = Res(u) => t = u
  BY DEF Src, Status, Res
<1>5. /\ \A t : Src(t)[1] = "src" /\ Status(t)[1] = "status" /\ Res(t)[1] = "res"
      /\ \A b : Dist(b)[1] = "dist" /\ Coll(b)[1] = "coll"
  BY DEF Src, Status, Res, Dist, Coll
<1>6. /\ \A b, t : /\ Dist(b) # Src(t) /\ Dist(b) # Status(t) /\ Dist(b) # Res(t)
                   /\ Coll(b) # Src(t) /\ Coll(b) # Status(t) /\ Coll(b) # Res(t)
      /\ \A t, u : Src(t) # Status(u) /\ Src(t) # Res(u) /\ Status(t) # Res(u)
      /\ \A b, c : Dist(b) # Coll(c)
  BY <1>5
<1>7. \A b, c : (Dist(b) = Dist(c) \/ Coll(b) = Coll(c)) => b[1] = c[1] /\ b[2] = c[2]
  BY DEF Dist, Coll
<1>8. \A b, c \in Branches : (Dist(b) = Dist(c) \/ Coll(b) = Coll(c)) => b = c
  BY <1>1, <1>7
<1> QED
  BY <1>1, <1>2, <1>3, <1>4, <1>6, <1>8

LEMMA ThePorts ==
  ASSUME NEW t \in TagSet
  PROVE  /\ Len(Groups[t]) \in Nat \ {0} /\ DOMAIN OfTag(t) = 1..Len(Groups[t])
         /\ Groups[t] \in Seq(ToSet(Groups[t])) /\ DOMAIN Groups[t] = 1..Len(Groups[t])
         /\ \A i \in 1..Len(Groups[t]) : OfTag(t)[i] \in Branches /\ OfTag(t)[i][1] = t
         /\ \A i, j \in 1..Len(Groups[t]) : OfTag(t)[i] = OfTag(t)[j] => i = j
         /\ \A b \in Branches : b[1] = t => \E i \in 1..Len(Groups[t]) : b = OfTag(t)[i]
<1>1. /\ Groups[t] \in Seq(ToSet(Groups[t])) /\ Len(Groups[t]) >= 2
      /\ \A i, j \in DOMAIN Groups[t] : Groups[t][i] = Groups[t][j] => i = j
  BY FlowAssumption DEF IsInjective
<1>2. Len(Groups[t]) \in Nat \ {0} /\ DOMAIN Groups[t] = 1..Len(Groups[t])
  BY <1>1, LenProperties
<1>3. /\ DOMAIN OfTag(t) = 1..Len(Groups[t])
      /\ \A i \in 1..Len(Groups[t]) : OfTag(t)[i] = <<t, Groups[t][i]>>
  BY <1>2 DEF OfTag
<1>4. \A i \in 1..Len(Groups[t]) : Groups[t][i] \in ToSet(Groups[t])
  BY <1>2 DEF ToSet
<1>5. \A i \in 1..Len(Groups[t]) : OfTag(t)[i] \in Branches /\ OfTag(t)[i][1] = t
  <2> SUFFICES ASSUME NEW i \in 1..Len(Groups[t])
               PROVE  OfTag(t)[i] \in Branches /\ OfTag(t)[i][1] = t
    OBVIOUS
  <2> DEFINE g == Groups[t][i]
             b == <<t, g>>
  <2>1. g \in ToSet(Groups[t]) /\ OfTag(t)[i] = b
    BY <1>3, <1>4
  <2>2. g \in UNION {ToSet(Groups[u]) : u \in TagSet}
    BY <2>1
  <2> HIDE DEF g
  <2>3. b \in TagSet \X UNION {ToSet(Groups[u]) : u \in TagSet} /\ b[1] = t /\ b[2] = g
    BY <2>2
  <2> HIDE DEF b
  <2> QED BY <2>1, <2>3 DEF Branches
<1>6. \A i, j \in 1..Len(Groups[t]) : OfTag(t)[i] = OfTag(t)[j] => i = j
  BY <1>1, <1>2, <1>3
<1>7. ASSUME NEW b \in Branches, b[1] = t PROVE \E i \in 1..Len(Groups[t]) : b = OfTag(t)[i]
  <2>1. b = <<t, b[2]>> /\ b[2] \in ToSet(Groups[t])
    BY <1>7 DEF Branches
  <2>2. PICK i \in 1..Len(Groups[t]) : b[2] = Groups[t][i]
    BY <1>2, <2>1 DEF ToSet
  <2> QED BY <1>3, <2>1, <2>2
<1> QED
  BY <1>1, <1>2, <1>3, <1>5, <1>6, <1>7

-----------------------------------------------------------------------------
(* The inductive invariant of the types.                                   *)

Calls == [op : {"push", "grab", "forward"}, edge : Edges, item : Items \cup {None}]
Loops == [tags : Seq(TagSet), pos : Nat \ {0}, todo : Seq(Calls), cur_port : [TagSet -> Nat],
          complete_ports : SUBSET TagSet, is_complete : BOOLEAN]

CallsOK(calls) ==
  calls \in Seq(Calls) /\ \A i \in 1..Len(calls) : calls[i].op = "push" => calls[i].item \in Items

LoopOK(l) ==
  /\ l \in Loops /\ CallsOK(l.todo)
  /\ l.pos <= Len(l.tags) + 1 /\ (l.todo # <<>> => l.pos <= Len(l.tags))
  /\ l.complete_ports \subseteq ToSet(l.tags)
  /\ \A t \in TagSet : l.cur_port[t] \in 1..Len(Groups[t])
  /\ l.is_complete => l.todo = <<>>

Queues == {f \in [Edges -> Seq(Items)] : \A e \in Edges : Len(f[e]) <= Capacity}

TypeInv ==
  /\ q \in Queues /\ closed \in [Edges -> BOOLEAN]
  /\ held \in [Branches -> Items \cup {None}]
  /\ ended \subseteq DistInputs \cup CollOutputs \cup {Dist(b) : b \in Branches}
  /\ sent \in [TagSet -> Seq(Items)] /\ got \in [TagSet -> Seq(Items)]
  /\ LoopOK(distrib) /\ LoopOK(collate)

LEMMA QueueSteps ==
  ASSUME NEW f \in Queues, NEW e \in Edges
  PROVE  /\ f[e] \in Seq(Items)
         /\ f[e] # <<>> => Head(f[e]) \in Items /\ [f EXCEPT ![e] = Tail(@)] \in Queues
         /\ \A x \in Items : Len(f[e]) < Capacity => [f EXCEPT ![e] = Append(@, x)] \in Queues
         /\ [f EXCEPT ![e] = <<>>] \in Queues
<1>1. f \in [Edges -> Seq(Items)] /\ \A d \in Edges : Len(f[d]) <= Capacity
  BY DEF Queues
<1>2. Capacity \in Nat /\ f[e] \in Seq(Items)
  BY <1>1, FlowAssumption
<1>3. ASSUME NEW s \in Seq(Items), Len(s) <= Capacity PROVE [f EXCEPT ![e] = s] \in Queues
  BY <1>1, <1>3 DEF Queues
<1>4. ASSUME f[e] # <<>>
      PROVE  Head(f[e]) \in Items /\ [f EXCEPT ![e] = Tail(@)] \in Queues
  <2>1. /\ Head(f[e]) \in Items /\ Tail(f[e]) \in Seq(Items) /\ Len(Tail(f[e])) = Len(f[e]) - 1
        /\ Len(f[e]) \in Nat
    BY <1>2, <1>4, SomeLists
  <2>2. Len(Tail(f[e])) <= Capacity
    BY <1>1, <1>2, <2>1
  <2> QED BY <1>3, <2>1, <2>2
<1>5. ASSUME NEW x \in Items, Len(f[e]) < Capacity PROVE [f EXCEPT ![e] = Append(@, x)] \in Queues
  <2>1. Append(f[e], x) \in Seq(Items) /\ Len(Append(f[e], x)) = Len(f[e]) + 1 /\ Len(f[e]) \in Nat
    BY <1>2, SomeLists
  <2>2. Len(Append(f[e], x)) <= Capacity
    BY <1>2, <1>5, <2>1
  <2> QED BY <1>3, <2>1, <2>2
<1>6. [f EXCEPT ![e] = <<>>] \in Queues
  <2>1. <<>> \in Seq(Items) /\ Len(<<>>) <= Capacity
    BY <1>2
  <2> QED BY <1>3, <2>1
<1> QED
  BY <1>2, <1>4, <1>5, <1>6


LEMMA PushedQueue ==
  ASSUME q \in Queues, NEW e \in Edges, NEW x \in Items, CanPush(e)
  PROVE  Pushed(e, x) \in Queues
BY QueueSteps DEF CanPush, Pushed

LEMMA ClosedEdges ==
  ASSUME q \in Queues, closed \in [Edges -> BOOLEAN], NEW es, Close(es)
  PROVE  q' \in Queues /\ closed' \in [Edges -> BOOLEAN]
<1>1. /\ closed' = [e \in Edges |-> closed[e] \/ e \in es]
      /\ q' = [e \in Edges |-> IF e \in es THEN <<>> ELSE q[e]]
  BY DEF Close
<1>2. \A e \in Edges : (closed[e] \/ e \in es) \in BOOLEAN
  OBVIOUS
<1>3. closed' \in [Edges -> BOOLEAN]
  BY <1>1, <1>2
<1>4. <<>> \in Seq(Items) /\ Len(<<>>) <= Capacity
  BY FlowAssumption
<1>5. \A e \in Edges : q[e] \in Seq(Items) /\ Len(q[e]) <= Capacity
  BY DEF Queues
<1>6. q' \in Queues
  BY <1>1, <1>4, <1>5 DEF Queues
<1> QED
  BY <1>3, <1>6

(* What the steps do with the loops.                                       *)
LEMMA LoopParts ==
  ASSUME NEW l, LoopOK(l)
  PROVE  /\ l = [tags |-> l.tags, pos |-> l.pos, todo |-> l.todo, cur_port |-> l.cur_port,
                 complete_ports |-> l.complete_ports, is_complete |-> l.is_complete]
         /\ l.tags \in Seq(TagSet) /\ l.pos \in Nat \ {0} /\ l.todo \in Seq(Calls)
         /\ l.cur_port \in [TagSet -> Nat] /\ l.complete_ports \subseteq TagSet
         /\ l.is_complete \in BOOLEAN /\ Len(l.tags) \in Nat
         /\ l.pos <= Len(l.tags) => Turn(l) \in TagSet /\ Turn(l) \in ToSet(l.tags)
         /\ ToSet(l.tags) \subseteq TagSet
         /\ \A i \in 1..Len(l.todo) : l.todo[i] \in Calls
         /\ Due(l) # "none" => l.todo # <<>> /\ Head(l.todo) \in Calls /\ Due(l) = Head(l.todo).op
                               /\ Head(l.todo) = l.todo[1] /\ Len(l.todo) >= 1
<1>1. /\ l.tags \in Seq(TagSet) /\ l.pos \in Nat \ {0} /\ l.todo \in Seq(Calls)
      /\ l.cur_port \in [TagSet -> Nat] /\ l.complete_ports \subseteq TagSet
      /\ l.is_complete \in BOOLEAN
      /\ l = [tags |-> l.tags, pos |-> l.pos, todo |-> l.todo, cur_port |-> l.cur_port,
              complete_ports |-> l.complete_ports, is_complete |-> l.is_complete]
  BY DEF LoopOK, Loops
<1>2. Len(l.tags) \in Nat /\ DOMAIN l.tags = 1..Len(l.tags) /\ \A i \in 1..Len(l.tags) : l.tags[i] \in TagSet
  BY <1>1, SomeLists
<1>3. \A i \in 1..Len(l.todo) : l.todo[i] \in Calls
  BY <1>1, SomeLists
<1>4. l.todo # <<>> => Head(l.todo) \in Calls /\ Head(l.todo) = l.todo[1] /\ Len(l.todo) >= 1
  BY <1>1, SomeLists
<1>5. Due(l) # "none" => l.todo # <<>> /\ Due(l) = Head(l.todo).op
  BY DEF Due, None
<1>6. l.pos <= Len(l.tags) => Turn(l) \in TagSet /\ Turn(l) \in ToSet(l.tags)
  BY <1>1, <1>2 DEF Turn, ToSet
<1>7. ToSet(l.tags) \subseteq TagSet
  BY <1>2 DEF ToSet
<1> QED
  BY <1>1, <1>2, <1>3, <1>4, <1>5, <1>6, <1>7

LEMMA LoopStarted ==
  ASSUME NEW l, LoopOK(l), Idle(l), NEW x \in Items, NEW calls, CallsOK(calls)
  PROVE  /\ LoopOK(Started(l, x, calls)) /\ Turn(l) \in TagSet
         /\ Started(l, x, calls) =
              [tags |-> l.tags, pos |-> l.pos, todo |-> calls,
               cur_port |-> [l.cur_port EXCEPT ![Turn(l)] = Next_port(l, Turn(l), x)],
               complete_ports |-> IF x.type = "complete" THEN l.complete_ports \cup {Turn(l)}
                                  ELSE l.complete_ports,
               is_complete |-> l.is_complete]
<1> DEFINE t == Turn(l)
           port == Next_port(l, t, x)
           cp == [l.cur_port EXCEPT ![t] = port]
           done == IF x.type = "complete" THEN l.complete_ports \cup {t} ELSE l.complete_ports
<1>1. /\ l = [tags |-> l.tags, pos |-> l.pos, todo |-> l.todo, cur_port |-> l.cur_port,
              complete_ports |-> l.complete_ports, is_complete |-> l.is_complete]
      /\ l.tags \in Seq(TagSet) /\ l.pos \in Nat \ {0}
      /\ l.cur_port \in [TagSet -> Nat] /\ l.complete_ports \subseteq TagSet
      /\ l.is_complete \in BOOLEAN /\ Len(l.tags) \in Nat
      /\ t \in TagSet /\ t \in ToSet(l.tags)
  BY LoopParts DEF Idle
<1>2. Started(l, x, calls) =
        [tags |-> l.tags, pos |-> l.pos, todo |-> calls, cur_port |-> cp,
         complete_ports |-> done, is_complete |-> l.is_complete]
  <2>1. Started(l, x, calls) = [l EXCEPT !.todo = calls, !.cur_port = cp, !.complete_ports = done]
    BY DEF Started
  <2> HIDE DEF t, cp, done
  <2> QED BY <1>1, <2>1
<1>3. port \in 1..Len(Groups[t]) /\ port \in Nat
  <2>1. Len(Groups[t]) \in Nat \ {0} /\ l.cur_port[t] \in 1..Len(Groups[t]) /\ l.cur_port[t] \in Nat
    BY <1>1, ThePorts DEF LoopOK
  <2>2. (l.cur_port[t] % Len(Groups[t])) + 1 \in 1..Len(Groups[t])
    BY <2>1, TurnsAround
  <2> QED BY <2>1, <2>2 DEF Next_port
<1>4. /\ cp \in [TagSet -> Nat] /\ done \subseteq TagSet /\ done \subseteq ToSet(l.tags)
      /\ \A u \in TagSet : cp[u] \in 1..Len(Groups[u])
  <2>1. \A u \in TagSet : l.cur_port[u] \in 1..Len(Groups[u])
    BY DEF LoopOK
  <2>2. l.complete_ports \subseteq ToSet(l.tags)
    BY DEF LoopOK
  <2> HIDE DEF port, t
  <2> QED BY <1>1, <1>3, <2>1, <2>2
<1>5. l.pos <= Len(l.tags) /\ l.is_complete = FALSE
  BY <1>1 DEF Idle
<1> HIDE DEF cp, done, port, t
<1> DEFINE m == [tags |-> l.tags, pos |-> l.pos, todo |-> calls, cur_port |-> cp,
                 complete_ports |-> done, is_complete |-> l.is_complete]
<1>6. m \in Loops
  <2>1. calls \in Seq(Calls)
    BY DEF CallsOK
  <2> QED BY <1>1, <1>4, <2>1 DEF Loops
<1>7. LoopOK(m)
  <2>1. /\ m.tags = l.tags /\ m.pos = l.pos /\ m.todo = calls /\ m.cur_port = cp
        /\ m.complete_ports = done /\ m.is_complete = l.is_complete
    OBVIOUS
  <2> HIDE DEF m
  <2> QED BY <1>1, <1>4, <1>5, <1>6, <2>1 DEF LoopOK
<1>8. LoopOK(Started(l, x, calls))
  BY <1>2, <1>7
<1> QED
  BY <1>1, <1>2, <1>8 DEF cp, done, port, t

LEMMA LoopCalled ==
  ASSUME NEW l, LoopOK(l), l.todo # <<>>
  PROVE  LET m == Called(l, Tail(l.todo))
         IN  /\ LoopOK(m) /\ m.tags = l.tags /\ m.cur_port = l.cur_port /\ m.todo = Tail(l.todo)
             /\ m.complete_ports = l.complete_ports /\ m.is_complete = l.is_complete
             /\ m.todo # <<>> => Turn(m) = Turn(l)
<1> DEFINE rest == Tail(l.todo)
           pos == IF rest = <<>> THEN l.pos + 1 ELSE l.pos
           m == Called(l, rest)
<1>1. /\ l = [tags |-> l.tags, pos |-> l.pos, todo |-> l.todo, cur_port |-> l.cur_port,
              complete_ports |-> l.complete_ports, is_complete |-> l.is_complete]
      /\ l.tags \in Seq(TagSet) /\ l.pos \in Nat \ {0}
      /\ l.cur_port \in [TagSet -> Nat] /\ l.complete_ports \subseteq TagSet
      /\ l.is_complete \in BOOLEAN /\ Len(l.tags) \in Nat /\ l.todo \in Seq(Calls)
  BY LoopParts
<1>2. m = [l EXCEPT !.todo = rest, !.pos = pos]
  BY DEF Called
<1>3. /\ rest \in Seq(Calls) /\ Len(rest) = Len(l.todo) - 1
      /\ \A i \in 1..Len(rest) : i + 1 \in 1..Len(l.todo) /\ rest[i] = l.todo[i + 1]
  <2>1. /\ rest \in Seq(Calls) /\ Len(rest) = Len(l.todo) - 1 /\ Len(l.todo) \in Nat
        /\ \A i \in 1..(Len(l.todo) - 1) : rest[i] = l.todo[i + 1]
    BY <1>1, SomeLists
  <2> HIDE DEF rest
  <2> QED BY <2>1
<1>4. CallsOK(rest)
  BY <1>3 DEF CallsOK, LoopOK
<1> HIDE DEF rest
<1>5. /\ pos \in Nat \ {0} /\ pos <= Len(l.tags) + 1 /\ (rest # <<>> => pos <= Len(l.tags))
      /\ rest # <<>> => pos = l.pos
  BY <1>1 DEF LoopOK
<1> HIDE DEF pos, m
<1>6. /\ m = [tags |-> l.tags, pos |-> pos, todo |-> rest, cur_port |-> l.cur_port,
              complete_ports |-> l.complete_ports, is_complete |-> l.is_complete]
  BY <1>1, <1>2
<1>7. /\ m.tags = l.tags /\ m.pos = pos /\ m.todo = rest /\ m.cur_port = l.cur_port
      /\ m.complete_ports = l.complete_ports /\ m.is_complete = l.is_complete
  BY <1>6
<1>8. m \in Loops
  BY <1>1, <1>3, <1>5, <1>6 DEF Loops
<1>9. LoopOK(m)
  BY <1>4, <1>5, <1>7, <1>8 DEF LoopOK
<1>10. m.todo # <<>> => Turn(m) = Turn(l)
  BY <1>5, <1>7 DEF Turn
<1> QED
  BY <1>7, <1>9, <1>10 DEF m, rest

LEMMA LoopEnds ==
  ASSUME NEW l, LoopOK(l), StepDone(l), NEW outputs
  PROVE  LET m == NextStep(l, outputs)
         IN  /\ LoopOK(m) /\ m.todo = <<>> /\ m.cur_port = l.cur_port
             /\ m.is_complete = IsDone(l, outputs) /\ m.complete_ports = {}
             /\ ToSet(m.tags) = ToSet(l.tags) \ l.complete_ports
<1> DEFINE m == NextStep(l, outputs)
           done == IsDone(l, outputs)
           rest == Rest(l)
<1>1. /\ l = [tags |-> l.tags, pos |-> l.pos, todo |-> l.todo, cur_port |-> l.cur_port,
              complete_ports |-> l.complete_ports, is_complete |-> l.is_complete]
      /\ l.tags \in Seq(TagSet) /\ l.cur_port \in [TagSet -> Nat]
  BY LoopParts
<1>2. rest \in Seq(TagSet) /\ ToSet(rest) = ToSet(l.tags) \ l.complete_ports
  <2>1. \A t \in Seq(TagSet) : ToSet(t) = Elems(t)
    BY SomeLists DEF ToSet, Elems
  <2>2. /\ rest \in Seq(TagSet)
        /\ Elems(rest) = Elems(l.tags) \cap (ToSet(l.tags) \ l.complete_ports)
    BY <1>1, ChosenElements DEF Rest
  <2> HIDE DEF rest
  <2> QED BY <1>1, <2>1, <2>2
<1>3. done \in BOOLEAN
  BY DEF IsDone
<1>4. m = [l EXCEPT !.tags = rest, !.pos = 1, !.complete_ports = {}, !.is_complete = done]
  BY DEF NextStep
<1>5. l.todo = <<>>
  BY DEF StepDone
<1> HIDE DEF m, done, rest
<1>6. m = [tags |-> rest, pos |-> 1, todo |-> <<>>, cur_port |-> l.cur_port,
           complete_ports |-> {}, is_complete |-> done]
  BY <1>1, <1>4, <1>5
<1>7. /\ m.tags = rest /\ m.pos = 1 /\ m.todo = <<>> /\ m.cur_port = l.cur_port
      /\ m.complete_ports = {} /\ m.is_complete = done
  BY <1>6
<1>8. m \in Loops
  <2>1. <<>> \in Seq(Calls) /\ 1 \in Nat \ {0}
    OBVIOUS
  <2> QED BY <1>1, <1>2, <1>3, <1>6, <2>1 DEF Loops
<1>9. Len(rest) \in Nat
  BY <1>2, SomeLists
<1>10. CallsOK(<<>>)
  BY DEF CallsOK
<1>11. LoopOK(m)
  BY <1>7, <1>8, <1>9, <1>10 DEF LoopOK
<1> QED
  BY <1>2, <1>7, <1>11 DEF m, done, rest


-----------------------------------------------------------------------------
(* The calls of a turn.                                                    *)

Stat(x)    == IF Control(x) THEN x ELSE [x EXCEPT !.type = "empty"]
Apart(calls) == \A i, j \in 1..Len(calls) : i # j => calls[i].edge # calls[j].edge
Calling(calls, e) == \E i \in 1..Len(calls) : calls[i].edge = e

LEMMA CallParts ==
  /\ \A e, x : Push(e, x).op = "push" /\ Push(e, x).edge = e /\ Push(e, x).item = x
  /\ \A e : Grab(e).op = "grab" /\ Grab(e).edge = e /\ Forward(e).op = "forward" /\ Forward(e).edge = e
  /\ \A e \in Edges : \A x \in Items : Push(e, x) \in Calls
  /\ \A e \in Edges : Grab(e) \in Calls /\ Forward(e) \in Calls
  /\ \A x \in Items : Stat(x) \in Items /\ Stat(x).no = x.no
                      /\ (Control(Stat(x)) <=> Control(x)) /\ (Control(x) => Stat(x) = x)
                      /\ (Stat(x).type = "complete" <=> x.type = "complete")
<1>1. /\ \A e, x : Push(e, x).op = "push" /\ Push(e, x).edge = e /\ Push(e, x).item = x
      /\ \A e : Grab(e).op = "grab" /\ Grab(e).edge = e /\ Forward(e).op = "forward" /\ Forward(e).edge = e
  BY DEF Push, Grab, Forward
<1>2. \A e \in Edges : \A x \in Items : Push(e, x) \in Calls
  BY DEF Push, Calls
<1>3. \A e \in Edges : Grab(e) \in Calls /\ Forward(e) \in Calls
  BY DEF Grab, Forward, Calls
<1>4. ASSUME NEW x \in Items
      PROVE  /\ Stat(x) \in Items /\ Stat(x).no = x.no
             /\ (Control(Stat(x)) <=> Control(x)) /\ (Control(x) => Stat(x) = x)
             /\ (Stat(x).type = "complete" <=> x.type = "complete")
  <2>1. CASE Control(x)
    BY <2>1 DEF Stat
  <2>2. CASE ~Control(x)
    <3> DEFINE y == [x EXCEPT !.type = "empty"]
    <3>1. y \in Items /\ y.type = "empty" /\ y.no = x.no
      BY DEF Items
    <3>2. Stat(x) = y
      BY <2>2 DEF Stat
    <3> HIDE DEF y
    <3>3. ~Control(y) /\ x.type # "complete"
      BY <2>2, <3>1 DEF Control
    <3>4. Stat(x) \in Items /\ Stat(x).no = x.no /\ ~Control(Stat(x)) /\ Stat(x).type = "empty"
      BY <3>1, <3>2, <3>3
    <3> QED BY <2>2, <3>3, <3>4
  <2> QED BY <2>1, <2>2
<1> QED
  BY <1>1, <1>2, <1>3, <1>4

LEMMA DistributeCallsAre ==
  ASSUME NEW t \in TagSet, NEW x \in Items, LoopOK(distrib)
  PROVE  LET c == DistributeCalls(t, x)
         IN  /\ CallsOK(c) /\ Apart(c) /\ c # <<>> /\ c[1] = Push(Status(t), Stat(x))
             /\ \A i \in 1..Len(c) :
                  i # 1 => \E b \in Branches : b[1] = t /\ c[i] = Push(Dist(b), x)
             /\ \A b \in Branches :
                  Calling(c, Dist(b)) <=>
                    b[1] = t /\ (Control(x) \/ b = OfTag(t)[distrib.cur_port[t]])
<1> DEFINE n == Len(Groups[t])
           port == OfTag(t)[distrib.cur_port[t]]
           p == Push(Status(t), Stat(x))
           s == IF Control(x) THEN [i \in DOMAIN OfTag(t) |-> Push(Dist(OfTag(t)[i]), x)]
                ELSE <<Push(Dist(port), x)>>
           c == <<p>> \o s
<1>1. DistributeCalls(t, x) = c
  BY DEF DistributeCalls, Stat
<1>2. /\ n \in Nat \ {0} /\ DOMAIN OfTag(t) = 1..n /\ distrib.cur_port[t] \in 1..n
      /\ \A i \in 1..n : OfTag(t)[i] \in Branches /\ OfTag(t)[i][1] = t
      /\ \A i, j \in 1..n : OfTag(t)[i] = OfTag(t)[j] => i = j
      /\ \A b \in Branches : b[1] = t => \E i \in 1..n : b = OfTag(t)[i]
      /\ port \in Branches /\ port[1] = t
  BY ThePorts DEF LoopOK
<1> HIDE DEF n, port
<1>3. p \in Calls /\ Stat(x) \in Items /\ Status(t) \in Edges
      /\ \A b \in Branches : Push(Dist(b), x) \in Calls
  BY CallParts, TheEdges
<1>4. /\ s \in Seq(Calls)
      /\ \A i \in 1..Len(s) : \E b \in Branches : b[1] = t /\ s[i] = Push(Dist(b), x)
      /\ \A i, j \in 1..Len(s) : i # j => s[i].edge # s[j].edge
      /\ \A b \in Branches :
           (\E i \in 1..Len(s) : s[i].edge = Dist(b)) <=> b[1] = t /\ (Control(x) \/ b = port)
  <2>1. CASE Control(x)
    <3>1. s = [i \in 1..n |-> Push(Dist(OfTag(t)[i]), x)]
      BY <1>2, <2>1
    <3> HIDE DEF s
    <3>2. s \in [1..n -> Calls] /\ s \in Seq(Calls) /\ Len(s) = n
      BY <1>2, <1>3, <3>1, IsASeq
    <3>3. \A i \in 1..n : s[i] = Push(Dist(OfTag(t)[i]), x) /\ s[i].edge = Dist(OfTag(t)[i])
      BY <3>1, CallParts
    <3>4. \A i, j \in 1..n : i # j => s[i].edge # s[j].edge
      BY <1>2, <3>3, TheEdges
    <3>5. \A b \in Branches : (\E i \in 1..n : s[i].edge = Dist(b)) <=> b[1] = t
      BY <1>2, <3>3, TheEdges
    <3> QED BY <1>2, <2>1, <3>2, <3>3, <3>4, <3>5
  <2>2. CASE ~Control(x)
    <3> DEFINE y == Push(Dist(port), x)
    <3>1. s = <<y>> /\ y \in Calls /\ y.edge = Dist(port)
      BY <1>2, <1>3, <2>2, CallParts
    <3>2. y = Push(Dist(port), x)
      OBVIOUS
    <3> HIDE DEF s, y
    <3>3. s \in Seq(Calls) /\ Len(s) = 1 /\ s[1] = y
      BY <3>1
    <3>4. \A i \in 1..Len(s) : i = 1
      BY <3>3
    <3>5. \A b \in Branches : (\E i \in 1..Len(s) : s[i].edge = Dist(b)) <=> b = port
      BY <1>2, <3>1, <3>3, TheEdges
    <3> QED BY <1>2, <2>2, <3>2, <3>3, <3>4, <3>5
  <2> QED BY <2>1, <2>2
<1>5. p.op = "push" /\ p.edge = Status(t) /\ p.item = Stat(x)
  BY CallParts
<1>6. p = Push(Status(t), Stat(x))
  OBVIOUS
<1> HIDE DEF s, p
<1>7. /\ c \in Seq(Calls) /\ Len(c) = Len(s) + 1 /\ c[1] = p /\ Len(s) \in Nat
      /\ \A i \in 1..Len(c) : i = 1 \/ (i - 1 \in 1..Len(s) /\ c[i] = s[i - 1])
      /\ \A j \in 1..Len(s) : c[j + 1] = s[j] /\ j + 1 \in 1..Len(c)
  BY <1>3, <1>4, OneThenMany, SomeLists
<1> HIDE DEF c
<1>8. ASSUME NEW i \in 1..Len(c), i # 1
      PROVE  \E b \in Branches : b[1] = t /\ c[i] = Push(Dist(b), x)
  <2>1. i - 1 \in 1..Len(s) /\ c[i] = s[i - 1]
    BY <1>7, <1>8
  <2>2. PICK b \in Branches : b[1] = t /\ s[i - 1] = Push(Dist(b), x)
    BY <1>4, <2>1
  <2> QED BY <2>1, <2>2
<1>9. \A i \in 1..Len(c) : c[i].op = "push" => c[i].item \in Items
  BY <1>3, <1>5, <1>7, <1>8, CallParts
<1>10. Apart(c)
  <2> SUFFICES ASSUME NEW i \in 1..Len(c), NEW j \in 1..Len(c), i # j
               PROVE  c[i].edge # c[j].edge
    BY DEF Apart
  <2>1. \A k \in 1..Len(c) : k # 1 => c[k].edge # Status(t)
    BY <1>8, CallParts, TheEdges
  <2>2. CASE i = 1 \/ j = 1
    BY <1>5, <1>7, <2>1, <2>2
  <2>3. CASE i # 1 /\ j # 1
    <3>1. i - 1 # j - 1 /\ i - 1 \in 1..Len(s) /\ j - 1 \in 1..Len(s) /\ c[i] = s[i - 1] /\ c[j] = s[j - 1]
      BY <1>7, <2>3
    <3> QED BY <1>4, <3>1
  <2> QED BY <2>2, <2>3
<1>11. ASSUME NEW b \in Branches
       PROVE  Calling(c, Dist(b)) <=> \E i \in 1..Len(s) : s[i].edge = Dist(b)
  <2>1. c[1].edge # Dist(b)
    BY <1>5, <1>7, TheEdges
  <2>2. ASSUME NEW i \in 1..Len(c), c[i].edge = Dist(b) PROVE \E j \in 1..Len(s) : s[j].edge = Dist(b)
    <3>1. i # 1
      BY <2>1, <2>2
    <3>2. i - 1 \in 1..Len(s) /\ c[i] = s[i - 1]
      BY <1>7, <2>2, <3>1
    <3> QED BY <2>2, <3>2
  <2>3. ASSUME NEW j \in 1..Len(s), s[j].edge = Dist(b) PROVE \E i \in 1..Len(c) : c[i].edge = Dist(b)
    <3>1. c[j + 1] = s[j] /\ j + 1 \in 1..Len(c)
      BY <1>7
    <3> QED BY <2>3, <3>1
  <2> QED BY <2>2, <2>3 DEF Calling
<1>12. c # <<>>
  BY <1>7
<1> QED
  BY <1>1, <1>4, <1>6, <1>7, <1>8, <1>9, <1>10, <1>11, <1>12 DEF CallsOK, port

LEMMA CollateCallsAre ==
  ASSUME NEW t \in TagSet, NEW x \in Items, LoopOK(collate)
  PROVE  LET c == CollateCalls(t, x)
         IN  /\ CallsOK(c) /\ Apart(c) /\ c # <<>>
             /\ Control(x) => c[1] = Push(Res(t), x)
             /\ ~Control(x) => c = <<Forward(Coll(OfTag(t)[collate.cur_port[t]]))>>
                               /\ OfTag(t)[collate.cur_port[t]] \in Branches
                               /\ OfTag(t)[collate.cur_port[t]][1] = t
             /\ \A i \in 1..Len(c) : Control(x) /\ i # 1 =>
                  \E b \in Branches : b[1] = t /\ c[i] = Grab(Coll(b))
             /\ \A b \in Branches :
                  Calling(c, Coll(b)) <=>
                    b[1] = t /\ (Control(x) \/ b = OfTag(t)[collate.cur_port[t]])
<1> DEFINE n == Len(Groups[t])
           port == OfTag(t)[collate.cur_port[t]]
           p == Push(Res(t), x)
           s == [i \in DOMAIN OfTag(t) |-> Grab(Coll(OfTag(t)[i]))]
           c == CollateCalls(t, x)
<1>2. /\ n \in Nat \ {0} /\ DOMAIN OfTag(t) = 1..n
      /\ \A i \in 1..n : OfTag(t)[i] \in Branches /\ OfTag(t)[i][1] = t
      /\ \A i, j \in 1..n : OfTag(t)[i] = OfTag(t)[j] => i = j
      /\ \A b \in Branches : b[1] = t => \E i \in 1..n : b = OfTag(t)[i]
      /\ port \in Branches /\ port[1] = t
  BY ThePorts DEF LoopOK
<1>c. /\ Control(x) => c = <<p>> \o s
      /\ ~Control(x) => c = <<Forward(Coll(port))>>
  BY DEF CollateCalls
<1> HIDE DEF n, port
<1>3. CASE ~Control(x)
  <2> DEFINE y == Forward(Coll(port))
  <2>1. y \in Calls /\ y.edge = Coll(port) /\ y.op = "forward" /\ c = <<y>>
    BY <1>2, <1>3, <1>c, CallParts, TheEdges
  <2> HIDE DEF c
  <2>2. y = Forward(Coll(port))
    OBVIOUS
  <2> HIDE DEF y
  <2>3. c \in Seq(Calls) /\ Len(c) = 1 /\ c[1] = y /\ c # <<>>
    BY <2>1
  <2>4. \A i \in 1..Len(c) : i = 1
    BY <2>3
  <2>5. CallsOK(c) /\ Apart(c)
    BY <2>1, <2>3, <2>4 DEF CallsOK, Apart
  <2>6. \A b \in Branches : Calling(c, Coll(b)) <=> b = port
    BY <1>2, <2>1, <2>3, <2>4, TheEdges DEF Calling
  <2> QED BY <1>2, <1>3, <2>1, <2>2, <2>3, <2>5, <2>6 DEF c, port
<1>4. CASE Control(x)
  <2>1. p \in Calls /\ p.op = "push" /\ p.edge = Res(t) /\ p.item = x /\ Res(t) \in Edges
        /\ \A b \in Branches : Grab(Coll(b)) \in Calls
    BY CallParts, TheEdges
  <2>2. s = [i \in 1..n |-> Grab(Coll(OfTag(t)[i]))] /\ p = Push(Res(t), x) /\ c = <<p>> \o s
    BY <1>2, <1>4, <1>c
  <2> HIDE DEF c, s, p
  <2>3. s \in [1..n -> Calls] /\ s \in Seq(Calls) /\ Len(s) = n
    BY <1>2, <2>1, <2>2, IsASeq
  <2>4. \A i \in 1..n : s[i] = Grab(Coll(OfTag(t)[i])) /\ s[i].edge = Coll(OfTag(t)[i]) /\ s[i].op = "grab"
    BY <2>2, CallParts
  <2>5. \A i, j \in 1..n : i # j => s[i].edge # s[j].edge
    BY <1>2, <2>4, TheEdges
  <2>6. /\ c \in Seq(Calls) /\ Len(c) = n + 1 /\ c[1] = p
        /\ \A i \in 1..Len(c) : i = 1 \/ (i - 1 \in 1..n /\ c[i] = s[i - 1])
        /\ \A j \in 1..n : c[j + 1] = s[j] /\ j + 1 \in 1..Len(c)
    <3>1. /\ <<p>> \o s \in Seq(Calls) /\ Len(<<p>> \o s) = Len(s) + 1 /\ (<<p>> \o s)[1] = p
          /\ \A i \in 1..Len(<<p>> \o s) :
               i = 1 \/ (i - 1 \in 1..Len(s) /\ (<<p>> \o s)[i] = s[i - 1])
          /\ \A j \in 1..Len(s) : (<<p>> \o s)[j + 1] = s[j] /\ j + 1 \in 1..Len(<<p>> \o s)
      BY <2>1, <2>3, OneThenMany
    <3> QED BY <2>2, <2>3, <3>1
  <2>7. \A i \in 1..Len(c) : i # 1 => \E b \in Branches : b[1] = t /\ c[i] = Grab(Coll(b))
    BY <1>2, <2>4, <2>6
  <2>8. CallsOK(c)
    BY <2>1, <2>6, <2>7, CallParts DEF CallsOK
  <2>9. Apart(c)
    <3> SUFFICES ASSUME NEW i \in 1..Len(c), NEW j \in 1..Len(c), i # j
                 PROVE  c[i].edge # c[j].edge
      BY DEF Apart
    <3>1. \A k \in 1..Len(c) : k # 1 => c[k].edge # Res(t)
      BY <2>7, CallParts, TheEdges
    <3>2. CASE i = 1 \/ j = 1
      BY <2>1, <2>6, <3>1, <3>2
    <3>3. CASE i # 1 /\ j # 1
      <4>1. i - 1 # j - 1 /\ i - 1 \in 1..n /\ j - 1 \in 1..n /\ c[i] = s[i - 1] /\ c[j] = s[j - 1]
        BY <2>6, <3>3
      <4> QED BY <2>5, <4>1
    <3> QED BY <3>2, <3>3
  <2>10. ASSUME NEW b \in Branches PROVE Calling(c, Coll(b)) <=> b[1] = t
    <3>1. c[1].edge # Coll(b)
      BY <2>1, <2>6, TheEdges
    <3>2. b[1] = t => \E i \in 1..n : s[i].edge = Coll(b)
      BY <1>2, <2>4
    <3>3. \A i \in 1..n : s[i].edge = Coll(b) => b[1] = t
      BY <1>2, <2>4, TheEdges
    <3> QED BY <2>6, <3>1, <3>2, <3>3 DEF Calling
  <2>11. c # <<>>
    BY <1>2, <2>6
  <2> QED BY <1>4, <2>2, <2>6, <2>7, <2>8, <2>9, <2>10, <2>11 DEF c, port
<1> QED
  BY <1>3, <1>4


LEMMA LoopFetched ==
  ASSUME NEW l, LoopOK(l), l.todo # <<>>, NEW x \in Items
  PROVE  LET m == [l EXCEPT !.todo = <<Push(Res(Turn(l)), x)>>]
         IN  /\ LoopOK(m) /\ m.tags = l.tags /\ m.cur_port = l.cur_port /\ m.pos = l.pos
             /\ m.complete_ports = l.complete_ports /\ m.is_complete = l.is_complete
             /\ m.todo = <<Push(Res(Turn(l)), x)>> /\ Turn(m) = Turn(l) /\ Turn(l) \in TagSet
<1> DEFINE c == Push(Res(Turn(l)), x)
           calls == <<c>>
           m == [l EXCEPT !.todo = calls]
<1>1. /\ l = [tags |-> l.tags, pos |-> l.pos, todo |-> l.todo, cur_port |-> l.cur_port,
              complete_ports |-> l.complete_ports, is_complete |-> l.is_complete]
      /\ l.tags \in Seq(TagSet) /\ l.pos \in Nat \ {0}
      /\ l.cur_port \in [TagSet -> Nat] /\ l.complete_ports \subseteq TagSet
      /\ l.is_complete \in BOOLEAN /\ l.pos <= Len(l.tags) /\ Turn(l) \in TagSet
  BY LoopParts DEF LoopOK
<1>2. c \in Calls /\ c.item = x
  BY <1>1, CallParts, TheEdges
<1>3. calls \in Seq(Calls) /\ CallsOK(calls)
  <2> HIDE DEF c
  <2>1. calls \in Seq(Calls) /\ Len(calls) = 1 /\ calls[1] = c
    BY <1>2
  <2>2. \A i \in 1..Len(calls) : i = 1
    BY <2>1
  <2> QED BY <1>2, <2>1, <2>2 DEF CallsOK
<1>4. m = [l EXCEPT !.todo = calls]
  OBVIOUS
<1> HIDE DEF calls, m
<1>5. m = [tags |-> l.tags, pos |-> l.pos, todo |-> calls, cur_port |-> l.cur_port,
           complete_ports |-> l.complete_ports, is_complete |-> l.is_complete]
  BY <1>1, <1>4
<1>6. /\ m.tags = l.tags /\ m.pos = l.pos /\ m.todo = calls /\ m.cur_port = l.cur_port
      /\ m.complete_ports = l.complete_ports /\ m.is_complete = l.is_complete
  BY <1>5
<1>7. m \in Loops
  BY <1>1, <1>3, <1>5 DEF Loops
<1>8. calls # <<>> /\ l.is_complete = FALSE
  BY <1>1 DEF LoopOK, calls
<1>9. LoopOK(m)
  BY <1>1, <1>3, <1>6, <1>7, <1>8 DEF LoopOK
<1>10. Turn(m) = Turn(l)
  BY <1>6 DEF Turn
<1> QED
  BY <1>1, <1>6, <1>9, <1>10 DEF m, calls

-----------------------------------------------------------------------------
(* The steps keep the types.                                               *)

LEMMA TypesAtFirst == Init => TypeInv
<1> SUFFICES ASSUME Init PROVE TypeInv
  OBVIOUS
<1>1. <<>> \in Seq(Items) /\ Len(<<>>) <= Capacity /\ <<>> \in Seq(Calls) /\ CallsOK(<<>>)
  BY FlowAssumption DEF CallsOK
<1>2. q \in Queues /\ closed \in [Edges -> BOOLEAN]
  BY <1>1 DEF Init, Queues
<1>3. held \in [Branches -> Items \cup {None}] /\ ended = {}
      /\ sent \in [TagSet -> Seq(Items)] /\ got \in [TagSet -> Seq(Items)]
  BY <1>1 DEF Init
<1>4. LoopOK(Loop)
  <2> DEFINE cp == [t \in TagSet |-> 1]
  <2>1. Tags \in Seq(TagSet) /\ Len(Tags) \in Nat
    BY FlowAssumption, SomeLists
  <2>2. \A t \in TagSet : Len(Groups[t]) \in Nat \ {0}
    BY ThePorts
  <2>3. cp \in [TagSet -> Nat] /\ \A t \in TagSet : cp[t] \in 1..Len(Groups[t])
    BY <2>2
  <2>4. /\ Loop = [tags |-> Tags, pos |-> 1, todo |-> <<>>, cur_port |-> cp,
                   complete_ports |-> {}, is_complete |-> FALSE]
    BY DEF Loop
  <2> HIDE DEF cp
  <2>5. Loop \in Loops
    BY <1>1, <2>1, <2>3, <2>4 DEF Loops
  <2>6. /\ Loop.tags = Tags /\ Loop.pos = 1 /\ Loop.todo = <<>> /\ Loop.cur_port = cp
        /\ Loop.complete_ports = {} /\ Loop.is_complete = FALSE
    BY <2>4
  <2> QED BY <1>1, <2>1, <2>3, <2>5, <2>6 DEF LoopOK
<1> QED
  BY <1>2, <1>3, <1>4 DEF Init, TypeInv

LEMMA TypesDistribute ==
  ASSUME TypeInv, Distribute
  PROVE  TypeInv'
<1> USE DEF TypeInv
<1>1. CASE DistributeTurn
  <2> DEFINE t == Turn(distrib)
             x == Head(q[Src(t)])
  <2>1. Idle(distrib) /\ q[Src(t)] # <<>> /\ q' = [q EXCEPT ![Src(t)] = Tail(@)]
        /\ distrib' = Started(distrib, x, DistributeCalls(t, x))
        /\ UNCHANGED <<closed, collate, held, ended, sent, got>>
    BY <1>1 DEF DistributeTurn
  <2>2. t \in TagSet /\ Src(t) \in Edges
    BY <2>1, LoopParts, TheEdges DEF Idle
  <2>3. x \in Items /\ q' \in Queues
    BY <2>1, <2>2, QueueSteps
  <2>4. CallsOK(DistributeCalls(t, x))
    BY <2>2, <2>3, DistributeCallsAre
  <2>5. LoopOK(Started(distrib, x, DistributeCalls(t, x)))
    BY <2>1, <2>3, <2>4, LoopStarted
  <2> HIDE DEF t, x
  <2> QED BY <2>1, <2>3, <2>5
<1>2. CASE DistributePush
  <2> DEFINE c == Head(distrib.todo)
  <2>1. /\ Due(distrib) = "push" /\ CanPush(c.edge) /\ q' = Pushed(c.edge, c.item)
        /\ distrib' = Called(distrib, Tail(distrib.todo))
        /\ UNCHANGED <<closed, collate, held, ended, sent, got>>
    BY <1>2 DEF DistributePush
  <2>2. c \in Calls /\ c.op = "push" /\ c = distrib.todo[1] /\ 1 \in 1..Len(distrib.todo)
        /\ distrib.todo # <<>>
    BY <2>1, LoopParts, SomeLists
  <2>3. c.edge \in Edges /\ c.item \in Items
    BY <2>2 DEF Calls, LoopOK, CallsOK
  <2>4. q' \in Queues
    BY <2>1, <2>3, PushedQueue
  <2>5. LoopOK(Called(distrib, Tail(distrib.todo)))
    BY <2>2, LoopCalled
  <2> QED BY <2>1, <2>4, <2>5
<1>3. CASE DistributeEndStep
  <2>1. LoopOK(NextStep(distrib, DistOutputs))
    BY <1>3, LoopEnds DEF DistributeEndStep
  <2>2. q' \in Queues /\ closed' \in [Edges -> BOOLEAN]
    BY <1>3, ClosedEdges DEF DistributeEndStep
  <2> QED BY <1>3, <2>1, <2>2 DEF DistributeEndStep
<1> QED
  BY <1>1, <1>2, <1>3 DEF Distribute

LEMMA TypesCollate ==
  ASSUME TypeInv, Collate
  PROVE  TypeInv'
<1> USE DEF TypeInv
<1>1. CASE CollateTurn
  <2> DEFINE t == Turn(collate)
             x == Head(q[Status(t)])
  <2>1. Idle(collate) /\ q[Status(t)] # <<>> /\ q' = [q EXCEPT ![Status(t)] = Tail(@)]
        /\ collate' = Started(collate, x, CollateCalls(t, x))
        /\ UNCHANGED <<closed, distrib, held, ended, sent, got>>
    BY <1>1 DEF CollateTurn
  <2>2. t \in TagSet /\ Status(t) \in Edges
    BY <2>1, LoopParts, TheEdges DEF Idle
  <2>3. x \in Items /\ q' \in Queues
    BY <2>1, <2>2, QueueSteps
  <2>4. CallsOK(CollateCalls(t, x))
    BY <2>2, <2>3, CollateCallsAre
  <2>5. LoopOK(Started(collate, x, CollateCalls(t, x)))
    BY <2>1, <2>3, <2>4, LoopStarted
  <2> HIDE DEF t, x
  <2> QED BY <2>1, <2>3, <2>5
<1>2. CASE CollatePush
  <2> DEFINE c == Head(collate.todo)
  <2>1. /\ Due(collate) = "push" /\ CanPush(c.edge) /\ q' = Pushed(c.edge, c.item)
        /\ collate' = Called(collate, Tail(collate.todo))
        /\ UNCHANGED <<closed, distrib, held, ended, sent, got>>
    BY <1>2 DEF CollatePush
  <2>2. c \in Calls /\ c.op = "push" /\ c = collate.todo[1] /\ 1 \in 1..Len(collate.todo)
        /\ collate.todo # <<>>
    BY <2>1, LoopParts, SomeLists
  <2>3. c.edge \in Edges /\ c.item \in Items
    BY <2>2 DEF Calls, LoopOK, CallsOK
  <2>4. q' \in Queues
    BY <2>1, <2>3, PushedQueue
  <2>5. LoopOK(Called(collate, Tail(collate.todo)))
    BY <2>2, LoopCalled
  <2> QED BY <2>1, <2>4, <2>5
<1>3. CASE CollateGrab
  <2> DEFINE c == Head(collate.todo)
             e == c.edge
  <2>1. /\ Due(collate) \in {"grab", "forward"} /\ q[e] # <<>> /\ q' = [q EXCEPT ![e] = Tail(@)]
        /\ collate' = IF Due(collate) = "grab" THEN Called(collate, Tail(collate.todo))
                      ELSE [collate EXCEPT !.todo = <<Push(Res(Turn(collate)), Head(q[e]))>>]
        /\ UNCHANGED <<closed, distrib, held, ended, sent, got>>
    BY <1>3 DEF CollateGrab
  <2>2. c \in Calls /\ collate.todo # <<>>
    BY <2>1, LoopParts
  <2>3. e \in Edges
    BY <2>2 DEF Calls
  <2> HIDE DEF c, e
  <2>4. Head(q[e]) \in Items /\ q' \in Queues
    BY <2>1, <2>3, QueueSteps
  <2>5. LoopOK(Called(collate, Tail(collate.todo)))
    BY <2>2, LoopCalled
  <2>6. LoopOK([collate EXCEPT !.todo = <<Push(Res(Turn(collate)), Head(q[e]))>>])
    BY <2>2, <2>4, LoopFetched
  <2> QED BY <2>1, <2>4, <2>5, <2>6
<1>4. CASE CollateEndStep
  <2>1. LoopOK(NextStep(collate, CollOutputs))
    BY <1>4, LoopEnds DEF CollateEndStep
  <2>2. q' \in Queues /\ closed' \in [Edges -> BOOLEAN]
    BY <1>4, ClosedEdges DEF CollateEndStep
  <2> QED BY <1>4, <2>1, <2>2 DEF CollateEndStep
<1> QED
  BY <1>1, <1>2, <1>3, <1>4 DEF Collate


LEMMA TypesSource ==
  ASSUME TypeInv, NEW t \in TagSet, SourcePush(t)
  PROVE  TypeInv'
<1> USE DEF TypeInv
<1>1. PICK k \in Kinds[t] \cup {"complete"} :
        LET x == [type |-> k, no |-> Len(sent[t]) + 1]
        IN  /\ CanPush(Src(t)) /\ q' = Pushed(Src(t), x)
            /\ sent' = [sent EXCEPT ![t] = Append(@, x)]
            /\ ended' = IF k = "complete" \/ closed[Src(t)] THEN ended \cup {Src(t)} ELSE ended
  <2>1. (IF Len(sent[t]) < MaxItems[t] THEN Kinds[t] \cup {"complete"} ELSE {"complete"})
          \subseteq Kinds[t] \cup {"complete"}
    OBVIOUS
  <2> QED BY <2>1 DEF SourcePush
<1> DEFINE x == [type |-> k, no |-> Len(sent[t]) + 1]
<1>2. x \in Items
  <2>1. Kinds[t] \subseteq {"data", "flush"} /\ Len(sent[t]) \in Nat
    BY FlowAssumption, SomeLists
  <2> QED BY <2>1 DEF Items
<1> HIDE DEF x
<1>3. Src(t) \in Edges /\ Src(t) \in DistInputs
  BY TheEdges DEF DistInputs
<1>4. q' \in Queues
  BY <1>1, <1>2, <1>3, PushedQueue DEF x
<1>5. sent' \in [TagSet -> Seq(Items)]
  <2>1. sent' = [sent EXCEPT ![t] = Append(@, x)]
    BY <1>1 DEF x
  <2>2. Append(sent[t], x) \in Seq(Items)
    BY <1>2, SomeLists
  <2> QED BY <2>1, <2>2
<1>6. ended' \subseteq DistInputs \cup CollOutputs \cup {Dist(b) : b \in Branches}
  BY <1>1, <1>3
<1>7. UNCHANGED <<closed, distrib, collate, held, got>>
  BY DEF SourcePush
<1> QED
  BY <1>4, <1>5, <1>6, <1>7

LEMMA TypesWorker ==
  ASSUME TypeInv, NEW b \in Branches, Worker(b)
  PROVE  TypeInv'
<1> USE DEF TypeInv
<1>0. Dist(b) \in Edges /\ Coll(b) \in Edges
  BY TheEdges
<1>1. CASE WorkerGrab(b)
  <2>1. /\ q[Dist(b)] # <<>> /\ held' = [held EXCEPT ![b] = Head(q[Dist(b)])]
        /\ q' = [q EXCEPT ![Dist(b)] = Tail(@)]
        /\ UNCHANGED <<closed, distrib, collate, ended, sent, got>>
    BY <1>1 DEF WorkerGrab
  <2>2. Head(q[Dist(b)]) \in Items /\ q' \in Queues
    BY <1>0, <2>1, QueueSteps
  <2> QED BY <2>1, <2>2
<1>2. CASE WorkerPush(b)
  <2>1. held[b] \in Items
    BY <1>2 DEF WorkerPush
  <2>2. CanPush(Coll(b)) /\ held' = [held EXCEPT ![b] = None]
        /\ UNCHANGED <<distrib, collate, sent, got>>
    BY <1>2 DEF WorkerPush
  <2> DEFINE p == Pushed(Coll(b), held[b])
  <2>3. p \in Queues
    BY <1>0, <2>1, <2>2, PushedQueue
  <2>4. CASE held[b].type = "complete" \/ closed[Coll(b)]
    <3>1. /\ ended' = ended \cup {Dist(b)} /\ closed' = [closed EXCEPT ![Dist(b)] = TRUE]
          /\ q' = [p EXCEPT ![Dist(b)] = <<>>]
      BY <1>2, <2>4 DEF WorkerPush
    <3> HIDE DEF p
    <3>2. q' \in Queues
      BY <1>0, <2>3, <3>1, QueueSteps
    <3> QED BY <2>2, <3>1, <3>2
  <2>5. CASE ~(held[b].type = "complete" \/ closed[Coll(b)])
    <3>1. q' = p /\ UNCHANGED <<ended, closed>>
      BY <1>2, <2>5 DEF WorkerPush
    <3> QED BY <2>2, <2>3, <3>1
  <2> QED BY <2>4, <2>5
<1> QED
  BY <1>1, <1>2 DEF Worker

LEMMA TypesRead ==
  ASSUME TypeInv, NEW t \in TagSet, NEW ends, Read(t, ends)
  PROVE  TypeInv'
<1> USE DEF TypeInv
<1>1. Res(t) \in Edges /\ Res(t) \in CollOutputs /\ q[Res(t)] # <<>>
      /\ got' = [got EXCEPT ![t] = Append(@, Head(q[Res(t)]))]
      /\ UNCHANGED <<distrib, collate, held, sent>>
  BY TheEdges DEF Read, CollOutputs
<1>2. Head(q[Res(t)]) \in Items /\ [q EXCEPT ![Res(t)] = Tail(@)] \in Queues
  BY <1>1, QueueSteps
<1>3. got' \in [TagSet -> Seq(Items)]
  <2>1. Append(got[t], Head(q[Res(t)])) \in Seq(Items)
    BY <1>2, SomeLists
  <2> QED BY <1>1, <2>1
<1>4. CASE ends
  <2>1. ended' = ended \cup {Res(t)} /\ Close({Res(t)})
    BY <1>4 DEF Read
  <2>2. q' \in Queues /\ closed' \in [Edges -> BOOLEAN]
    BY <2>1, ClosedEdges
  <2> QED BY <1>1, <1>3, <2>1, <2>2
<1>5. CASE ~ends
  <2>1. q' = [q EXCEPT ![Res(t)] = Tail(@)] /\ UNCHANGED <<ended, closed>>
    BY <1>5 DEF Read
  <2> QED BY <1>1, <1>2, <1>3, <2>1
<1> QED
  BY <1>4, <1>5

(* The steps there are, the one list of them for the proofs below.         *)
LEMMA TheSteps ==
  ASSUME [Next]_vars
  PROVE  \/ Distribute \/ Collate
         \/ \E t \in TagSet : SourcePush(t)
         \/ \E t \in TagSet : \E ends \in BOOLEAN :
              Read(t, ends) /\ (~ends => Head(q[Res(t)]).type # "complete")
         \/ \E b \in Branches : Worker(b)
         \/ UNCHANGED vars
<1>1. ASSUME NEW t \in TagSet, ReaderGrab(t)
      PROVE  \E ends \in BOOLEAN : Read(t, ends) /\ (~ends => Head(q[Res(t)]).type # "complete")
  <2> DEFINE ends == Head(q[Res(t)]).type = "complete"
  <2>1. Read(t, ends) /\ ends \in BOOLEAN /\ (~ends => Head(q[Res(t)]).type # "complete")
    BY <1>1 DEF ReaderGrab
  <2> QED BY <2>1
<1>2. \A t \in TagSet : ReaderStop(t) => Read(t, TRUE)
  BY DEF ReaderStop
<1> QED
  BY <1>1, <1>2 DEF Next, Progress, Joined

LEMMA TypesKept == TypeInv /\ [Next]_vars => TypeInv'
<1> SUFFICES ASSUME TypeInv, [Next]_vars PROVE TypeInv'
  OBVIOUS
<1>1. CASE UNCHANGED vars
  BY <1>1 DEF vars, TypeInv
<1> QED
  BY <1>1, TheSteps, TypesDistribute, TypesCollate, TypesSource, TypesWorker, TypesRead

(* At any time every edge holds proper items and no more than it may, the  *)
(* iterators of both loops are in their range, whatever the tags, the      *)
(* ports and the capacity.                                                 *)
THEOREM TypesCorrect == Spec => []TypeOK
<1>1. TypeInv => TypeOK
  BY DEF TypeInv, TypeOK, Queues, LoopOK, Loops
<1> QED
  BY <1>1, TypesAtFirst, TypesKept, PTL DEF Spec


-----------------------------------------------------------------------------
(* The inductive invariant of the order.  Once collate is complete nobody  *)
(* moves a datum on any more; until then, which Live says, the numbers of  *)
(* the items tell where each of them is.                                   *)

Live         == ~collate.is_complete
Ports(t)     == Len(Groups[t])
PortOf(t, k) == OfTag(t)[((k - 1) % Ports(t)) + 1]

(* The k-th item x of its tag goes through the branch.                     *)
Through(b, x, k) == Control(x) \/ b = PortOf(b[1], k)

(* How many items of the tag distribute has taken up, and how many of them *)
(* collate has been told of and has taken up.                              *)
Told(t)      == IF distrib.todo # <<>> /\ distrib.todo[1].edge = Status(t) THEN 1 ELSE 0
Taken(t)     == Len(sent[t]) - Len(q[Src(t)])
Seen(t)      == (Taken(t) - Told(t)) - Len(q[Status(t)])
Complete(s, k) == k >= 1 /\ s[k].type = "complete"
Completed(t)   == Complete(sent[t], Taken(t))

(* Whether collate has still to pass its last item of the tag on.          *)
Owed(t) ==
  IF collate.todo # <<>> /\ Turn(collate) = t /\ collate.todo[1].op # "grab" THEN 1 ELSE 0

(* The items under way on a branch, the oldest first; the one distribute   *)
(* has still to push there; the last one collate has fetched from there,   *)
(* or has seen go elsewhere.                                               *)
Hand(b)    == IF held[b] = None THEN <<>> ELSE <<held[b]>>
Line(b)    == (q[Coll(b)] \o Hand(b)) \o q[Dist(b)]
Coming(b)  == IF Calling(distrib.todo, Dist(b)) THEN {Taken(b[1])} ELSE {}
Fetched(b) == IF Calling(collate.todo, Coll(b)) THEN Seen(b[1]) - 1 ELSE Seen(b[1])

SentOK(t) ==
  \A k \in 1..Len(sent[t]) :
    /\ sent[t][k].no = k
    /\ sent[t][k].type = "complete" => k = Len(sent[t]) /\ Src(t) \in ended

ResOK(t) ==
  /\ Len(got[t]) + Len(q[Res(t)]) <= Len(sent[t])
  /\ \A i \in 1..Len(got[t]) : got[t][i] = sent[t][i]
  /\ \A j \in 1..Len(q[Res(t)]) : q[Res(t)][j] = sent[t][Len(got[t]) + j]

DistOK(t) ==
  /\ Taken(t) >= 0
  /\ \A j \in 1..Len(q[Src(t)]) : q[Src(t)][j] = sent[t][Taken(t) + j]
  /\ (t \notin ToSet(distrib.tags) \/ t \in distrib.complete_ports \/ closed[Src(t)]) => Completed(t)
  /\ ~Completed(t) => distrib.cur_port[t] = (Taken(t) % Ports(t)) + 1

CollOK(t) ==
  /\ Seen(t) >= 0
  /\ \A j \in 1..Len(q[Status(t)]) : q[Status(t)][j] = Stat(sent[t][Seen(t) + j])
  /\ ~Complete(sent[t], Seen(t)) => collate.cur_port[t] = (Seen(t) % Ports(t)) + 1
  /\ ~closed[Status(t)]
  /\ ~closed[Res(t)] => Len(got[t]) + Len(q[Res(t)]) = Seen(t) - Owed(t)

(* The calls that distribute and collate have still to make for the k-th   *)
(* item x of the tag.                                                      *)
DistCalls(todo, t, x, k) ==
  todo # <<>> =>
    /\ k >= 1 /\ Apart(todo)
    /\ \A i \in 1..Len(todo) : \/ i = 1 /\ todo[i] = Push(Status(t), Stat(x))
                               \/ \E b \in Branches : b[1] = t /\ todo[i] = Push(Dist(b), x)

CollCalls(todo, t, x, k) ==
  todo # <<>> =>
    /\ k >= 1 /\ Apart(todo)
    /\ ~Control(x) => Len(todo) = 1
    /\ \A i \in 1..Len(todo) :
         \/ i = 1 /\ todo[i] = Push(Res(t), x)
         \/ \E b \in Branches : /\ b[1] = t /\ Through(b, x, k)
                                /\ \/ Control(x) /\ todo[i] = Grab(Coll(b))
                                   \/ ~Control(x) /\ todo[i] = Forward(Coll(b))

DistTodoOK ==
  LET t == Turn(distrib) IN DistCalls(distrib.todo, t, sent[t][Taken(t)], Taken(t))
CollTodoOK ==
  LET t == Turn(collate) IN CollCalls(collate.todo, t, sent[t][Seen(t)], Seen(t))

(* The items l of a branch and those to come are, in order, those of the   *)
(* first n items of s that go through it and come after the f-th.          *)
Numbers(l) == {l[i].no : i \in 1..Len(l)}
Flows(b, s, n, l, coming, f) ==
  /\ \A i \in 1..Len(l) : l[i].no \in 1..n /\ l[i] = s[l[i].no]
  /\ \A i, j \in 1..Len(l) : i < j => l[i].no < l[j].no
  /\ \A i \in 1..Len(l) : \A k \in coming : l[i].no < k
  /\ Numbers(l) \cup coming = {k \in 1..n : Through(b, s[k], k) /\ f < k}

BranchOK(b) ==
  /\ Flows(b, sent[b[1]], Taken(b[1]), Line(b), Coming(b), Fetched(b))
  /\ ~closed[Coll(b)]
  /\ closed[Dist(b)] => Completed(b[1]) /\ Coming(b) = {}

OutputsOnly == \A i \in 1..Len(distrib.todo) : distrib.todo[i].edge \in DistOutputs

OrderInv ==
  /\ \A t \in TagSet : SentOK(t) /\ ResOK(t)
  /\ OutputsOnly
  /\ Live => /\ \A t \in TagSet : DistOK(t) /\ CollOK(t)
             /\ DistTodoOK /\ CollTodoOK
             /\ \A b \in Branches : BranchOK(b)


-----------------------------------------------------------------------------
(* What the steps do to the items of a branch.                             *)

(* A source that goes on.                                                  *)
LEMMA FlowsOn ==
  ASSUME NEW b, NEW s, NEW s2, NEW n \in Nat, NEW l, NEW coming, NEW f,
         \A k \in 1..n : s2[k] = s[k], Flows(b, s, n, l, coming, f)
  PROVE  Flows(b, s2, n, l, coming, f)
<1>1. \A i \in 1..Len(l) : l[i].no \in 1..n /\ l[i] = s2[l[i].no]
  BY DEF Flows
<1>2. {k \in 1..n : Through(b, s2[k], k) /\ f < k} = {k \in 1..n : Through(b, s[k], k) /\ f < k}
  OBVIOUS
<1> QED
  BY <1>1, <1>2 DEF Flows

(* distribute takes up the next item.                                      *)
LEMMA FlowsTaken ==
  ASSUME NEW b, NEW s, NEW n \in Nat, NEW l, NEW f \in Int, f <= n, Flows(b, s, n, l, {}, f)
  PROVE  Flows(b, s, n + 1, l, IF Through(b, s[n + 1], n + 1) THEN {n + 1} ELSE {}, f)
<1> DEFINE c == IF Through(b, s[n + 1], n + 1) THEN {n + 1} ELSE {}
<1>1. /\ \A i \in 1..Len(l) : l[i].no \in 1..n /\ l[i] = s[l[i].no]
      /\ \A i, j \in 1..Len(l) : i < j => l[i].no < l[j].no
      /\ Numbers(l) = {k \in 1..n : Through(b, s[k], k) /\ f < k}
  BY DEF Flows
<1>2. \A i \in 1..Len(l) : l[i].no \in 1..(n + 1) /\ \A k \in c : l[i].no < k
  BY <1>1
<1>3. {k \in 1..(n + 1) : Through(b, s[k], k) /\ f < k} =
        {k \in 1..n : Through(b, s[k], k) /\ f < k} \cup c
  <2>1. 1..(n + 1) = (1..n) \cup {n + 1} /\ f < n + 1
    OBVIOUS
  <2> QED BY <2>1
<1> HIDE DEF c
<1>4. Flows(b, s, n + 1, l, c, f)
  BY <1>1, <1>2, <1>3 DEF Flows
<1> QED
  BY <1>4 DEF c

(* distribute pushes it there.                                             *)
LEMMA FlowsPushed ==
  ASSUME NEW b, NEW s, NEW n \in Nat, NEW l \in Seq(Items), NEW f, NEW x \in Items,
         x.no = n, n >= 1, x = s[n], Flows(b, s, n, l, {n}, f)
  PROVE  Flows(b, s, n, Append(l, x), {}, f)
<1> DEFINE m == Append(l, x)
<1>1. /\ Len(l) \in Nat /\ Len(m) = Len(l) + 1 /\ m[Len(l) + 1] = x
      /\ \A i \in 1..Len(l) : m[i] = l[i]
  BY SomeLists
<1>2. /\ \A i \in 1..Len(l) : l[i].no \in 1..n /\ l[i] = s[l[i].no] /\ l[i].no < n
      /\ \A i, j \in 1..Len(l) : i < j => l[i].no < l[j].no
      /\ Numbers(l) \cup {n} = {k \in 1..n : Through(b, s[k], k) /\ f < k}
  BY DEF Flows
<1> HIDE DEF m
<1>3. \A i \in 1..Len(m) : i \in 1..Len(l) \/ i = Len(l) + 1
  BY <1>1
<1>4. \A i \in 1..Len(m) : m[i].no \in 1..n /\ m[i] = s[m[i].no]
  BY <1>1, <1>2, <1>3
<1>5. \A i, j \in 1..Len(m) : i < j => m[i].no < m[j].no
  BY <1>1, <1>2, <1>3
<1>6. Numbers(m) = Numbers(l) \cup {n}
  <2>1. \A i \in 1..Len(l) : i \in 1..Len(m)
    BY <1>1
  <2>2. Len(l) + 1 \in 1..Len(m)
    BY <1>1
  <2>3. \A k \in Numbers(l) : k \in Numbers(m)
    BY <1>1, <2>1 DEF Numbers
  <2>4. n \in Numbers(m)
    BY <1>1, <2>2 DEF Numbers
  <2>5. \A k \in Numbers(m) : k \in Numbers(l) \/ k = n
    BY <1>1, <1>3 DEF Numbers
  <2> QED BY <2>3, <2>4, <2>5
<1> QED
  BY <1>2, <1>4, <1>5, <1>6 DEF Flows, m

(* collate is told of the next item, which may go elsewhere.               *)
LEMMA FlowsTold ==
  ASSUME NEW b, NEW s, NEW n \in Nat, NEW l, NEW coming, NEW f \in Int,
         Flows(b, s, n, l, coming, f)
  PROVE  Flows(b, s, n, l, coming, IF Through(b, s[f + 1], f + 1) THEN f ELSE f + 1)
<1>1. CASE Through(b, s[f + 1], f + 1)
  BY <1>1
<1>2. CASE ~Through(b, s[f + 1], f + 1)
  <2>1. \A k \in 1..n : f < k <=> k = f + 1 \/ f + 1 < k
    OBVIOUS
  <2>2. {k \in 1..n : Through(b, s[k], k) /\ f < k} = {k \in 1..n : Through(b, s[k], k) /\ f + 1 < k}
    BY <1>2, <2>1
  <2> QED BY <1>2, <2>2 DEF Flows
<1> QED
  BY <1>1, <1>2

(* The next item that collate is to fetch from the branch is its oldest.   *)
Awaited(b, s, n, l, coming, k) ==
  /\ n \in Nat /\ l \in Seq(Items) /\ k \in 1..n /\ coming \subseteq {n}
  /\ Through(b, s[k], k) /\ Flows(b, s, n, l, coming, k - 1)

LEMMA FlowsNext ==
  ASSUME NEW b, NEW s, NEW n, NEW l, NEW coming, NEW k, Awaited(b, s, n, l, coming, k)
  PROVE  /\ l = <<>> => coming = {n} /\ n = k
         /\ l # <<>> => l[1] = s[k] /\ l[1].no = k
<1>0. /\ n \in Nat /\ l \in Seq(Items) /\ k \in 1..n /\ coming \subseteq {n}
      /\ Through(b, s[k], k) /\ Flows(b, s, n, l, coming, k - 1)
  BY DEF Awaited
<1>1. k \in Numbers(l) \cup coming
  BY <1>0 DEF Flows
<1>2. \A h \in Numbers(l) : h >= k
  BY <1>0 DEF Flows
<1>3. Len(l) \in Nat /\ (l # <<>> => Len(l) >= 1) /\ (l = <<>> => Len(l) = 0)
  BY <1>0, SomeLists
<1>4. CASE l = <<>>
  <2>1. Numbers(l) = {}
    BY <1>3, <1>4 DEF Numbers
  <2> QED BY <1>0, <1>1, <1>4, <2>1
<1>5. CASE l # <<>>
  <2>1. 1 \in 1..Len(l) /\ l[1].no \in Numbers(l) /\ l[1].no \in 1..n /\ l[1] = s[l[1].no]
        /\ \A h \in coming : l[1].no < h
    BY <1>0, <1>3, <1>5 DEF Flows, Numbers
  <2>2. l[1].no >= k
    BY <1>0, <1>2, <2>1
  <2>3. CASE k \in coming
    BY <1>0, <2>1, <2>2, <2>3
  <2>4. CASE k \in Numbers(l)
    <3>1. PICK i \in 1..Len(l) : l[i].no = k
      BY <2>4 DEF Numbers
    <3>2. i = 1 \/ l[1].no < l[i].no
      BY <1>0, <2>1 DEF Flows
    <3> QED BY <1>0, <1>5, <2>1, <2>2, <3>1, <3>2
  <2> QED BY <1>1, <2>3, <2>4
<1> QED
  BY <1>4, <1>5

(* collate fetches it.                                                     *)
LEMMA FlowsFetched ==
  ASSUME NEW b, NEW s, NEW n, NEW l, NEW coming, NEW k, Awaited(b, s, n, l, coming, k),
         l # <<>>
  PROVE  Flows(b, s, n, Tail(l), coming, k)
<1>0. /\ n \in Nat /\ l \in Seq(Items) /\ k \in 1..n /\ coming \subseteq {n}
      /\ Through(b, s[k], k) /\ Flows(b, s, n, l, coming, k - 1)
  BY DEF Awaited
<1>2. l[1].no = k
  BY FlowsNext
<1> DEFINE m == Tail(l)
<1>1. /\ Len(l) \in Nat /\ Len(l) >= 1 /\ Len(m) = Len(l) - 1
      /\ \A i \in 1..(Len(l) - 1) : m[i] = l[i + 1]
  BY <1>0, SomeLists
<1> HIDE DEF m
<1>3. /\ \A i \in 1..Len(m) : i + 1 \in 1..Len(l) /\ m[i] = l[i + 1]
      /\ 1 \in 1..Len(l)
  BY <1>1
<1>4. /\ \A i \in 1..Len(l) : l[i].no \in 1..n /\ l[i] = s[l[i].no]
      /\ \A i, j \in 1..Len(l) : i < j => l[i].no < l[j].no
      /\ \A i \in 1..Len(l) : \A h \in coming : l[i].no < h
      /\ Numbers(l) \cup coming = {h \in 1..n : Through(b, s[h], h) /\ k - 1 < h}
  BY <1>0 DEF Flows
<1>5. /\ \A i \in 1..Len(m) : m[i].no \in 1..n /\ m[i] = s[m[i].no]
      /\ \A i \in 1..Len(m) : \A h \in coming : m[i].no < h
  BY <1>3, <1>4
<1>6. \A i, j \in 1..Len(m) : i < j => m[i].no < m[j].no
  <2> SUFFICES ASSUME NEW i \in 1..Len(m), NEW j \in 1..Len(m), i < j PROVE m[i].no < m[j].no
    OBVIOUS
  <2>1. i + 1 < j + 1
    BY <1>1
  <2> QED BY <1>3, <1>4, <2>1
<1>7. Numbers(m) = Numbers(l) \ {k}
  <2>1. \A i \in 1..Len(l) : i = 1 \/ (i - 1 \in 1..Len(m) /\ m[i - 1] = l[i])
    BY <1>1
  <2>2. \A i \in 1..Len(m) : m[i].no # k
    <3> SUFFICES ASSUME NEW i \in 1..Len(m) PROVE m[i].no # k
      OBVIOUS
    <3>1. 1 < i + 1
      BY <1>1
    <3>2. l[1].no < l[i + 1].no
      BY <1>3, <1>4, <3>1
    <3> QED BY <1>0, <1>2, <1>3, <3>2
  <2>3. \A h \in Numbers(m) : h \in Numbers(l) /\ h # k
    BY <1>3, <2>2 DEF Numbers
  <2>4. \A h \in Numbers(l) : h = k \/ h \in Numbers(m)
    BY <1>2, <2>1 DEF Numbers
  <2> QED BY <2>3, <2>4
<1>8. k \notin coming
  BY <1>2, <1>3, <1>4
<1>9. Numbers(m) \cup coming = {h \in 1..n : Through(b, s[h], h) /\ k < h}
  <2>1. \A h \in 1..n : k - 1 < h <=> h = k \/ k < h
    BY <1>0
  <2>2. {h \in 1..n : Through(b, s[h], h) /\ k - 1 < h} \ {k} =
          {h \in 1..n : Through(b, s[h], h) /\ k < h}
    BY <2>1
  <2> QED BY <1>4, <1>7, <1>8, <2>2
<1> QED
  BY <1>5, <1>6, <1>9 DEF Flows, m


-----------------------------------------------------------------------------
(* Sizes and places.                                                       *)

LEMMA Sizes ==
  ASSUME TypeInv, NEW t \in TagSet
  PROVE  /\ sent[t] \in Seq(Items) /\ got[t] \in Seq(Items)
         /\ q[Src(t)] \in Seq(Items) /\ q[Status(t)] \in Seq(Items) /\ q[Res(t)] \in Seq(Items)
         /\ Len(sent[t]) \in Nat /\ Len(got[t]) \in Nat
         /\ Len(q[Src(t)]) \in Nat /\ Len(q[Status(t)]) \in Nat /\ Len(q[Res(t)]) \in Nat
         /\ \A k \in 1..Len(sent[t]) : sent[t][k] \in Items
         /\ Told(t) \in {0, 1} /\ Owed(t) \in {0, 1}
         /\ Taken(t) \in Int /\ Taken(t) <= Len(sent[t])
         /\ Seen(t) \in Int /\ Seen(t) <= Taken(t)
         /\ Ports(t) \in Nat \ {0}
<1>1. /\ sent[t] \in Seq(Items) /\ got[t] \in Seq(Items)
      /\ q[Src(t)] \in Seq(Items) /\ q[Status(t)] \in Seq(Items) /\ q[Res(t)] \in Seq(Items)
  BY TheEdges DEF TypeInv, Queues
<1>2. /\ Len(sent[t]) \in Nat /\ Len(got[t]) \in Nat
      /\ Len(q[Src(t)]) \in Nat /\ Len(q[Status(t)]) \in Nat /\ Len(q[Res(t)]) \in Nat
      /\ \A k \in 1..Len(sent[t]) : sent[t][k] \in Items
  BY <1>1, SomeLists
<1>3. Told(t) \in {0, 1} /\ Owed(t) \in {0, 1}
  BY DEF Told, Owed
<1>4. Taken(t) \in Int /\ Taken(t) <= Len(sent[t])
  <2> DEFINE m == Len(sent[t])
             n == Len(q[Src(t)])
  <2>1. m \in Nat /\ n \in Nat /\ Taken(t) = m - n
    BY <1>2 DEF Taken
  <2> HIDE DEF m, n
  <2>2. m - n \in Int /\ m - n <= m
    BY <2>1
  <2> QED BY <2>1, <2>2 DEF m
<1>5. Seen(t) \in Int /\ Seen(t) <= Taken(t)
  BY <1>2, <1>3, <1>4 DEF Seen
<1>6. Ports(t) \in Nat \ {0}
  BY ThePorts DEF Ports
<1> QED
  BY <1>1, <1>2, <1>3, <1>4, <1>5, <1>6

LEMMA Lines ==
  ASSUME TypeInv, NEW b \in Branches
  PROVE  /\ q[Coll(b)] \in Seq(Items) /\ q[Dist(b)] \in Seq(Items) /\ Hand(b) \in Seq(Items)
         /\ Line(b) \in Seq(Items) /\ b[1] \in TagSet
<1>1. q[Coll(b)] \in Seq(Items) /\ q[Dist(b)] \in Seq(Items) /\ b[1] \in TagSet
  BY TheEdges DEF TypeInv, Queues
<1>2. Hand(b) \in Seq(Items)
  <2>1. held[b] # None => held[b] \in Items
    BY DEF TypeInv
  <2> QED BY <2>1 DEF Hand
<1> QED
  BY <1>1, <1>2, JoinedPlaces DEF Line

(* Once distribute has taken up "complete" nothing is left.                *)
LEMMA NothingAfterComplete ==
  ASSUME TypeInv, NEW t \in TagSet, SentOK(t), Completed(t)
  PROVE  Taken(t) = Len(sent[t]) /\ q[Src(t)] = <<>> /\ Src(t) \in ended
<1>1. Taken(t) \in 1..Len(sent[t])
  BY Sizes DEF Completed, Complete
<1>2. Taken(t) = Len(sent[t]) /\ Src(t) \in ended
  BY <1>1 DEF SentOK, Completed, Complete
<1>3. Len(q[Src(t)]) = 0
  <2> DEFINE m == Len(sent[t])
             n == Len(q[Src(t)])
  <2>1. m \in Nat /\ n \in Nat /\ m - n = m
    BY <1>2, Sizes DEF Taken
  <2> HIDE DEF m, n
  <2>2. n = 0
    BY <2>1
  <2> QED BY <2>2 DEF n
<1>4. q[Src(t)] = <<>>
  BY <1>3, Sizes, SomeLists
<1> QED
  BY <1>2, <1>4

(* The steps that do not touch the stream of a final reader.               *)
LEMMA StreamKept ==
  ASSUME NEW t \in TagSet, SentOK(t), ResOK(t), ended \subseteq ended',
         sent'[t] = sent[t], got'[t] = got[t], q'[Res(t)] = q[Res(t)]
  PROVE  SentOK(t)' /\ ResOK(t)'
BY DEF SentOK, ResOK

LEMMA StreamOfSource ==
  ASSUME TypeInv, OrderInv, NEW t \in TagSet, SourcePush(t)
  PROVE  /\ \A u \in TagSet : SentOK(u)' /\ ResOK(u)'
         /\ \A k \in 1..Len(sent[t]) : sent'[t][k] = sent[t][k]
         /\ \A u \in TagSet : u # t => sent'[u] = sent[u]
         /\ \A e \in Edges : e # Src(t) => q'[e] = q[e]
         /\ Len(sent'[t]) = Len(sent[t]) + 1
         /\ ~closed[Src(t)] => q'[Src(t)] = Append(q[Src(t)], sent'[t][Len(sent[t]) + 1])
         /\ ended \subseteq ended' /\ sent'[t][Len(sent[t]) + 1] \in Items
<1>1. PICK k \in Kinds[t] \cup {"complete"} :
        LET x == [type |-> k, no |-> Len(sent[t]) + 1]
        IN  /\ CanPush(Src(t)) /\ q' = Pushed(Src(t), x)
            /\ sent' = [sent EXCEPT ![t] = Append(@, x)]
            /\ ended' = IF k = "complete" \/ closed[Src(t)] THEN ended \cup {Src(t)} ELSE ended
  <2>1. (IF Len(sent[t]) < MaxItems[t] THEN Kinds[t] \cup {"complete"} ELSE {"complete"})
          \subseteq Kinds[t] \cup {"complete"}
    OBVIOUS
  <2> QED BY <2>1 DEF SourcePush
<1> DEFINE x == [type |-> k, no |-> Len(sent[t]) + 1]
<1>2. x \in Items /\ x.no = Len(sent[t]) + 1 /\ x.type = k
  <2>1. Kinds[t] \subseteq {"data", "flush"} /\ Len(sent[t]) \in Nat
    BY FlowAssumption, Sizes
  <2> QED BY <2>1 DEF Items
<1>3. q' = Pushed(Src(t), x) /\ sent' = [sent EXCEPT ![t] = Append(@, x)]
  BY <1>1
<1> HIDE DEF x
<1>4. /\ q \in [Edges -> Seq(Items)] /\ sent \in [TagSet -> Seq(Items)] /\ Src(t) \in Edges
      /\ sent[t] \in Seq(Items) /\ Len(sent[t]) \in Nat
  BY Sizes, TheEdges DEF TypeInv, Queues
<1>5. /\ sent'[t] = Append(sent[t], x) /\ \A u \in TagSet : u # t => sent'[u] = sent[u]
      /\ \A e \in Edges : e # Src(t) => q'[e] = q[e]
      /\ ~closed[Src(t)] => q'[Src(t)] = Append(q[Src(t)], x)
  BY <1>3, <1>4 DEF Pushed
<1>6. /\ Len(sent'[t]) = Len(sent[t]) + 1 /\ sent'[t][Len(sent[t]) + 1] = x
      /\ \A j \in 1..Len(sent[t]) : sent'[t][j] = sent[t][j]
  BY <1>2, <1>4, <1>5, SomeLists
<1>7. /\ UNCHANGED got /\ ended \subseteq ended' /\ Src(t) \notin ended
      /\ k = "complete" => Src(t) \in ended'
  BY <1>1 DEF SourcePush
<1>8. \A u \in TagSet : SentOK(u) /\ ResOK(u)
  BY DEF OrderInv
<1>9. ASSUME NEW u \in TagSet PROVE SentOK(u)' /\ ResOK(u)'
  <2>1. q'[Res(u)] = q[Res(u)]
    BY <1>5, TheEdges
  <2>2. CASE u # t
    BY <1>5, <1>7, <1>8, <2>1, <2>2, StreamKept
  <2>3. CASE u = t
    <3>1. ASSUME NEW j \in 1..Len(sent'[t])
          PROVE  /\ sent'[t][j].no = j
                 /\ sent'[t][j].type = "complete" => j = Len(sent'[t]) /\ Src(t) \in ended'
      <4>1. CASE j \in 1..Len(sent[t])
        <5>1. sent'[t][j] = sent[t][j] /\ sent[t][j].no = j /\ sent[t][j].type # "complete"
          BY <1>6, <1>7, <1>8, <4>1 DEF SentOK
        <5> QED BY <5>1
      <4>2. CASE j = Len(sent[t]) + 1
        BY <1>2, <1>6, <1>7, <4>2
      <4> QED BY <1>4, <1>6, <3>1, <4>1, <4>2
    <3>2. SentOK(t)'
      BY <3>1 DEF SentOK
    <3>3. /\ Len(got[t]) + Len(q[Res(t)]) <= Len(sent[t])
          /\ \A i \in 1..Len(got[t]) : got[t][i] = sent[t][i]
          /\ \A i \in 1..Len(q[Res(t)]) : q[Res(t)][i] = sent[t][Len(got[t]) + i]
          /\ Len(got[t]) \in Nat /\ Len(q[Res(t)]) \in Nat
      BY <1>8, Sizes DEF ResOK
    <3>4. /\ \A i \in 1..Len(got[t]) : i \in 1..Len(sent[t])
          /\ \A i \in 1..Len(q[Res(t)]) : Len(got[t]) + i \in 1..Len(sent[t])
          /\ Len(got[t]) + Len(q[Res(t)]) <= Len(sent[t]) + 1
      <4> DEFINE m == Len(sent[t])
                 g == Len(got[t])
                 r == Len(q[Res(t)])
      <4>1. m \in Nat /\ g \in Nat /\ r \in Nat /\ g + r <= m
        BY <1>4, <3>3
      <4> HIDE DEF m, g, r
      <4>2. (\A i \in 1..g : i \in 1..m) /\ (\A i \in 1..r : g + i \in 1..m) /\ g + r <= m + 1
        BY <4>1
      <4> QED BY <4>2 DEF m, g, r
    <3>5. ResOK(t)'
      BY <1>6, <1>7, <2>1, <2>3, <3>3, <3>4 DEF ResOK
    <3> QED BY <2>3, <3>2, <3>5
  <2> QED BY <2>2, <2>3
<1> QED
  BY <1>2, <1>5, <1>6, <1>7, <1>9


LEMMA StreamOfReader ==
  ASSUME TypeInv, OrderInv, NEW t \in TagSet, NEW ends \in BOOLEAN, Read(t, ends)
  PROVE  /\ \A u \in TagSet : SentOK(u)' /\ ResOK(u)'
         /\ \A e \in Edges : e # Res(t) => q'[e] = q[e] /\ closed'[e] = closed[e]
         /\ \A u \in TagSet : u # t => got'[u] = got[u]
         /\ ~closed'[Res(t)] => /\ ~closed[Res(t)]
                                /\ Len(got'[t]) + Len(q'[Res(t)]) = Len(got[t]) + Len(q[Res(t)])
<1> DEFINE s == q[Res(t)]
           g == got[t]
<1>1. /\ s # <<>> /\ got' = [got EXCEPT ![t] = Append(@, Head(s))]
      /\ UNCHANGED <<distrib, collate, held, sent>> /\ ended \subseteq ended'
  BY DEF Read
<1>2. /\ q \in [Edges -> Seq(Items)] /\ closed \in [Edges -> BOOLEAN] /\ Res(t) \in Edges
      /\ got \in [TagSet -> Seq(Items)] /\ s \in Seq(Items) /\ g \in Seq(Items)
      /\ Len(g) \in Nat /\ Len(s) \in Nat /\ Len(sent[t]) \in Nat
  BY Sizes, TheEdges DEF TypeInv, Queues
<1>3. /\ Head(s) \in Items /\ Head(s) = s[1] /\ Len(s) >= 1 /\ Tail(s) \in Seq(Items)
      /\ Len(Tail(s)) = Len(s) - 1 /\ \A i \in 1..(Len(s) - 1) : Tail(s)[i] = s[i + 1]
      /\ Len(Append(g, Head(s))) = Len(g) + 1 /\ Append(g, Head(s))[Len(g) + 1] = s[1]
      /\ \A i \in 1..Len(g) : Append(g, Head(s))[i] = g[i]
  BY <1>1, <1>2, SomeLists
<1>4. /\ got'[t] = Append(g, Head(s)) /\ \A u \in TagSet : u # t => got'[u] = got[u]
  BY <1>1, <1>2
<1>5. \/ q'[Res(t)] = <<>> /\ closed'[Res(t)] = TRUE
      \/ q'[Res(t)] = Tail(s) /\ closed' = closed
  <2>1. CASE ends
    <3>1. Close({Res(t)})
      BY <2>1 DEF Read
    <3> QED BY <1>2, <3>1 DEF Close
  <2>2. CASE ~ends
    <3>1. q' = [q EXCEPT ![Res(t)] = Tail(@)] /\ UNCHANGED closed
      BY <2>2 DEF Read
    <3> QED BY <1>2, <3>1
  <2> QED BY <2>1, <2>2
<1>6. \A e \in Edges : e # Res(t) => q'[e] = q[e] /\ closed'[e] = closed[e]
  <2>1. CASE ends
    <3>1. Close({Res(t)})
      BY <2>1 DEF Read
    <3>2. \A e \in Edges : e # Res(t) => q'[e] = q[e]
      BY <3>1 DEF Close
    <3>3. \A e \in Edges : e # Res(t) => closed'[e] = closed[e]
      BY <1>2, <3>1 DEF Close
    <3> QED BY <3>2, <3>3
  <2>2. CASE ~ends
    <3>1. q' = [q EXCEPT ![Res(t)] = Tail(@)] /\ UNCHANGED closed
      BY <2>2 DEF Read
    <3> QED BY <1>2, <3>1
  <2> QED BY <2>1, <2>2
<1>7. SentOK(t) /\ ResOK(t) /\ \A u \in TagSet : SentOK(u) /\ ResOK(u)
  BY DEF OrderInv
<1>8. ASSUME NEW u \in TagSet, u # t PROVE SentOK(u)' /\ ResOK(u)'
  <2>1. q'[Res(u)] = q[Res(u)]
    BY <1>6, <1>8, TheEdges
  <2> QED BY <1>1, <1>4, <1>7, <1>8, <2>1, StreamKept
<1>9. SentOK(t)'
  BY <1>1, <1>7 DEF SentOK
<1>10. ResOK(t)' /\ (closed' = closed => q'[Res(t)] = Tail(s) \/ closed[Res(t)])
  <2> DEFINE r == Len(s)
             n == Len(g)
             m == Len(sent[t])
             a == got'[t]
             c == q'[Res(t)]
  <2>1. /\ r \in Nat /\ r >= 1 /\ n \in Nat /\ m \in Nat /\ n + r <= m
        /\ \A i \in 1..n : g[i] = sent[t][i]
        /\ \A j \in 1..r : s[j] = sent[t][n + j]
    BY <1>2, <1>3, <1>7 DEF ResOK
  <2>2. Len(a) = n + 1 /\ a[n + 1] = s[1] /\ \A i \in 1..n : a[i] = g[i]
    BY <1>3, <1>4
  <2>3. \/ Len(c) = 0
        \/ Len(c) = r - 1 /\ \A j \in 1..(r - 1) : c[j] = s[j + 1]
    <3>1. c = <<>> \/ c = Tail(s)
      BY <1>5
    <3> HIDE DEF c
    <3>2. c = <<>> => Len(c) = 0
      OBVIOUS
    <3>3. c = Tail(s) => Len(c) = r - 1 /\ \A j \in 1..(r - 1) : c[j] = s[j + 1]
      BY <1>3
    <3> QED BY <3>1, <3>2, <3>3
  <2> HIDE DEF r, n, m, a, c
  <2>4. \A i \in 1..Len(a) : a[i] = sent[t][i]
    <3>1. \A i \in 1..Len(a) : i \in 1..n \/ i = n + 1
      BY <2>1, <2>2
    <3>2. s[1] = sent[t][n + 1]
      BY <2>1
    <3> QED BY <2>1, <2>2, <3>1, <3>2
  <2>5. \A j \in 1..Len(c) : c[j] = sent[t][Len(a) + j]
    <3>1. \A j \in 1..Len(c) : j \in 1..(r - 1) /\ j + 1 \in 1..r /\ n + (j + 1) = (n + 1) + j
      BY <2>1, <2>3
    <3>2. CASE Len(c) = 0
      BY <3>2
    <3>3. CASE Len(c) = r - 1 /\ \A j \in 1..(r - 1) : c[j] = s[j + 1]
      <4> TAKE j \in 1..Len(c)
      <4>1. c[j] = s[j + 1] /\ s[j + 1] = sent[t][n + (j + 1)]
        BY <2>1, <3>1, <3>3
      <4> QED BY <2>2, <3>1, <4>1
    <3> QED BY <2>3, <3>2, <3>3
  <2>6. Len(a) + Len(c) <= m
    BY <2>1, <2>2, <2>3
  <2>7. sent' = sent
    BY <1>1
  <2> QED BY <1>2, <1>5, <2>4, <2>5, <2>6, <2>7 DEF ResOK, a, c, m
<1>11. ~closed'[Res(t)] => /\ ~closed[Res(t)]
                           /\ Len(got'[t]) + Len(q'[Res(t)]) = Len(got[t]) + Len(q[Res(t)])
  <2> SUFFICES ASSUME ~closed'[Res(t)]
               PROVE  /\ ~closed[Res(t)]
                      /\ Len(got'[t]) + Len(q'[Res(t)]) = Len(got[t]) + Len(q[Res(t)])
    OBVIOUS
  <2>1. ~closed[Res(t)] /\ Len(q'[Res(t)]) = Len(s) - 1 /\ Len(got'[t]) = Len(g) + 1
    BY <1>3, <1>4, <1>5
  <2>2. (Len(g) + 1) + (Len(s) - 1) = Len(g) + Len(s)
    BY <1>2
  <2> QED BY <2>1, <2>2
<1> QED
  BY <1>4, <1>6, <1>8, <1>9, <1>10, <1>11

LEMMA BranchFrame ==
  ASSUME NEW b \in Branches, BranchOK(b),
         sent'[b[1]] = sent[b[1]], Taken(b[1])' = Taken(b[1]), Line(b)' = Line(b),
         Coming(b)' = Coming(b), Fetched(b)' = Fetched(b),
         closed'[Coll(b)] = closed[Coll(b)], closed'[Dist(b)] = closed[Dist(b)]
  PROVE  BranchOK(b)'
BY DEF BranchOK, Completed

LEMMA TheTurns ==
  ASSUME TypeInv
  PROVE  /\ distrib.todo # <<>> => Turn(distrib) \in TagSet
         /\ collate.todo # <<>> => Turn(collate) \in TagSet
BY LoopParts DEF TypeInv, LoopOK

(* The steps of the processes around leave the two loops as they are.      *)
LEMMA LoopsFrame ==
  ASSUME TypeInv, OrderInv, Live, UNCHANGED <<distrib, collate, sent>>,
         \A t \in TagSet : q'[Src(t)] = q[Src(t)] /\ q'[Status(t)] = q[Status(t)]
                           /\ closed'[Src(t)] = closed[Src(t)]
  PROVE  /\ DistTodoOK' /\ CollTodoOK' /\ OutputsOnly'
         /\ \A t \in TagSet : /\ DistOK(t)' /\ Taken(t)' = Taken(t) /\ Seen(t)' = Seen(t)
                              /\ Owed(t)' = Owed(t) /\ (Completed(t)' <=> Completed(t))
         /\ \A b \in Branches : Coming(b)' = Coming(b) /\ Fetched(b)' = Fetched(b)
<1>1. ASSUME NEW t \in TagSet
      PROVE  /\ Taken(t)' = Taken(t) /\ Seen(t)' = Seen(t) /\ Owed(t)' = Owed(t)
             /\ (Completed(t)' <=> Completed(t)) /\ DistOK(t)'
  <2>1. Taken(t)' = Taken(t) /\ Told(t)' = Told(t) /\ Owed(t)' = Owed(t)
    BY DEF Taken, Told, Owed, Turn
  <2>2. Seen(t)' = Seen(t) /\ (Completed(t)' <=> Completed(t))
    BY <2>1 DEF Seen, Completed
  <2>3. DistOK(t)
    BY DEF OrderInv
  <2> QED BY <2>1, <2>2, <2>3 DEF DistOK
<1>2. \A b \in Branches : Coming(b)' = Coming(b) /\ Fetched(b)' = Fetched(b)
  <2>1. \A b \in Branches : b[1] \in TagSet
    BY TheEdges
  <2> QED BY <1>1, <2>1 DEF Coming, Fetched
<1>3. DistTodoOK /\ CollTodoOK /\ OutputsOnly
  BY DEF OrderInv
<1>4. distrib' = distrib /\ collate' = collate /\ sent' = sent
  OBVIOUS
<1>5. DistTodoOK'
  <2>1. CASE distrib.todo = <<>>
    BY <1>4, <2>1 DEF DistTodoOK, DistCalls
  <2>2. CASE distrib.todo # <<>>
    <3>1. Turn(distrib) \in TagSet /\ Turn(distrib)' = Turn(distrib)
      BY <1>4, <2>2, TheTurns DEF Turn
    <3>2. Taken(Turn(distrib))' = Taken(Turn(distrib))
      BY <1>1, <1>4, <3>1
    <3> QED BY <1>3, <1>4, <3>1, <3>2 DEF DistTodoOK
  <2> QED BY <2>1, <2>2
<1>6. CollTodoOK'
  <2>1. CASE collate.todo = <<>>
    BY <1>4, <2>1 DEF CollTodoOK, CollCalls
  <2>2. CASE collate.todo # <<>>
    <3>1. Turn(collate) \in TagSet /\ Turn(collate)' = Turn(collate)
      BY <1>4, <2>2, TheTurns DEF Turn
    <3>2. Seen(Turn(collate))' = Seen(Turn(collate))
      BY <1>1, <1>4, <3>1
    <3> QED BY <1>3, <1>4, <3>1, <3>2 DEF CollTodoOK
  <2> QED BY <2>1, <2>2
<1>7. OutputsOnly'
  BY <1>3, <1>4 DEF OutputsOnly
<1> QED
  BY <1>1, <1>2, <1>5, <1>6, <1>7


-----------------------------------------------------------------------------
(* What becomes of a line when one of its parts gets or loses an item.     *)

LEMMA LineSteps ==
  ASSUME NEW a \in Seq(Items), NEW h \in Seq(Items), NEW d \in Seq(Items)
  PROVE  /\ d # <<>> => (a \o <<Head(d)>>) \o Tail(d) = (a \o <<>>) \o d
         /\ \A x \in Items : (Append(a, x) \o <<>>) \o d = (a \o <<x>>) \o d
         /\ \A x \in Items : (a \o h) \o Append(d, x) = Append((a \o h) \o d, x)
         /\ a # <<>> => /\ (Tail(a) \o h) \o d = Tail((a \o h) \o d)
                        /\ (a \o h) \o d # <<>> /\ Head((a \o h) \o d) = Head(a)
<1>1. ASSUME d # <<>> PROVE (a \o <<Head(d)>>) \o Tail(d) = (a \o <<>>) \o d
  <2>1. d = <<Head(d)>> \o Tail(d) /\ Head(d) \in Items /\ Tail(d) \in Seq(Items)
    BY <1>1, JoinsOfOne
  <2>2. <<Head(d)>> \in Seq(Items)
    BY <2>1, JoinsOfOne
  <2>3. (a \o <<Head(d)>>) \o Tail(d) = a \o (<<Head(d)>> \o Tail(d))
    BY <2>1, <2>2, ConcatAssociative
  <2>4. a \o <<>> = a
    BY ConcatEmptySeq
  <2> QED BY <2>1, <2>3, <2>4
<1>2. ASSUME NEW x \in Items PROVE (Append(a, x) \o <<>>) \o d = (a \o <<x>>) \o d
  <2>1. Append(a, x) = a \o <<x>> /\ Append(a, x) \in Seq(Items)
    BY JoinsOfOne, SomeLists
  <2>2. Append(a, x) \o <<>> = Append(a, x)
    BY <2>1, ConcatEmptySeq
  <2> QED BY <2>1, <2>2
<1>3. ASSUME NEW x \in Items PROVE (a \o h) \o Append(d, x) = Append((a \o h) \o d, x)
  <2> DEFINE u == a \o h
  <2>1. u \in Seq(Items) /\ <<x>> \in Seq(Items) /\ u \o d \in Seq(Items)
    BY ONLY a \in Seq(Items), h \in Seq(Items), d \in Seq(Items), x \in Items, JoinsOfOne, JoinedPlaces
  <2> HIDE DEF u
  <2>2. Append(d, x) = d \o <<x>> /\ Append(u \o d, x) = (u \o d) \o <<x>>
    <3>1. Append(d, x) = d \o <<x>>
      BY JoinsOfOne
    <3>2. Append(u \o d, x) = (u \o d) \o <<x>>
      BY <2>1, JoinsOfOne
    <3> QED BY <3>1, <3>2
  <2>3. (u \o d) \o <<x>> = u \o (d \o <<x>>)
    BY <2>1, ConcatAssociative
  <2> QED BY <2>2, <2>3 DEF u
<1>4. ASSUME a # <<>>
      PROVE  /\ (Tail(a) \o h) \o d = Tail((a \o h) \o d)
             /\ (a \o h) \o d # <<>> /\ Head((a \o h) \o d) = Head(a)
  <2> DEFINE x == Head(a)
             r == Tail(a)
             o == <<x>>
  <2>1. a = o \o r /\ x \in Items /\ r \in Seq(Items)
    BY <1>4, JoinsOfOne
  <2>2. o \in Seq(Items) /\ o = <<x>>
    BY <2>1, JoinsOfOne
  <2> HIDE DEF x, r, o
  <2>3. (o \o r) \o h = o \o (r \o h) /\ r \o h \in Seq(Items)
    <3>1. r \o h \in Seq(Items)
      BY <2>1, JoinedPlaces
    <3>2. (o \o r) \o h = o \o (r \o h)
      BY <2>1, <2>2, ConcatAssociative
    <3> QED BY <3>1, <3>2
  <2>4. (o \o (r \o h)) \o d = o \o ((r \o h) \o d) /\ (r \o h) \o d \in Seq(Items)
    <3>1. (r \o h) \o d \in Seq(Items)
      BY <2>3, JoinedPlaces
    <3>2. (o \o (r \o h)) \o d = o \o ((r \o h) \o d)
      BY <2>2, <2>3, ConcatAssociative
    <3> QED BY <3>1, <3>2
  <2> DEFINE l == (r \o h) \o d
  <2>5. (a \o h) \o d = o \o l /\ l \in Seq(Items)
    BY <2>1, <2>3, <2>4
  <2> HIDE DEF l
  <2>6. Tail(o \o l) = l /\ o \o l # <<>> /\ Head(o \o l) = x
    BY <2>1, <2>2, <2>5, JoinsOfOne
  <2> QED BY <2>5, <2>6 DEF l, r, x
<1> QED
  BY <1>1, <1>2, <1>3, <1>4


-----------------------------------------------------------------------------
(* The steps of the processes around keep the order.                       *)

LEMMA OrderReader ==
  ASSUME TypeInv, OrderInv, NEW t \in TagSet, NEW ends \in BOOLEAN, Read(t, ends)
  PROVE  OrderInv'
<1>1. /\ \A u \in TagSet : SentOK(u)' /\ ResOK(u)'
      /\ \A e \in Edges : e # Res(t) => q'[e] = q[e] /\ closed'[e] = closed[e]
      /\ \A u \in TagSet : u # t => got'[u] = got[u]
      /\ ~closed'[Res(t)] => /\ ~closed[Res(t)]
                             /\ Len(got'[t]) + Len(q'[Res(t)]) = Len(got[t]) + Len(q[Res(t)])
  BY StreamOfReader
<1>2. UNCHANGED <<distrib, collate, held, sent>>
  BY DEF Read
<1>3. OutputsOnly'
  BY <1>2 DEF OrderInv, OutputsOnly
<1>4. ASSUME Live
      PROVE  /\ \A u \in TagSet : DistOK(u)' /\ CollOK(u)'
             /\ DistTodoOK' /\ CollTodoOK'
             /\ \A b \in Branches : BranchOK(b)'
  <2>1. \A u \in TagSet : /\ q'[Src(u)] = q[Src(u)] /\ q'[Status(u)] = q[Status(u)]
                          /\ closed'[Src(u)] = closed[Src(u)]
                          /\ closed'[Status(u)] = closed[Status(u)]
    BY <1>1, TheEdges
  <2>2. /\ DistTodoOK' /\ CollTodoOK'
        /\ \A u \in TagSet : /\ DistOK(u)' /\ Taken(u)' = Taken(u) /\ Seen(u)' = Seen(u)
                             /\ Owed(u)' = Owed(u) /\ (Completed(u)' <=> Completed(u))
        /\ \A b \in Branches : Coming(b)' = Coming(b) /\ Fetched(b)' = Fetched(b)
    BY <1>2, <1>4, <2>1, LoopsFrame
  <2>3. ASSUME NEW u \in TagSet PROVE CollOK(u)'
    <3>1. CollOK(u)
      BY <1>4 DEF OrderInv
    <3>2. ~closed'[Res(u)] => /\ ~closed[Res(u)]
                              /\ Len(got'[u]) + Len(q'[Res(u)]) = Len(got[u]) + Len(q[Res(u)])
      <4>1. CASE u = t
        BY <1>1, <4>1
      <4>2. CASE u # t
        BY <1>1, <4>2, TheEdges
      <4> QED BY <4>1, <4>2
    <3> QED BY <1>2, <2>1, <2>2, <3>1, <3>2 DEF CollOK
  <2>4. ASSUME NEW b \in Branches PROVE BranchOK(b)'
    <3>1. BranchOK(b) /\ b[1] \in TagSet
      BY <1>4, TheEdges DEF OrderInv
    <3>2. /\ q'[Coll(b)] = q[Coll(b)] /\ q'[Dist(b)] = q[Dist(b)]
          /\ closed'[Coll(b)] = closed[Coll(b)] /\ closed'[Dist(b)] = closed[Dist(b)]
      BY <1>1, TheEdges
    <3>3. Line(b)' = Line(b)
      BY <1>2, <3>2 DEF Line, Hand
    <3> QED BY <1>2, <2>2, <3>1, <3>2, <3>3, BranchFrame
  <2> QED BY <2>2, <2>3, <2>4
<1>5. Live' <=> Live
  BY <1>2 DEF Live
<1> QED
  BY <1>1, <1>3, <1>4, <1>5 DEF OrderInv

LEMMA CompleteInHand ==
  ASSUME TypeInv, OrderInv, Live, NEW b \in Branches, NEW x \in Items, x.type = "complete",
         Line(b) = (q[Coll(b)] \o <<x>>) \o q[Dist(b)]
  PROVE  Completed(b[1]) /\ Coming(b) = {} /\ q[Dist(b)] = <<>>
<1> DEFINE a == q[Coll(b)]
           d == q[Dist(b)]
           l == Line(b)
           n == Taken(b[1])
           s == sent[b[1]]
           p == Len(a) + 1
           o == <<x>>
           u == a \o o
<1>1. /\ a \in Seq(Items) /\ d \in Seq(Items) /\ b[1] \in TagSet
      /\ n \in Int /\ n <= Len(s) /\ Len(s) \in Nat /\ Len(a) \in Nat /\ Len(d) \in Nat
  BY Lines, Sizes, SomeLists
<1>2. o \in Seq(Items) /\ Len(o) = 1 /\ o[1] = x
  OBVIOUS
<1>3. l = u \o d
  OBVIOUS
<1>4. /\ \A i \in 1..Len(l) : l[i].no \in 1..n /\ l[i] = s[l[i].no]
      /\ \A i, j \in 1..Len(l) : i < j => l[i].no < l[j].no
      /\ \A i \in 1..Len(l) : \A k \in Coming(b) : l[i].no < k
  BY DEF OrderInv, BranchOK, Flows
<1>5. \A k \in 1..Len(s) : s[k].type = "complete" => k = Len(s)
  BY <1>1 DEF OrderInv, SentOK
<1>c. Coming(b) \subseteq {n}
  BY DEF Coming
<1>d. /\ n >= 1 /\ s[n].type = "complete" => Completed(b[1])
      /\ Len(d) = 0 => d = <<>>
  BY <1>1, SomeLists DEF Completed, Complete
<1> HIDE DEF a, d, l, s, n, o
<1>6. u \in Seq(Items) /\ Len(u) = p /\ p \in 1..Len(u) /\ u[p] = x /\ p \in Nat
  <2>1. u = Append(a, x)
    BY <1>1, AppendIsConcat DEF o
  <2>2. /\ Append(a, x) \in Seq(Items) /\ Len(Append(a, x)) = Len(a) + 1
        /\ Append(a, x)[Len(a) + 1] = x
    BY <1>1, SomeLists
  <2> HIDE DEF u
  <2> QED BY <1>1, <2>1, <2>2
<1> HIDE DEF u, p
<1>7. /\ Len(l) = Len(u) + Len(d) /\ p \in 1..Len(l) /\ l[p] = x
  BY <1>1, <1>3, <1>6, JoinedPlaces
<1>8. x.no \in 1..n /\ x = s[x.no]
  BY <1>4, <1>7
<1>9. x.no = Len(s) /\ n = Len(s)
  BY <1>1, <1>5, <1>8
<1>10. Completed(b[1])
  BY <1>1, <1>8, <1>9, <1>d
<1>11. Coming(b) = {}
  BY <1>1, <1>4, <1>7, <1>9, <1>c
<1>12. Len(d) = 0
  <2> SUFFICES ASSUME Len(d) # 0 PROVE FALSE
    OBVIOUS
  <2>1. p + 1 \in 1..Len(l) /\ p < p + 1
    BY <1>1, <1>6, <1>7
  <2>2. l[p].no < l[p + 1].no /\ l[p + 1].no \in 1..n
    BY <1>4, <1>7, <2>1
  <2> QED BY <1>1, <1>7, <1>9, <2>2
<1> QED
  BY <1>10, <1>11, <1>12, <1>d DEF d

(* A worker changes nothing on its line: it takes the next item in hand,   *)
(* it passes the item on, or it closes an edge that is empty, since the    *)
(* item was "complete".                                                    *)
LEMMA WorkerLine ==
  ASSUME TypeInv, OrderInv, NEW b \in Branches, Worker(b)
  PROVE  /\ UNCHANGED <<distrib, collate, sent, got>> /\ ended \subseteq ended'
         /\ \A e \in Edges : e # Coll(b) /\ e # Dist(b) => q'[e] = q[e]
         /\ \A e \in Edges : e # Dist(b) => closed'[e] = closed[e]
         /\ \A c \in Branches : c # b => held'[c] = held[c]
         /\ Live => /\ Line(b)' = Line(b)
                    /\ closed'[Dist(b)] => Completed(b[1]) /\ Coming(b) = {}
<1> DEFINE a == q[Coll(b)]
           d == q[Dist(b)]
           x == held[b]
<1>0. /\ q \in [Edges -> Seq(Items)] /\ closed \in [Edges -> BOOLEAN]
      /\ held \in [Branches -> Items \cup {None}] /\ Coll(b) \in Edges /\ Dist(b) \in Edges
      /\ Coll(b) # Dist(b) /\ a \in Seq(Items) /\ d \in Seq(Items) /\ b[1] \in TagSet
  BY TheEdges, Lines DEF TypeInv, Queues
<1>1. CASE WorkerGrab(b)
  <2>1. /\ x = None /\ d # <<>> /\ held' = [held EXCEPT ![b] = Head(d)]
        /\ q' = [q EXCEPT ![Dist(b)] = Tail(d)]
        /\ UNCHANGED <<closed, distrib, collate, ended, sent, got>>
    BY <1>1 DEF WorkerGrab
  <2>2. held'[b] = Head(d) /\ q'[Coll(b)] = a /\ q'[Dist(b)] = Tail(d)
    BY <1>0, <2>1
  <2>3. Head(d) \in Items /\ Head(d) # None
    <3>1. Head(d) \in Items
      BY <1>0, <2>1, SomeLists
    <3> QED BY <3>1 DEF Items, None
  <2>4. Hand(b) = <<>> /\ Hand(b)' = <<Head(d)>>
    BY <2>1, <2>2, <2>3 DEF Hand
  <2>5. Line(b) = (a \o <<>>) \o d /\ Line(b)' = (a \o <<Head(d)>>) \o Tail(d)
    BY <2>2, <2>4 DEF Line
  <2>6. Line(b)' = Line(b)
    BY <1>0, <2>1, <2>5, LineSteps
  <2>7. /\ \A e \in Edges : e # Dist(b) => q'[e] = q[e]
        /\ \A c \in Branches : c # b => held'[c] = held[c]
    BY <1>0, <2>1
  <2>8. Live /\ closed[Dist(b)] => Completed(b[1]) /\ Coming(b) = {}
    BY DEF OrderInv, BranchOK
  <2> QED BY <2>1, <2>6, <2>7, <2>8
<1>2. CASE WorkerPush(b)
  <2> DEFINE p == Pushed(Coll(b), x)
             last == x.type = "complete" \/ closed[Coll(b)]
  <2>1. /\ x # None /\ held' = [held EXCEPT ![b] = None]
        /\ UNCHANGED <<distrib, collate, sent, got>>
        /\ last => /\ ended' = ended \cup {Dist(b)} /\ closed' = [closed EXCEPT ![Dist(b)] = TRUE]
                   /\ q' = [p EXCEPT ![Dist(b)] = <<>>]
        /\ ~last => q' = p /\ UNCHANGED <<ended, closed>>
    BY <1>2 DEF WorkerPush
  <2>2. x \in Items
    BY <1>0, <2>1
  <2>3. /\ p \in [Edges -> Seq(Items)] /\ p[Dist(b)] = d
        /\ \A e \in Edges : e # Coll(b) => p[e] = q[e]
        /\ ~closed[Coll(b)] => p[Coll(b)] = Append(a, x)
    <3>1. Append(a, x) \in Seq(Items)
      BY <1>0, <2>2, SomeLists
    <3> QED BY <1>0, <3>1 DEF Pushed
  <2> HIDE DEF p, last
  <2>4. /\ \A e \in Edges : e # Coll(b) /\ e # Dist(b) => q'[e] = q[e]
        /\ \A e \in Edges : e # Dist(b) => closed'[e] = closed[e]
        /\ \A c \in Branches : c # b => held'[c] = held[c]
        /\ ended \subseteq ended' /\ held'[b] = None
    <3>1. held'[b] = None /\ \A c \in Branches : c # b => held'[c] = held[c]
      BY <1>0, <2>1
    <3>2. CASE last
      BY <1>0, <2>1, <2>3, <3>1, <3>2
    <3>3. CASE ~last
      BY <1>0, <2>1, <2>3, <3>1, <3>3
    <3> QED BY <3>2, <3>3
  <2>5. ASSUME Live
        PROVE  /\ Line(b)' = Line(b)
               /\ closed'[Dist(b)] => Completed(b[1]) /\ Coming(b) = {}
    <3> DEFINE t == b[1]
               l == Line(b)
    <3>1. /\ Flows(b, sent[t], Taken(t), l, Coming(b), Fetched(b)) /\ ~closed[Coll(b)]
          /\ closed[Dist(b)] => Completed(t) /\ Coming(b) = {}
      BY <2>5 DEF OrderInv, BranchOK
    <3>2. l = (a \o <<x>>) \o d
      BY <2>1 DEF Line, Hand
    <3>3. q'[Coll(b)] = Append(a, x)
      BY <1>0, <2>1, <2>3, <3>1
    <3>4. CASE ~last
      <4>1. q'[Dist(b)] = d /\ closed' = closed
        BY <2>1, <2>3, <3>4
      <4>2. Line(b)' = (Append(a, x) \o <<>>) \o d
        BY <2>4, <3>3, <4>1 DEF Line, Hand
      <4>3. Line(b)' = (a \o <<x>>) \o d
        BY <1>0, <2>2, <4>2, LineSteps
      <4> QED BY <3>1, <3>2, <4>1, <4>3
    <3>5. CASE last
      <4>1. x.type = "complete" /\ q'[Dist(b)] = <<>>
        BY <1>0, <2>1, <2>3, <3>1, <3>5 DEF last
      <4>2. Completed(t) /\ Coming(b) = {} /\ d = <<>>
        BY <2>2, <2>5, <3>2, <4>1, CompleteInHand
      <4>3. Line(b)' = (Append(a, x) \o <<>>) \o <<>>
        BY <2>4, <3>3, <4>1 DEF Line, Hand
      <4>4. Line(b)' = (a \o <<x>>) \o <<>>
        BY <1>0, <2>2, <4>2, <4>3, LineSteps
      <4> QED BY <3>2, <4>2, <4>4
    <3> QED BY <3>4, <3>5
  <2> QED BY <2>1, <2>4, <2>5
<1> QED
  BY <1>1, <1>2 DEF Worker


LEMMA OrderWorker ==
  ASSUME TypeInv, OrderInv, NEW b \in Branches, Worker(b)
  PROVE  OrderInv'
<1>1. /\ UNCHANGED <<distrib, collate, sent, got>> /\ ended \subseteq ended'
      /\ \A e \in Edges : e # Coll(b) /\ e # Dist(b) => q'[e] = q[e]
      /\ \A e \in Edges : e # Dist(b) => closed'[e] = closed[e]
      /\ \A c \in Branches : c # b => held'[c] = held[c]
      /\ Live => /\ Line(b)' = Line(b)
                 /\ closed'[Dist(b)] => Completed(b[1]) /\ Coming(b) = {}
  BY WorkerLine
<1>2. \A u \in TagSet :
        /\ q'[Src(u)] = q[Src(u)] /\ q'[Status(u)] = q[Status(u)] /\ q'[Res(u)] = q[Res(u)]
        /\ closed'[Src(u)] = closed[Src(u)] /\ closed'[Status(u)] = closed[Status(u)]
        /\ closed'[Res(u)] = closed[Res(u)]
  BY <1>1, TheEdges
<1>3. \A u \in TagSet : SentOK(u)' /\ ResOK(u)'
  <2> TAKE u \in TagSet
  <2>1. SentOK(u) /\ ResOK(u)
    BY DEF OrderInv
  <2> QED BY <1>1, <1>2, <2>1, StreamKept
<1>4. OutputsOnly'
  BY <1>1 DEF OrderInv, OutputsOnly
<1>5. ASSUME Live
      PROVE  /\ \A u \in TagSet : DistOK(u)' /\ CollOK(u)'
             /\ DistTodoOK' /\ CollTodoOK'
             /\ \A c \in Branches : BranchOK(c)'
  <2>2. /\ DistTodoOK' /\ CollTodoOK'
        /\ \A u \in TagSet : /\ DistOK(u)' /\ Taken(u)' = Taken(u) /\ Seen(u)' = Seen(u)
                             /\ Owed(u)' = Owed(u) /\ (Completed(u)' <=> Completed(u))
        /\ \A c \in Branches : Coming(c)' = Coming(c) /\ Fetched(c)' = Fetched(c)
    BY <1>1, <1>2, <1>5, LoopsFrame
  <2>3. ASSUME NEW u \in TagSet PROVE CollOK(u)'
    <3>1. CollOK(u)
      BY <1>5 DEF OrderInv
    <3> QED BY <1>1, <1>2, <2>2, <3>1 DEF CollOK
  <2>4. ASSUME NEW c \in Branches PROVE BranchOK(c)'
    <3>1. BranchOK(c) /\ c[1] \in TagSet
      BY <1>5, TheEdges DEF OrderInv
    <3>2. CASE c # b
      <4>1. /\ q'[Coll(c)] = q[Coll(c)] /\ q'[Dist(c)] = q[Dist(c)]
            /\ closed'[Coll(c)] = closed[Coll(c)] /\ closed'[Dist(c)] = closed[Dist(c)]
        BY <1>1, <3>2, TheEdges
      <4>2. Line(c)' = Line(c)
        BY <1>1, <3>2, <4>1 DEF Line, Hand
      <4> QED BY <1>1, <2>2, <3>1, <4>1, <4>2, BranchFrame
    <3>3. CASE c = b
      <4>1. closed'[Coll(b)] = closed[Coll(b)]
        BY <1>1, TheEdges
      <4>2. Line(b)' = Line(b) /\ (closed'[Dist(b)] => Completed(b[1])' /\ Coming(b)' = {})
        BY <1>1, <1>5, <2>2, <3>1, <3>3
      <4>3. Flows(b, sent'[b[1]], Taken(b[1])', Line(b)', Coming(b)', Fetched(b)')
        BY <1>1, <2>2, <3>1, <3>3, <4>2 DEF BranchOK
      <4> QED BY <3>1, <3>3, <4>1, <4>2, <4>3 DEF BranchOK
    <3> QED BY <3>2, <3>3
  <2> QED BY <2>2, <2>3, <2>4
<1>6. Live' <=> Live
  BY <1>1 DEF Live
<1> QED
  BY <1>3, <1>4, <1>5, <1>6 DEF OrderInv

LEMMA OrderSource ==
  ASSUME TypeInv, OrderInv, NEW t \in TagSet, SourcePush(t)
  PROVE  OrderInv'
<1> DEFINE x == sent'[t][Len(sent[t]) + 1]
<1>1. /\ \A u \in TagSet : SentOK(u)' /\ ResOK(u)'
      /\ \A k \in 1..Len(sent[t]) : sent'[t][k] = sent[t][k]
      /\ \A u \in TagSet : u # t => sent'[u] = sent[u]
      /\ \A e \in Edges : e # Src(t) => q'[e] = q[e]
      /\ Len(sent'[t]) = Len(sent[t]) + 1
      /\ ~closed[Src(t)] => q'[Src(t)] = Append(q[Src(t)], x)
      /\ x \in Items
  BY StreamOfSource
<1>2. UNCHANGED <<closed, distrib, collate, held, got>> /\ Src(t) \notin ended
  BY DEF SourcePush
<1>3. OutputsOnly'
  BY <1>2 DEF OrderInv, OutputsOnly
<1>4. ASSUME Live
      PROVE  /\ \A u \in TagSet : DistOK(u)' /\ CollOK(u)'
             /\ DistTodoOK' /\ CollTodoOK'
             /\ \A b \in Branches : BranchOK(b)'
  <2>1. ~Completed(t) /\ DistOK(t) /\ CollOK(t) /\ SentOK(t)
    <3>1. DistOK(t) /\ CollOK(t) /\ SentOK(t)
      BY <1>4 DEF OrderInv
    <3>2. ~Completed(t)
      BY <1>2, <3>1, NothingAfterComplete
    <3> QED BY <3>1, <3>2
  <2>2. q'[Src(t)] = Append(q[Src(t)], x)
    BY <1>1, <2>1 DEF DistOK
  <2>3. /\ Len(q'[Src(t)]) = Len(q[Src(t)]) + 1 /\ q'[Src(t)][Len(q[Src(t)]) + 1] = x
        /\ \A j \in 1..Len(q[Src(t)]) : q'[Src(t)][j] = q[Src(t)][j]
    BY <1>1, <2>2, Sizes, SomeLists
  <2>4. \A u \in TagSet : q'[Status(u)] = q[Status(u)] /\ q'[Res(u)] = q[Res(u)]
                          /\ (u # t => q'[Src(u)] = q[Src(u)])
    BY <1>1, TheEdges
  <2>5. ASSUME NEW u \in TagSet
        PROVE  Taken(u)' = Taken(u) /\ Seen(u)' = Seen(u) /\ Owed(u)' = Owed(u)
    <3>1. Taken(u)' = Taken(u)
      <4>1. CASE u # t
        BY <1>1, <2>4, <4>1 DEF Taken
      <4>2. CASE u = t
        <5> DEFINE m == Len(sent[t])
                   n == Len(q[Src(t)])
        <5>1. Taken(t) = m - n /\ Taken(t)' = (m + 1) - (n + 1) /\ m \in Nat /\ n \in Nat
          BY <1>1, <2>3, Sizes DEF Taken
        <5> HIDE DEF m, n
        <5>2. (m + 1) - (n + 1) = m - n
          BY <5>1
        <5> QED BY <4>2, <5>1, <5>2
      <4> QED BY <4>1, <4>2
    <3>2. Told(u)' = Told(u) /\ Owed(u)' = Owed(u)
      BY <1>2 DEF Told, Owed, Turn
    <3> QED BY <2>4, <3>1, <3>2 DEF Seen
  <2>6. ASSUME NEW u \in TagSet
        PROVE  \A k \in 1..Taken(u) : sent'[u][k] = sent[u][k]
    <3>1. \A k \in 1..Taken(u) : k \in 1..Len(sent[u])
      BY Sizes
    <3> QED BY <1>1, <3>1
  <2>7. ASSUME NEW u \in TagSet, NEW k \in Int, k <= Taken(u)
        PROVE  Complete(sent[u], k)' <=> Complete(sent[u], k)
    <3>1. k >= 1 => sent'[u][k] = sent[u][k]
      BY <2>6, <2>7, Sizes
    <3> QED BY <3>1 DEF Complete
  <2>8. \A u \in TagSet : Completed(u)' <=> Completed(u)
    <3> TAKE u \in TagSet
    <3>1. Taken(u) \in Int /\ Taken(u) <= Taken(u)
      BY Sizes
    <3> QED BY <2>5, <2>7, <3>1 DEF Completed, Complete
  <2>9. ASSUME NEW u \in TagSet PROVE DistOK(u)'
    <3>1. DistOK(u)
      BY <1>4 DEF OrderInv
    <3>2. \A j \in 1..Len(q'[Src(u)]) : q'[Src(u)][j] = sent'[u][Taken(u) + j]
      <4>1. CASE u # t
        BY <1>1, <2>4, <3>1, <4>1 DEF DistOK
      <4>2. CASE u = t
        <5> DEFINE m == Len(sent[t])
                   n == Len(q[Src(t)])
                   k == Taken(t)
        <5>1. m \in Nat /\ n \in Nat /\ k \in Int /\ k = m - n /\ k >= 0
          BY <2>1, Sizes DEF Taken, DistOK
        <5> HIDE DEF m, n, k
        <5>2. /\ \A j \in 1..(n + 1) : j \in 1..n \/ (j = n + 1 /\ k + j = m + 1)
              /\ \A j \in 1..n : k + j \in 1..m
          BY <5>1
        <5>3. \A j \in 1..n : q[Src(t)][j] = sent[t][k + j]
          BY <2>1 DEF DistOK, n, k
        <5>4. /\ \A i \in 1..m : sent'[t][i] = sent[t][i]
              /\ sent'[t][m + 1] = x
              /\ Len(q'[Src(t)]) = n + 1 /\ q'[Src(t)][n + 1] = x
              /\ \A j \in 1..n : q'[Src(t)][j] = q[Src(t)][j]
          BY <1>1, <2>3 DEF m, n
        <5> HIDE DEF x
        <5>5. \A j \in 1..(n + 1) : q'[Src(t)][j] = sent'[t][k + j]
          <6> TAKE j \in 1..(n + 1)
          <6>1. CASE j \in 1..n
            BY <5>2, <5>3, <5>4, <6>1
          <6>2. CASE j = n + 1 /\ k + j = m + 1
            BY <5>4, <6>2
          <6> QED BY <5>2, <6>1, <6>2
        <5> QED BY <4>2, <5>4, <5>5 DEF k
      <4> QED BY <4>1, <4>2
    <3> QED BY <1>2, <2>5, <2>8, <3>1, <3>2 DEF DistOK
  <2>10. ASSUME NEW u \in TagSet PROVE CollOK(u)'
    <3>1. CollOK(u)
      BY <1>4 DEF OrderInv
    <3>2. \A j \in 1..Len(q[Status(u)]) :
            /\ Seen(u) + j \in 1..Taken(u)
            /\ sent'[u][Seen(u) + j] = sent[u][Seen(u) + j]
      <4> DEFINE n == Len(q[Status(u)])
                 k == Seen(u)
                 m == Taken(u)
                 w == Told(u)
      <4>1. k = (m - w) - n /\ n \in Nat /\ m \in Int /\ k \in Int /\ k >= 0 /\ w \in {0, 1}
        BY <3>1, Sizes DEF Seen, CollOK
      <4> HIDE DEF n, k, m, w
      <4>2. \A j \in 1..n : k + j \in 1..m
        BY <4>1
      <4> QED BY <2>6, <4>2 DEF n, k, m
    <3>3. Complete(sent[u], Seen(u))' <=> Complete(sent[u], Seen(u))
      BY <2>5, <2>7, Sizes
    <3> QED BY <1>2, <2>4, <2>5, <3>1, <3>2, <3>3 DEF CollOK
  <2>11. DistTodoOK'
    <3>1. DistTodoOK /\ distrib' = distrib
      BY <1>2, <1>4 DEF OrderInv
    <3>2. CASE distrib.todo = <<>>
      BY <3>1, <3>2 DEF DistTodoOK, DistCalls
    <3>3. CASE distrib.todo # <<>>
      <4>0. PICK u \in TagSet : u = Turn(distrib)
        BY <3>3, TheTurns
      <4>1. Taken(u) >= 1 /\ Taken(u) \in Int
        BY <3>1, <3>3, <4>0, Sizes DEF DistTodoOK, DistCalls
      <4>2. sent'[u][Taken(u)] = sent[u][Taken(u)] /\ Taken(u)' = Taken(u)
        BY <2>5, <2>6, <4>1
      <4> QED BY <3>1, <4>0, <4>2 DEF DistTodoOK, Turn
    <3> QED BY <3>2, <3>3
  <2>12. CollTodoOK'
    <3>1. CollTodoOK /\ collate' = collate
      BY <1>2, <1>4 DEF OrderInv
    <3>2. CASE collate.todo = <<>>
      BY <3>1, <3>2 DEF CollTodoOK, CollCalls
    <3>3. CASE collate.todo # <<>>
      <4>0. PICK u \in TagSet : u = Turn(collate)
        BY <3>3, TheTurns
      <4>1. Seen(u) >= 1 /\ Seen(u) \in 1..Taken(u)
        BY <3>1, <3>3, <4>0, Sizes DEF CollTodoOK, CollCalls
      <4>2. sent'[u][Seen(u)] = sent[u][Seen(u)] /\ Seen(u)' = Seen(u)
        BY <2>5, <2>6, <4>1
      <4> QED BY <3>1, <4>0, <4>2 DEF CollTodoOK, Turn
    <3> QED BY <3>2, <3>3
  <2>13. ASSUME NEW b \in Branches PROVE BranchOK(b)'
    <3>1. BranchOK(b) /\ b[1] \in TagSet
      BY <1>4, TheEdges DEF OrderInv
    <3>2. Coming(b)' = Coming(b) /\ Fetched(b)' = Fetched(b)
      BY <1>2, <2>5, <3>1 DEF Coming, Fetched
    <3>3. Line(b)' = Line(b)
      <4>1. q'[Coll(b)] = q[Coll(b)] /\ q'[Dist(b)] = q[Dist(b)]
        BY <1>1, TheEdges
      <4> QED BY <1>2, <4>1 DEF Line, Hand
    <3>4. Flows(b, sent'[b[1]], Taken(b[1]), Line(b), Coming(b), Fetched(b))
      <4>1. Taken(b[1]) \in Nat
        <5>1. Taken(b[1]) \in Int /\ Taken(b[1]) >= 0
          BY <1>4, <3>1, Sizes DEF OrderInv, DistOK
        <5> QED BY <5>1
      <4>2. Flows(b, sent[b[1]], Taken(b[1]), Line(b), Coming(b), Fetched(b))
        BY <3>1 DEF BranchOK
      <4>3. \A k \in 1..Taken(b[1]) : sent'[b[1]][k] = sent[b[1]][k]
        BY <2>6, <3>1
      <4> QED BY <4>1, <4>2, <4>3, FlowsOn
    <3>5. Flows(b, sent[b[1]], Taken(b[1]), Line(b), Coming(b), Fetched(b))'
      BY <2>5, <3>1, <3>2, <3>3, <3>4
    <3> QED BY <1>2, <2>8, <3>1, <3>2, <3>5 DEF BranchOK
  <2> QED BY <2>9, <2>10, <2>11, <2>12, <2>13
<1>5. Live' <=> Live
  BY <1>2 DEF Live
<1> QED
  BY <1>1, <1>3, <1>4, <1>5 DEF OrderInv


-----------------------------------------------------------------------------
(* The steps of distribute keep the order.                                 *)

LEMMA CollateFrame ==
  ASSUME TypeInv, CollTodoOK, collate' = collate, sent' = sent,
         \A u \in TagSet : Seen(u)' = Seen(u)
  PROVE  /\ CollTodoOK'
         /\ \A u \in TagSet : Owed(u)' = Owed(u)
         /\ \A b \in Branches : Fetched(b)' = Fetched(b)
<1>1. CollTodoOK'
  <2>1. CASE collate.todo = <<>>
    BY <2>1 DEF CollTodoOK, CollCalls
  <2>2. CASE collate.todo # <<>>
    <3>1. PICK u \in TagSet : u = Turn(collate)
      BY <2>2, TheTurns
    <3> QED BY <3>1 DEF CollTodoOK, Turn
  <2> QED BY <2>1, <2>2
<1>2. \A u \in TagSet : Owed(u)' = Owed(u)
  BY DEF Owed, Turn
<1>3. \A b \in Branches : b[1] \in TagSet
  BY TheEdges
<1>4. \A b \in Branches : Fetched(b)' = Fetched(b)
  BY <1>3 DEF Fetched
<1> QED
  BY <1>1, <1>2, <1>4

LEMMA NextPort ==
  ASSUME NEW t \in TagSet, NEW k \in Nat, NEW c, c = (k % Ports(t)) + 1
  PROVE  /\ (c % Len(Groups[t])) + 1 = ((k + 1) % Ports(t)) + 1
         /\ OfTag(t)[c] = PortOf(t, k + 1)
<1>1. Ports(t) \in Nat \ {0} /\ Ports(t) = Len(Groups[t])
  BY ThePorts DEF Ports
<1> DEFINE n == Ports(t)
<1> HIDE DEF n
<1>2. n \in Nat \ {0}
  BY <1>1 DEF n
<1>3. ((k % n) + 1) % n = (k + 1) % n
  BY <1>2, TurnsAround
<1>4. (k + 1) - 1 = k
  OBVIOUS
<1>5. PortOf(t, k + 1) = OfTag(t)[(((k + 1) - 1) % n) + 1]
  BY DEF PortOf, n
<1> QED
  BY <1>1, <1>3, <1>4, <1>5 DEF n

LEMMA OrderDistributeTurn ==
  ASSUME TypeInv, OrderInv, DistributeTurn
  PROVE  OrderInv'
<1>1. PICK t \in TagSet : t = Turn(distrib)
  BY LoopParts DEF DistributeTurn, Idle, TypeInv
<1> DEFINE x == Head(q[Src(t)])
           calls == DistributeCalls(t, x)
<1>2. /\ Idle(distrib) /\ q[Src(t)] # <<>> /\ q' = [q EXCEPT ![Src(t)] = Tail(@)]
      /\ distrib' = Started(distrib, x, calls)
      /\ UNCHANGED <<closed, collate, held, ended, sent, got>>
  BY <1>1 DEF DistributeTurn
<1>3. /\ q \in [Edges -> Seq(Items)] /\ LoopOK(distrib) /\ q[Src(t)] \in Seq(Items)
      /\ Src(t) \in Edges /\ x \in Items /\ x = q[Src(t)][1] /\ distrib.todo = <<>>
      /\ Len(Tail(q[Src(t)])) = Len(q[Src(t)]) - 1 /\ Len(q[Src(t)]) \in Nat
      /\ Len(q[Src(t)]) >= 1
      /\ \A i \in 1..(Len(q[Src(t)]) - 1) : Tail(q[Src(t)])[i] = q[Src(t)][i + 1]
  <2>1. q \in [Edges -> Seq(Items)] /\ LoopOK(distrib) /\ Src(t) \in Edges /\ distrib.todo = <<>>
    BY <1>2, TheEdges DEF TypeInv, Queues, Idle
  <2>2. q[Src(t)] \in Seq(Items)
    BY <2>1
  <2> QED BY <1>2, <2>1, <2>2, SomeLists
<1>4. /\ CallsOK(calls) /\ Apart(calls) /\ calls # <<>> /\ calls[1] = Push(Status(t), Stat(x))
      /\ \A i \in 1..Len(calls) :
           i # 1 => \E b \in Branches : b[1] = t /\ calls[i] = Push(Dist(b), x)
      /\ \A b \in Branches :
           Calling(calls, Dist(b)) <=> b[1] = t /\ (Control(x) \/ b = OfTag(t)[distrib.cur_port[t]])
  BY <1>3, DistributeCallsAre
<1>5. /\ distrib'.tags = distrib.tags /\ distrib'.pos = distrib.pos /\ distrib'.todo = calls
      /\ distrib'.cur_port = [distrib.cur_port EXCEPT ![t] = Next_port(distrib, t, x)]
      /\ distrib'.complete_ports = IF x.type = "complete" THEN distrib.complete_ports \cup {t}
                                   ELSE distrib.complete_ports
      /\ distrib.cur_port \in [TagSet -> Nat]
  <2>1. Started(distrib, x, calls) =
          [tags |-> distrib.tags, pos |-> distrib.pos, todo |-> calls,
           cur_port |-> [distrib.cur_port EXCEPT ![t] = Next_port(distrib, t, x)],
           complete_ports |-> IF x.type = "complete" THEN distrib.complete_ports \cup {t}
                              ELSE distrib.complete_ports,
           is_complete |-> distrib.is_complete]
    BY <1>1, <1>2, <1>3, <1>4, LoopStarted
  <2>2. distrib.cur_port \in [TagSet -> Nat]
    BY <1>3, LoopParts
  <2> HIDE DEF x, calls
  <2> QED BY <1>2, <2>1, <2>2
<1> HIDE DEF x, calls
<1>6. \A e \in Edges : e # Src(t) => q'[e] = q[e]
  BY <1>2, <1>3
<1>7. q'[Src(t)] = Tail(q[Src(t)])
  BY <1>2, <1>3
<1>8. \A u \in TagSet : SentOK(u)' /\ ResOK(u)'
  <2> TAKE u \in TagSet
  <2>1. q'[Res(u)] = q[Res(u)] /\ SentOK(u) /\ ResOK(u)
    BY <1>6, TheEdges DEF OrderInv
  <2> QED BY <1>2, <2>1, StreamKept
<1>9. OutputsOnly'
  <2> SUFFICES ASSUME NEW i \in 1..Len(calls) PROVE calls[i].edge \in DistOutputs
    BY <1>5 DEF OutputsOnly
  <2>1. CASE i = 1
    BY <1>4, <2>1, CallParts DEF DistOutputs
  <2>2. CASE i # 1
    <3>1. PICK b \in Branches : calls[i] = Push(Dist(b), x)
      BY <1>4, <2>2
    <3> QED BY <3>1, CallParts DEF DistOutputs
  <2> QED BY <2>1, <2>2
<1>10. ASSUME Live
       PROVE  /\ \A u \in TagSet : DistOK(u)' /\ CollOK(u)'
              /\ DistTodoOK' /\ CollTodoOK'
              /\ \A b \in Branches : BranchOK(b)'
  <2> DEFINE n == Taken(t)
  <2>1. \A u \in TagSet : DistOK(u) /\ CollOK(u) /\ SentOK(u)
    BY <1>10 DEF OrderInv
  <2>2. ~Completed(t) /\ n \in Nat /\ Len(sent[t]) \in Nat /\ n = Len(sent[t]) - Len(q[Src(t)])
    <3>1. ~Completed(t)
      BY <1>2, <2>1, NothingAfterComplete
    <3>2. n \in Int /\ n >= 0 /\ Len(sent[t]) \in Nat
      BY <2>1, Sizes DEF DistOK
    <3> QED BY <3>1, <3>2 DEF Taken
  <2>3. \A u \in TagSet : u # t => Taken(u)' = Taken(u)
    <3> TAKE u \in TagSet
    <3>1. u # t => q'[Src(u)] = q[Src(u)]
      BY <1>6, TheEdges
    <3> QED BY <1>2, <3>1 DEF Taken
  <2>4. Taken(t)' = n + 1
    <3> DEFINE m == Len(sent[t])
               w == Len(q[Src(t)])
    <3>1. Taken(t)' = m - (w - 1) /\ n = m - w /\ m \in Nat /\ w \in Nat
      BY <1>2, <1>3, <1>7, <2>2 DEF Taken
    <3> HIDE DEF m, w, n
    <3>2. m - (w - 1) = (m - w) + 1
      BY <3>1
    <3> QED BY <3>1, <3>2
  <2>5. x = sent[t][n + 1]
    <3>1. \A j \in 1..Len(q[Src(t)]) : q[Src(t)][j] = sent[t][n + j]
      BY <2>1 DEF DistOK
    <3>2. 1 \in 1..Len(q[Src(t)])
      BY <1>3
    <3> QED BY <1>3, <3>1, <3>2
  <2> HIDE DEF n
  <2>6. ASSUME NEW u \in TagSet PROVE Told(u) = 0 /\ Told(u)' = IF u = t THEN 1 ELSE 0
    <3>1. Told(u) = 0
      BY <1>3 DEF Told
    <3>2. distrib'.todo # <<>> /\ distrib'.todo[1].edge = Status(t)
      BY <1>4, <1>5, CallParts
    <3>3. Status(t) = Status(u) <=> u = t
      BY TheEdges
    <3> QED BY <3>1, <3>2, <3>3 DEF Told
  <2>7. ASSUME NEW u \in TagSet PROVE Seen(u)' = Seen(u) /\ q'[Status(u)] = q[Status(u)]
    <3>1. q'[Status(u)] = q[Status(u)]
      BY <1>6, TheEdges
    <3>2. CASE u # t
      BY <2>3, <2>6, <3>1, <3>2 DEF Seen
    <3>3. CASE u = t
      <4>1. Seen(t)' = ((n + 1) - 1) - Len(q[Status(t)]) /\ Seen(t) = (n - 0) - Len(q[Status(t)])
        BY <2>4, <2>6, <3>1, <3>3 DEF Seen, n
      <4>2. (n + 1) - 1 = n - 0
        BY <2>2
      <4> QED BY <3>1, <3>3, <4>1, <4>2
    <3> QED BY <3>2, <3>3
  <2>8. /\ CollTodoOK' /\ \A u \in TagSet : Owed(u)' = Owed(u)
        /\ \A b \in Branches : Fetched(b)' = Fetched(b)
    <3>1. CollTodoOK
      BY <1>10 DEF OrderInv
    <3> QED BY <1>2, <2>7, <3>1, CollateFrame
  <2>9. ASSUME NEW u \in TagSet PROVE CollOK(u)'
    <3>1. q'[Res(u)] = q[Res(u)] /\ CollOK(u)
      BY <1>6, <2>1, TheEdges
    <3> QED BY <1>2, <2>7, <2>8, <3>1 DEF CollOK
  <2>10. ASSUME NEW u \in TagSet, u # t PROVE DistOK(u)' /\ (Completed(u)' <=> Completed(u))
    <3>1. q'[Src(u)] = q[Src(u)]
      BY <1>6, <2>10, TheEdges
    <3>2. Completed(u)' <=> Completed(u)
      BY <1>2, <2>3, <2>10 DEF Completed
    <3>3. distrib'.cur_port[u] = distrib.cur_port[u]
          /\ (u \in distrib'.complete_ports <=> u \in distrib.complete_ports)
      BY <1>5, <2>10
    <3>4. /\ Taken(u)' = Taken(u) /\ sent' = sent /\ closed' = closed
          /\ distrib'.tags = distrib.tags /\ DistOK(u)
      BY <1>2, <1>5, <2>1, <2>3, <2>10
    <3> QED BY <3>1, <3>2, <3>3, <3>4 DEF DistOK
  <2>11. DistOK(t)'
    <3>1. \A j \in 1..Len(q'[Src(t)]) : q'[Src(t)][j] = sent[t][(n + 1) + j]
      <4> DEFINE w == Len(q[Src(t)])
      <4>1. Len(q'[Src(t)]) = w - 1 /\ w \in Nat
        BY <1>3, <1>7
      <4>2. \A j \in 1..w : q[Src(t)][j] = sent[t][n + j]
        BY <2>1 DEF DistOK, n
      <4>3. \A j \in 1..(w - 1) : q'[Src(t)][j] = q[Src(t)][j + 1]
        BY <1>3, <1>7
      <4> HIDE DEF w
      <4>0. n \in Nat /\ w \in Nat
        BY <2>2, <4>1
      <4>4. \A j \in 1..(w - 1) : j + 1 \in 1..w /\ n + (j + 1) = (n + 1) + j
        BY <4>0
      <4> QED BY <4>1, <4>2, <4>3, <4>4
    <3>2. Completed(t)' <=> x.type = "complete"
      <4>1. Completed(t)' <=> n + 1 >= 1 /\ sent[t][n + 1].type = "complete"
        BY <1>2, <2>4 DEF Completed, Complete
      <4>2. n + 1 >= 1
        BY <2>2
      <4> QED BY <2>5, <4>1, <4>2
    <3>3. t \in ToSet(distrib.tags) /\ t \notin distrib.complete_ports /\ ~closed[Src(t)]
      BY <2>1, <2>2 DEF DistOK
    <3>4. x.type # "complete" => distrib'.cur_port[t] = ((n + 1) % Ports(t)) + 1
      <4> SUFFICES ASSUME x.type # "complete"
                   PROVE  distrib'.cur_port[t] = ((n + 1) % Ports(t)) + 1
        OBVIOUS
      <4>1. distrib.cur_port[t] = (n % Ports(t)) + 1
        BY <2>1, <2>2 DEF DistOK, n
      <4>2. distrib'.cur_port[t] = (distrib.cur_port[t] % Len(Groups[t])) + 1
        BY <1>5 DEF Next_port
      <4> QED BY <2>2, <4>1, <4>2, NextPort
    <3>5. n + 1 >= 0
      BY <2>2
    <3> QED BY <1>2, <1>5, <2>4, <3>1, <3>2, <3>3, <3>4, <3>5 DEF DistOK
  <2>12. DistTodoOK'
    <3>1. Turn(distrib)' = t
      BY <1>1, <1>5 DEF Turn
    <3>2. DistCalls(calls, t, x, n + 1)
      BY <1>4, <2>2 DEF DistCalls
    <3>3. sent'[t][Taken(t)'] = x
      BY <1>2, <2>4, <2>5
    <3> QED BY <1>5, <2>4, <3>1, <3>2, <3>3 DEF DistTodoOK
  <2>13. ASSUME NEW b \in Branches PROVE BranchOK(b)'
    <3>1. BranchOK(b) /\ b[1] \in TagSet
      BY <1>10, TheEdges DEF OrderInv
    <3>2. Line(b)' = Line(b)
      <4>1. q'[Coll(b)] = q[Coll(b)] /\ q'[Dist(b)] = q[Dist(b)]
        BY <1>6, TheEdges
      <4> QED BY <1>2, <4>1 DEF Line, Hand
    <3>3. Coming(b) = {}
      BY <1>3 DEF Coming, Calling
    <3>4. CASE b[1] # t
      <4>1. Coming(b)' = {}
        BY <1>4, <1>5, <3>4 DEF Coming
      <4>2. Taken(b[1])' = Taken(b[1])
        BY <2>3, <3>1, <3>4
      <4> QED BY <1>2, <2>8, <3>1, <3>2, <3>3, <4>1, <4>2, BranchFrame
    <3>5. CASE b[1] = t
      <4> DEFINE c == IF Through(b, sent[t][n + 1], n + 1) THEN {n + 1} ELSE {}
                 f == Fetched(b)
                 l == Line(b)
      <4>1. Calling(calls, Dist(b)) <=> Through(b, x, n + 1)
        <5>1. distrib.cur_port[t] = (n % Ports(t)) + 1
          BY <2>1, <2>2 DEF DistOK, n
        <5>2. OfTag(t)[distrib.cur_port[t]] = PortOf(t, n + 1)
          BY <2>2, <5>1, NextPort
        <5> QED BY <1>4, <3>5, <5>2 DEF Through
      <4>2. Coming(b)' = c
        BY <1>5, <2>4, <2>5, <3>5, <4>1 DEF Coming
      <4>3. f \in Int /\ f <= n
        <5>1. Seen(t) \in Int /\ Seen(t) <= n
          BY Sizes DEF n
        <5>2. Fetched(b) = Seen(t) \/ Fetched(b) = Seen(t) - 1
          BY <3>5 DEF Fetched
        <5>3. n \in Nat
          BY <2>2
        <5> QED BY <5>1, <5>2, <5>3
      <4>4. Flows(b, sent[t], n, l, {}, f)
        BY <3>1, <3>3, <3>5 DEF BranchOK, n
      <4> HIDE DEF f, l
      <4>5. Flows(b, sent[t], n + 1, l, c, f)
        BY <2>2, <4>3, <4>4, FlowsTaken
      <4> HIDE DEF c
      <4>6. Flows(b, sent'[b[1]], Taken(b[1])', Line(b)', Coming(b)', Fetched(b)')
        BY <1>2, <2>4, <2>8, <3>2, <3>5, <4>2, <4>5 DEF f, l
      <4>7. ~closed[Dist(b)]
        BY <2>2, <3>1, <3>5 DEF BranchOK
      <4> QED BY <1>2, <3>1, <4>6, <4>7 DEF BranchOK
    <3> QED BY <3>4, <3>5
  <2> QED BY <2>8, <2>9, <2>10, <2>11, <2>12, <2>13
<1>11. Live' <=> Live
  BY <1>2 DEF Live
<1> QED
  BY <1>8, <1>9, <1>10, <1>11 DEF OrderInv


LEMMA CallMade ==
  ASSUME NEW s \in Seq(Calls), s # <<>>
  PROVE  /\ \A i \in 1..Len(Tail(s)) : i + 1 \in 1..Len(s) /\ i + 1 # 1 /\ Tail(s)[i] = s[i + 1]
         /\ 1 \in 1..Len(s) /\ Head(s) = s[1] /\ s[1] \in Calls
         /\ Apart(s) => /\ Apart(Tail(s))
                        /\ \A e : Calling(Tail(s), e) <=> Calling(s, e) /\ e # s[1].edge
<1> DEFINE m == Tail(s)
           n == Len(s)
<1>1. /\ n \in Nat /\ n >= 1 /\ Len(m) = n - 1 /\ \A i \in 1..(n - 1) : m[i] = s[i + 1]
      /\ Head(s) = s[1] /\ Head(s) \in Calls
  BY SomeLists
<1> HIDE DEF m, n
<1>2. \A i \in 1..Len(m) : i + 1 \in 1..n /\ i + 1 # 1 /\ m[i] = s[i + 1]
  BY <1>1
<1>3. 1 \in 1..n
  BY <1>1
<1>4. ASSUME Apart(s) PROVE Apart(m)
  <2> SUFFICES ASSUME NEW i \in 1..Len(m), NEW j \in 1..Len(m), i # j PROVE m[i].edge # m[j].edge
    BY DEF Apart
  <2>1. i + 1 # j + 1 /\ i + 1 \in 1..n /\ j + 1 \in 1..n /\ m[i] = s[i + 1] /\ m[j] = s[j + 1]
    BY <1>1, <1>2
  <2> QED BY <1>4, <2>1 DEF Apart, n
<1>5. ASSUME Apart(s), NEW e PROVE Calling(m, e) <=> Calling(s, e) /\ e # s[1].edge
  <2>1. ASSUME Calling(m, e) PROVE Calling(s, e) /\ e # s[1].edge
    <3>1. PICK i \in 1..Len(m) : m[i].edge = e
      BY <2>1 DEF Calling
    <3>2. i + 1 \in 1..n /\ i + 1 # 1 /\ s[i + 1].edge = e
      BY <1>2, <3>1
    <3> QED BY <1>3, <1>5, <3>2 DEF Apart, Calling, n
  <2>2. ASSUME Calling(s, e), e # s[1].edge PROVE Calling(m, e)
    <3>1. PICK i \in 1..n : s[i].edge = e
      BY <2>2 DEF Calling, n
    <3>2. i # 1
      BY <2>2, <3>1
    <3>3. i - 1 \in 1..Len(m) /\ (i - 1) + 1 = i
      BY <1>1, <3>2
    <3> QED BY <1>2, <3>1, <3>3 DEF Calling
  <2> QED BY <2>1, <2>2
<1> QED
  BY <1>1, <1>2, <1>3, <1>4, <1>5 DEF m, n

(* What both kinds of pushes of distribute have in common.                 *)
LEMMA DistributePushes ==
  ASSUME TypeInv, OrderInv, DistributePush
  PROVE  LET c == distrib.todo[1]
             t == Turn(distrib)
         IN  /\ distrib.todo \in Seq(Calls) /\ distrib.todo # <<>> /\ t \in TagSet
             /\ c.edge \in DistOutputs /\ c.edge \in Edges /\ c.item \in Items /\ c.op = "push"
             /\ q' = Pushed(c.edge, c.item)
             /\ distrib'.todo = Tail(distrib.todo) /\ distrib'.tags = distrib.tags
             /\ distrib'.cur_port = distrib.cur_port
             /\ distrib'.complete_ports = distrib.complete_ports
             /\ distrib'.todo # <<>> => Turn(distrib)' = t
             /\ UNCHANGED <<closed, collate, held, ended, sent, got>>
             /\ \A e \in Edges : e # c.edge => q'[e] = q[e]
             /\ ~closed[c.edge] => q'[c.edge] = Append(q[c.edge], c.item)
<1> DEFINE c == distrib.todo[1]
<1>1. /\ Due(distrib) = "push" /\ q' = Pushed(Head(distrib.todo).edge, Head(distrib.todo).item)
      /\ distrib' = Called(distrib, Tail(distrib.todo)) /\ LoopOK(distrib)
      /\ UNCHANGED <<closed, collate, held, ended, sent, got>>
  BY DEF DistributePush, TypeInv
<1>2. /\ distrib.todo \in Seq(Calls) /\ distrib.todo # <<>> /\ Head(distrib.todo) = c
      /\ c \in Calls /\ c.op = "push" /\ 1 \in 1..Len(distrib.todo)
  BY <1>1, LoopParts, CallMade
<1>3. c.edge \in Edges /\ c.item \in Items /\ c.edge \in DistOutputs
  BY <1>1, <1>2 DEF Calls, LoopOK, CallsOK, OrderInv, OutputsOnly
<1>4. /\ distrib'.todo = Tail(distrib.todo) /\ distrib'.tags = distrib.tags
      /\ distrib'.cur_port = distrib.cur_port
      /\ distrib'.complete_ports = distrib.complete_ports
      /\ distrib'.todo # <<>> => Turn(distrib') = Turn(distrib)
  BY <1>1, <1>2, LoopCalled
<1>5. q \in [Edges -> Seq(Items)] /\ q' = Pushed(c.edge, c.item)
  BY <1>1, <1>2 DEF TypeInv, Queues
<1> HIDE DEF c
<1>6. /\ \A e \in Edges : e # c.edge => q'[e] = q[e]
      /\ ~closed[c.edge] => q'[c.edge] = Append(q[c.edge], c.item)
  BY <1>3, <1>5 DEF Pushed
<1>7. Turn(distrib) \in TagSet
  BY <1>2, TheTurns
<1>8. Turn(distrib)' = Turn(distrib')
  BY DEF Turn
<1> QED
  BY <1>1, <1>2, <1>3, <1>4, <1>5, <1>6, <1>7, <1>8 DEF c

LEMMA OrderDistributePush ==
  ASSUME TypeInv, OrderInv, DistributePush
  PROVE  OrderInv'
<1> DEFINE c == distrib.todo[1]
           m == Tail(distrib.todo)
<1>1. PICK t \in TagSet : t = Turn(distrib)
  BY DistributePushes
<1>2. /\ distrib.todo \in Seq(Calls) /\ distrib.todo # <<>>
      /\ c.edge \in DistOutputs /\ c.edge \in Edges /\ c.item \in Items
      /\ distrib'.todo = m /\ distrib'.tags = distrib.tags
      /\ distrib'.cur_port = distrib.cur_port
      /\ distrib'.complete_ports = distrib.complete_ports
      /\ m # <<>> => Turn(distrib)' = t
      /\ UNCHANGED <<closed, collate, held, ended, sent, got>>
      /\ \A e \in Edges : e # c.edge => q'[e] = q[e]
      /\ ~closed[c.edge] => q'[c.edge] = Append(q[c.edge], c.item)
  BY <1>1, DistributePushes
<1>3. /\ \A i \in 1..Len(m) : i + 1 \in 1..Len(distrib.todo) /\ i + 1 # 1
                               /\ m[i] = distrib.todo[i + 1]
      /\ 1 \in 1..Len(distrib.todo)
      /\ Apart(distrib.todo) =>
           /\ Apart(m)
           /\ \A e : Calling(m, e) <=> Calling(distrib.todo, e) /\ e # c.edge
  BY <1>2, CallMade
<1> HIDE DEF c, m
<1>4. \A u \in TagSet : /\ q'[Src(u)] = q[Src(u)] /\ q'[Res(u)] = q[Res(u)]
                        /\ Src(u) # c.edge /\ Res(u) # c.edge
  <2> TAKE u \in TagSet
  <2>1. Src(u) # c.edge /\ Res(u) # c.edge
    BY <1>2, TheEdges DEF DistOutputs
  <2> QED BY <1>2, <2>1, TheEdges
<1>5. \A u \in TagSet : SentOK(u)' /\ ResOK(u)'
  <2> TAKE u \in TagSet
  <2>1. SentOK(u) /\ ResOK(u)
    BY DEF OrderInv
  <2> QED BY <1>2, <1>4, <2>1, StreamKept
<1>6. OutputsOnly'
  <2> SUFFICES ASSUME NEW i \in 1..Len(m) PROVE m[i].edge \in DistOutputs
    BY <1>2 DEF OutputsOnly
  <2> QED BY <1>3 DEF OrderInv, OutputsOnly
<1>7. ASSUME Live
      PROVE  /\ \A u \in TagSet : DistOK(u)' /\ CollOK(u)'
             /\ DistTodoOK' /\ CollTodoOK'
             /\ \A b \in Branches : BranchOK(b)'
  <2> DEFINE n == Taken(t)
             x == sent[t][n]
  <2>1. \A u \in TagSet : DistOK(u) /\ CollOK(u) /\ SentOK(u)
    BY <1>7 DEF OrderInv
  <2>2. /\ n >= 1 /\ n \in Nat /\ n \in 1..Len(sent[t]) /\ Apart(distrib.todo)
        /\ \A i \in 1..Len(distrib.todo) :
             \/ i = 1 /\ distrib.todo[i] = Push(Status(t), Stat(x))
             \/ \E b \in Branches : b[1] = t /\ distrib.todo[i] = Push(Dist(b), x)
    <3>1. DistCalls(distrib.todo, t, x, n)
      BY <1>1, <1>7 DEF OrderInv, DistTodoOK
    <3>2. n \in Int /\ n <= Len(sent[t]) /\ Len(sent[t]) \in Nat
      BY Sizes
    <3> HIDE DEF n, x
    <3>3. n >= 1 => n \in Nat /\ n \in 1..Len(sent[t])
      BY <3>2
    <3> QED BY <1>2, <3>1, <3>3 DEF DistCalls
  <2>3. x \in Items /\ x.no = n
    BY <2>1, <2>2, Sizes DEF SentOK
  <2>4. \A u \in TagSet : /\ Taken(u)' = Taken(u) /\ (Completed(u)' <=> Completed(u))
    BY <1>2, <1>4 DEF Taken, Completed
  <2>5. \A u \in TagSet : DistOK(u)'
    <3> TAKE u \in TagSet
    <3>1. /\ Taken(u)' = Taken(u) /\ (Completed(u)' <=> Completed(u))
          /\ q'[Src(u)] = q[Src(u)] /\ sent' = sent /\ closed' = closed /\ DistOK(u)
          /\ distrib'.tags = distrib.tags /\ distrib'.cur_port = distrib.cur_port
          /\ distrib'.complete_ports = distrib.complete_ports
      BY <1>2, <1>4, <2>1, <2>4
    <3> QED BY <3>1 DEF DistOK
  <2> HIDE DEF n, x
  <2>6. \A i \in 1..Len(m) : \E b \in Branches : b[1] = t /\ m[i] = Push(Dist(b), x)
    BY <1>3, <2>2
  <2>7. DistTodoOK'
    <3>1. CASE m = <<>>
      BY <1>2, <3>1 DEF DistTodoOK, DistCalls
    <3>2. CASE m # <<>>
      <4>1. DistCalls(m, t, x, n)
        BY <1>3, <2>2, <2>6 DEF DistCalls
      <4>2. Turn(distrib)' = t /\ Taken(t)' = n /\ sent'[t][n] = x
        BY <1>2, <2>4, <3>2 DEF n, x
      <4> QED BY <1>2, <4>1, <4>2 DEF DistTodoOK
    <3> QED BY <3>1, <3>2
  <2>8. \A u \in TagSet : Told(u)' = 0
    <3> SUFFICES ASSUME NEW u \in TagSet, m # <<>> PROVE m[1].edge # Status(u)
      BY <1>2 DEF Told
    <3>1. 1 \in 1..Len(m)
      <4>1. m \in Seq(Calls)
        BY <1>2, SomeLists DEF m
      <4> QED BY <4>1, CallMade
    <3>2. PICK b \in Branches : m[1] = Push(Dist(b), x)
      BY <2>6, <3>1
    <3> QED BY <3>2, CallParts, TheEdges
  <2>9. CASE c = Push(Status(t), Stat(x))
    <3>1. c.edge = Status(t) /\ c.item = Stat(x)
      BY <2>9, CallParts
    <3>2. ~closed[Status(t)]
      BY <2>1 DEF CollOK
    <3>3. q'[Status(t)] = Append(q[Status(t)], Stat(x)) /\ Stat(x) \in Items
      BY <1>2, <2>3, <3>1, <3>2, CallParts
    <3>4. /\ Len(q'[Status(t)]) = Len(q[Status(t)]) + 1
          /\ q'[Status(t)][Len(q[Status(t)]) + 1] = Stat(x)
          /\ \A j \in 1..Len(q[Status(t)]) : q'[Status(t)][j] = q[Status(t)][j]
      BY <3>3, Sizes, SomeLists
    <3>5. /\ \A u \in TagSet : u # t => q'[Status(u)] = q[Status(u)] /\ Told(u) = 0
          /\ Told(t) = 1
      <4>1. \A u \in TagSet : u # t => q'[Status(u)] = q[Status(u)]
        BY <1>2, <3>1, TheEdges
      <4>2. \A u \in TagSet : u # t => Told(u) = 0
        BY <3>1, TheEdges DEF Told, c
      <4>3. Told(t) = 1
        BY <1>2, <3>1 DEF Told, c
      <4> QED BY <4>1, <4>2, <4>3
    <3>6. Seen(t)' = Seen(t) /\ Seen(t) + (Len(q[Status(t)]) + 1) = n /\ Seen(t) \in Nat
      <4> DEFINE w == Len(q[Status(t)])
      <4>1. /\ Seen(t)' = (n - 0) - (w + 1) /\ Seen(t) = (n - 1) - w /\ w \in Nat
            /\ Seen(t) >= 0
        BY <2>1, <2>4, <2>8, <3>4, <3>5, Sizes DEF Seen, n, CollOK
      <4> HIDE DEF w
      <4>2. (n - 0) - (w + 1) = (n - 1) - w /\ ((n - 1) - w) + (w + 1) = n
            /\ (n - 1) - w \in Int
        BY <2>2, <4>1
      <4> QED BY <4>1, <4>2 DEF w
    <3>7. \A u \in TagSet : Seen(u)' = Seen(u)
      BY <2>4, <2>8, <3>5, <3>6 DEF Seen
    <3>8. /\ CollTodoOK' /\ \A u \in TagSet : Owed(u)' = Owed(u)
          /\ \A b \in Branches : Fetched(b)' = Fetched(b)
      <4>1. CollTodoOK
        BY <1>7 DEF OrderInv
      <4> QED BY <1>2, <3>7, <4>1, CollateFrame
    <3>9. ASSUME NEW u \in TagSet PROVE CollOK(u)'
      <4>1. CASE u # t
        <5>1. /\ q'[Status(u)] = q[Status(u)] /\ q'[Res(u)] = q[Res(u)] /\ CollOK(u)
              /\ Seen(u)' = Seen(u) /\ Owed(u)' = Owed(u)
              /\ closed' = closed /\ got' = got /\ sent' = sent /\ collate' = collate
          BY <1>2, <1>4, <2>1, <3>5, <3>7, <3>8, <4>1
        <5> QED BY <5>1 DEF CollOK
      <4>2. CASE u = t
        <5>1. /\ q'[Res(t)] = q[Res(t)] /\ CollOK(t)
              /\ Seen(t)' = Seen(t) /\ Owed(t)' = Owed(t)
              /\ closed' = closed /\ got' = got /\ sent' = sent /\ collate' = collate
          BY <1>2, <1>4, <2>1, <3>7, <3>8
        <5>2. \A j \in 1..Len(q'[Status(t)]) : q'[Status(t)][j] = Stat(sent[t][Seen(t) + j])
          <6> DEFINE w == Len(q[Status(t)])
          <6>1. w \in Nat /\ \A j \in 1..(w + 1) : j \in 1..w \/ j = w + 1
            <7>1. w \in Nat
              BY Sizes
            <7> HIDE DEF w
            <7> QED BY <7>1
          <6>2. \A j \in 1..w : q[Status(t)][j] = Stat(sent[t][Seen(t) + j])
            BY <5>1 DEF CollOK
          <6>3. Stat(sent[t][Seen(t) + (w + 1)]) = Stat(x)
            BY <3>6 DEF x
          <6> QED BY <3>4, <6>1, <6>2, <6>3
        <5> QED BY <4>2, <5>1, <5>2 DEF CollOK
      <4> QED BY <4>1, <4>2
    <3>10. ASSUME NEW b \in Branches PROVE BranchOK(b)'
      <4>1. BranchOK(b) /\ b[1] \in TagSet
        BY <1>7, TheEdges DEF OrderInv
      <4>2. Line(b)' = Line(b)
        <5>1. q'[Coll(b)] = q[Coll(b)] /\ q'[Dist(b)] = q[Dist(b)]
          BY <1>2, <3>1, TheEdges
        <5> QED BY <1>2, <5>1 DEF Line, Hand
      <4>3. Calling(m, Dist(b)) <=> Calling(distrib.todo, Dist(b))
        BY <1>3, <2>2, <3>1, TheEdges
      <4>4. Coming(b)' = Coming(b)
        BY <1>2, <2>4, <4>1, <4>3 DEF Coming
      <4> QED BY <1>2, <2>4, <3>8, <4>1, <4>2, <4>4, BranchFrame
    <3> QED BY <2>5, <2>7, <3>8, <3>9, <3>10
  <2>10. ASSUME NEW b0 \in Branches, b0[1] = t, c = Push(Dist(b0), x)
         PROVE  /\ CollTodoOK' /\ \A u \in TagSet : CollOK(u)'
                /\ \A b \in Branches : BranchOK(b)'
    <3>1. c.edge = Dist(b0) /\ c.item = x
      BY <2>10, CallParts
    <3>2. \A u \in TagSet : q'[Status(u)] = q[Status(u)] /\ Told(u) = 0
      <4> TAKE u \in TagSet
      <4>1. q'[Status(u)] = q[Status(u)]
        BY <1>2, <3>1, TheEdges
      <4>2. Told(u) = 0
        BY <3>1, TheEdges DEF Told, c
      <4> QED BY <4>1, <4>2
    <3>3. \A u \in TagSet : Seen(u)' = Seen(u)
      BY <2>4, <2>8, <3>2 DEF Seen
    <3>4. /\ CollTodoOK' /\ \A u \in TagSet : Owed(u)' = Owed(u)
          /\ \A b \in Branches : Fetched(b)' = Fetched(b)
      <4>1. CollTodoOK
        BY <1>7 DEF OrderInv
      <4> QED BY <1>2, <3>3, <4>1, CollateFrame
    <3>5. ASSUME NEW u \in TagSet PROVE CollOK(u)'
      <4>1. /\ q'[Status(u)] = q[Status(u)] /\ q'[Res(u)] = q[Res(u)] /\ CollOK(u)
            /\ Seen(u)' = Seen(u) /\ Owed(u)' = Owed(u)
            /\ closed' = closed /\ got' = got /\ sent' = sent /\ collate' = collate
        BY <1>2, <1>4, <2>1, <3>2, <3>3, <3>4
      <4> QED BY <4>1 DEF CollOK
    <3>6. ASSUME NEW b \in Branches, b # b0 PROVE BranchOK(b)'
      <4>1. BranchOK(b) /\ b[1] \in TagSet
        BY <1>7, TheEdges DEF OrderInv
      <4>2. Line(b)' = Line(b)
        <5>1. q'[Coll(b)] = q[Coll(b)] /\ q'[Dist(b)] = q[Dist(b)]
          BY <1>2, <3>1, <3>6, TheEdges
        <5> QED BY <1>2, <5>1 DEF Line, Hand
      <4>3. Calling(m, Dist(b)) <=> Calling(distrib.todo, Dist(b))
        <5>1. Dist(b) # c.edge
          BY <3>1, <3>6, TheEdges
        <5> QED BY <1>3, <2>2, <5>1
      <4>4. Coming(b)' = Coming(b)
        BY <1>2, <2>4, <4>1, <4>3 DEF Coming
      <4> QED BY <1>2, <2>4, <3>4, <4>1, <4>2, <4>4, BranchFrame
    <3>7. BranchOK(b0)'
      <4> DEFINE l == Line(b0)
                 f == Fetched(b0)
      <4>1. BranchOK(b0)
        BY <1>7 DEF OrderInv
      <4>2. Calling(distrib.todo, Dist(b0)) /\ ~Calling(m, Dist(b0))
        <5>1. Calling(distrib.todo, Dist(b0))
          BY <1>3, <3>1 DEF Calling, c
        <5> QED BY <1>3, <2>2, <3>1, <5>1
      <4>3. Coming(b0) = {n} /\ Coming(b0)' = {}
        BY <1>2, <2>10, <4>2 DEF Coming, n
      <4>4. Flows(b0, sent[t], n, l, {n}, f) /\ ~closed[Dist(b0)] /\ ~closed[Coll(b0)]
        BY <2>10, <4>1, <4>3 DEF BranchOK, n
      <4>5. Line(b0)' = Append(l, x) /\ l \in Seq(Items)
        <5>1. /\ q[Coll(b0)] \in Seq(Items) /\ q[Dist(b0)] \in Seq(Items)
              /\ Hand(b0) \in Seq(Items) /\ l \in Seq(Items)
          BY Lines
        <5>2. q'[Coll(b0)] = q[Coll(b0)] /\ q'[Dist(b0)] = Append(q[Dist(b0)], x)
          BY <1>2, <3>1, <4>4, TheEdges
        <5>3. Line(b0)' = (q[Coll(b0)] \o Hand(b0)) \o Append(q[Dist(b0)], x)
          BY <1>2, <5>2 DEF Line, Hand
        <5>4. (q[Coll(b0)] \o Hand(b0)) \o Append(q[Dist(b0)], x) =
                Append((q[Coll(b0)] \o Hand(b0)) \o q[Dist(b0)], x)
          <6> DEFINE a == q[Coll(b0)]
                     h == Hand(b0)
                     d == q[Dist(b0)]
          <6>1. a \in Seq(Items) /\ h \in Seq(Items) /\ d \in Seq(Items)
            BY <5>1
          <6> HIDE DEF a, h, d
          <6>2. \A y \in Items : (a \o h) \o Append(d, y) = Append((a \o h) \o d, y)
            BY <6>1, LineSteps
          <6> QED BY <2>3, <6>2 DEF a, h, d
        <5>5. l = (q[Coll(b0)] \o Hand(b0)) \o q[Dist(b0)]
          BY DEF Line
        <5> QED BY <5>1, <5>3, <5>4, <5>5
      <4> HIDE DEF l, f
      <4>6. Flows(b0, sent[t], n, Append(l, x), {}, f)
        BY <2>2, <2>3, <4>4, <4>5, FlowsPushed DEF x
      <4>7. Flows(b0, sent'[b0[1]], Taken(b0[1])', Line(b0)', Coming(b0)', Fetched(b0)')
        BY <1>2, <2>4, <2>10, <3>4, <4>3, <4>5, <4>6 DEF n, f
      <4> QED BY <1>2, <4>4, <4>7 DEF BranchOK
    <3> QED BY <3>4, <3>5, <3>6, <3>7
  <2>11. c = Push(Status(t), Stat(x)) \/ \E b \in Branches : b[1] = t /\ c = Push(Dist(b), x)
    BY <1>3, <2>2 DEF c
  <2> QED BY <2>5, <2>7, <2>9, <2>10, <2>11
<1>8. Live' <=> Live
  BY <1>2 DEF Live
<1> QED
  BY <1>5, <1>6, <1>7, <1>8 DEF OrderInv


LEMMA ClosedInputs ==
  ASSUME TypeInv, NEW es, NEW done, IF done THEN Close(es) ELSE UNCHANGED <<q, closed>>
  PROVE  /\ \A e \in Edges : e \notin es => q'[e] = q[e] /\ closed'[e] = closed[e]
         /\ \A e \in Edges : q'[e] = q[e] \/ (done /\ q'[e] = <<>>)
<1>1. CASE done
  <2>1. /\ closed' = [e \in Edges |-> closed[e] \/ e \in es]
        /\ q' = [e \in Edges |-> IF e \in es THEN <<>> ELSE q[e]]
    BY <1>1 DEF Close
  <2>2. \A e \in Edges : closed[e] \in BOOLEAN
    BY DEF TypeInv
  <2>3. \A e \in Edges : e \notin es => q'[e] = q[e]
    BY <2>1
  <2>4. \A e \in Edges : e \notin es => closed'[e] = closed[e]
    BY <2>1, <2>2
  <2>5. \A e \in Edges : q'[e] = q[e] \/ q'[e] = <<>>
    BY <2>1
  <2> QED BY <1>1, <2>3, <2>4, <2>5
<1>2. CASE ~done
  BY <1>2
<1> QED
  BY <1>1, <1>2

LEMMA OrderDistributeEndStep ==
  ASSUME TypeInv, OrderInv, DistributeEndStep
  PROVE  OrderInv'
<1> DEFINE done == IsDone(distrib, DistOutputs)
<1>1. /\ StepDone(distrib) /\ distrib' = NextStep(distrib, DistOutputs) /\ LoopOK(distrib)
      /\ IF done THEN Close(DistInputs) ELSE UNCHANGED <<q, closed>>
      /\ UNCHANGED <<collate, held, ended, sent, got>>
  BY DEF DistributeEndStep, TypeInv
<1>2. /\ distrib.todo = <<>> /\ distrib'.todo = <<>> /\ distrib'.cur_port = distrib.cur_port
      /\ distrib'.complete_ports = {}
      /\ ToSet(distrib'.tags) = ToSet(distrib.tags) \ distrib.complete_ports
  BY <1>1, LoopEnds DEF StepDone
<1>3. done => distrib'.tags = <<>> \/ \A e \in DistOutputs : closed[e]
  BY <1>1 DEF IsDone, NextStep, LoopOK, Loops
<1>4. /\ \A e \in Edges : e \notin DistInputs => q'[e] = q[e] /\ closed'[e] = closed[e]
      /\ \A e \in Edges : q'[e] = q[e] \/ (done /\ q'[e] = <<>>)
      /\ ~done => closed' = closed
  <2>1. IF done THEN Close(DistInputs) ELSE UNCHANGED <<q, closed>>
    BY <1>1
  <2> HIDE DEF done
  <2>2. ~done => closed' = closed
    BY <2>1
  <2> QED BY <2>1, <2>2, ClosedInputs
<1> HIDE DEF done
<1>5. \A u \in TagSet : /\ q'[Status(u)] = q[Status(u)] /\ q'[Res(u)] = q[Res(u)]
                        /\ closed'[Status(u)] = closed[Status(u)]
                        /\ closed'[Res(u)] = closed[Res(u)]
  BY <1>4, TheEdges DEF DistInputs
<1>6. \A u \in TagSet : SentOK(u)' /\ ResOK(u)'
  <2> TAKE u \in TagSet
  <2>1. SentOK(u) /\ ResOK(u)
    BY DEF OrderInv
  <2> QED BY <1>1, <1>5, <2>1, StreamKept
<1>7. OutputsOnly'
  BY <1>2 DEF OutputsOnly
<1>8. ASSUME Live
      PROVE  /\ \A u \in TagSet : DistOK(u)' /\ CollOK(u)'
             /\ DistTodoOK' /\ CollTodoOK'
             /\ \A b \in Branches : BranchOK(b)'
  <2>1. \A u \in TagSet : DistOK(u) /\ CollOK(u) /\ SentOK(u)
    BY <1>8 DEF OrderInv
  <2>2. \A u \in TagSet : u \notin ToSet(distrib'.tags) => Completed(u)
    BY <1>2, <2>1 DEF DistOK
  <2>3. done => \A u \in TagSet : Completed(u)
    <3> SUFFICES ASSUME done PROVE \A u \in TagSet : Completed(u)
      OBVIOUS
    <3>1. ~\A e \in DistOutputs : closed[e]
      <4>1. Tags[1] \in TagSet
        <5>1. Tags \in Seq(TagSet) /\ Tags # <<>>
          BY FlowAssumption
        <5> QED BY <5>1, SomeLists
      <4>2. Status(Tags[1]) \in DistOutputs /\ ~closed[Status(Tags[1])]
        BY <2>1, <4>1 DEF DistOutputs, CollOK
      <4> QED BY <4>2
    <3>2. distrib'.tags = <<>>
      BY <1>3, <3>1
    <3>3. ToSet(distrib'.tags) = {}
      BY <3>2 DEF ToSet
    <3> QED BY <2>2, <3>3
  <2>4. \A u \in TagSet : q'[Src(u)] = q[Src(u)]
    <3> TAKE u \in TagSet
    <3>1. Completed(u) => q[Src(u)] = <<>>
      BY <2>1, NothingAfterComplete
    <3> QED BY <1>4, <2>3, <3>1, TheEdges
  <2>5. \A u \in TagSet : /\ Taken(u)' = Taken(u) /\ Told(u)' = Told(u)
                          /\ (Completed(u)' <=> Completed(u))
    BY <1>1, <1>2, <2>4 DEF Taken, Told, Completed
  <2>6. \A u \in TagSet : Seen(u)' = Seen(u)
    BY <1>5, <2>5 DEF Seen
  <2>7. /\ CollTodoOK' /\ \A u \in TagSet : Owed(u)' = Owed(u)
        /\ \A b \in Branches : Fetched(b)' = Fetched(b)
    <3>1. CollTodoOK
      BY <1>8 DEF OrderInv
    <3> QED BY <1>1, <2>6, <3>1, CollateFrame
  <2>8. ASSUME NEW u \in TagSet PROVE DistOK(u)' /\ CollOK(u)'
    <3>1. /\ DistOK(u) /\ CollOK(u) /\ Taken(u)' = Taken(u) /\ Seen(u)' = Seen(u)
          /\ Owed(u)' = Owed(u) /\ (Completed(u)' <=> Completed(u))
          /\ q'[Src(u)] = q[Src(u)] /\ q'[Status(u)] = q[Status(u)] /\ q'[Res(u)] = q[Res(u)]
          /\ closed'[Status(u)] = closed[Status(u)] /\ closed'[Res(u)] = closed[Res(u)]
          /\ sent' = sent /\ got' = got /\ collate' = collate
          /\ distrib'.cur_port = distrib.cur_port
      BY <1>1, <1>2, <1>5, <2>1, <2>4, <2>5, <2>6, <2>7
    <3>2. CollOK(u)'
      BY <3>1 DEF CollOK
    <3>3. (u \notin ToSet(distrib'.tags) \/ u \in distrib'.complete_ports \/ closed'[Src(u)])
            => Completed(u)
      <4>1. closed'[Src(u)] => Completed(u)
        BY <1>4, <2>3, <3>1 DEF DistOK
      <4> QED BY <1>2, <2>2, <4>1
    <3>4. DistOK(u)'
      BY <3>1, <3>3 DEF DistOK
    <3> QED BY <3>2, <3>4
  <2>9. DistTodoOK'
    BY <1>2 DEF DistTodoOK, DistCalls
  <2>10. ASSUME NEW b \in Branches PROVE BranchOK(b)'
    <3>1. BranchOK(b) /\ b[1] \in TagSet
      BY <1>8, TheEdges DEF OrderInv
    <3>2. /\ q'[Coll(b)] = q[Coll(b)] /\ q'[Dist(b)] = q[Dist(b)]
          /\ closed'[Coll(b)] = closed[Coll(b)] /\ closed'[Dist(b)] = closed[Dist(b)]
      BY <1>4, TheEdges DEF DistInputs
    <3>3. Line(b)' = Line(b)
      BY <1>1, <3>2 DEF Line, Hand
    <3>4. Coming(b)' = Coming(b)
      BY <1>2, <2>5, <3>1 DEF Coming
    <3> QED BY <1>1, <2>5, <2>7, <3>1, <3>2, <3>3, <3>4, BranchFrame
  <2> QED BY <2>7, <2>8, <2>9, <2>10
<1>9. Live' <=> Live
  BY <1>1 DEF Live
<1> QED
  BY <1>6, <1>7, <1>8, <1>9 DEF OrderInv


-----------------------------------------------------------------------------
(* The steps of collate keep the order.                                    *)

LEMMA DistributeFrame ==
  ASSUME TypeInv, OrderInv, distrib' = distrib, sent' = sent,
         \A u \in TagSet : q'[Src(u)] = q[Src(u)] /\ closed'[Src(u)] = closed[Src(u)]
  PROVE  /\ OutputsOnly'
         /\ \A u \in TagSet : Taken(u)' = Taken(u) /\ Told(u)' = Told(u)
                              /\ (Completed(u)' <=> Completed(u))
         /\ \A b \in Branches : Coming(b)' = Coming(b)
         /\ Live => DistTodoOK' /\ \A u \in TagSet : DistOK(u)'
<1>1. OutputsOnly'
  BY DEF OrderInv, OutputsOnly
<1>2. \A u \in TagSet : Taken(u)' = Taken(u) /\ Told(u)' = Told(u)
  BY DEF Taken, Told
<1>3. \A u \in TagSet : Completed(u)' <=> Completed(u)
  BY <1>2 DEF Completed
<1>4. \A b \in Branches : Coming(b)' = Coming(b)
  <2>1. \A b \in Branches : b[1] \in TagSet
    BY TheEdges
  <2> QED BY <1>2, <2>1 DEF Coming
<1>5. ASSUME Live PROVE DistTodoOK' /\ \A u \in TagSet : DistOK(u)'
  <2>1. DistTodoOK'
    <3>0. DistTodoOK
      BY <1>5 DEF OrderInv
    <3>1. CASE distrib.todo = <<>>
      BY <3>1 DEF DistTodoOK, DistCalls
    <3>2. CASE distrib.todo # <<>>
      <4>1. PICK u \in TagSet : u = Turn(distrib)
        BY <3>2, TheTurns
      <4> QED BY <1>2, <3>0, <4>1 DEF DistTodoOK, Turn
    <3> QED BY <3>1, <3>2
  <2>2. ASSUME NEW u \in TagSet PROVE DistOK(u)'
    <3>1. DistOK(u)
      BY <1>5 DEF OrderInv
    <3> QED BY <1>2, <1>3, <3>1 DEF DistOK
  <2> QED BY <2>1, <2>2
<1> QED
  BY <1>1, <1>2, <1>3, <1>4, <1>5

LEMMA OrderCollateTurn ==
  ASSUME TypeInv, OrderInv, CollateTurn
  PROVE  OrderInv'
<1>1. PICK t \in TagSet : t = Turn(collate)
  BY LoopParts DEF CollateTurn, Idle, TypeInv
<1> DEFINE x == Head(q[Status(t)])
           calls == CollateCalls(t, x)
           k == Seen(t) + 1
           y == sent[t][k]
<1>2. /\ Idle(collate) /\ q[Status(t)] # <<>> /\ q' = [q EXCEPT ![Status(t)] = Tail(@)]
      /\ collate' = Started(collate, x, calls)
      /\ UNCHANGED <<closed, distrib, held, ended, sent, got>>
  BY <1>1 DEF CollateTurn
<1>3. /\ q \in [Edges -> Seq(Items)] /\ LoopOK(collate) /\ Status(t) \in Edges
      /\ x \in Items /\ x = q[Status(t)][1] /\ collate.todo = <<>> /\ Live
      /\ Len(Tail(q[Status(t)])) = Len(q[Status(t)]) - 1 /\ Len(q[Status(t)]) \in Nat
      /\ Len(q[Status(t)]) >= 1
      /\ \A i \in 1..(Len(q[Status(t)]) - 1) : Tail(q[Status(t)])[i] = q[Status(t)][i + 1]
  <2>1. /\ q \in [Edges -> Seq(Items)] /\ LoopOK(collate) /\ Status(t) \in Edges
        /\ collate.todo = <<>> /\ Live
    BY <1>2, TheEdges DEF TypeInv, Queues, Idle, Live
  <2>2. q[Status(t)] \in Seq(Items)
    BY <2>1
  <2> QED BY <1>2, <2>1, <2>2, SomeLists
<1>4. /\ CallsOK(calls) /\ Apart(calls) /\ calls # <<>>
      /\ Control(x) => calls[1] = Push(Res(t), x)
      /\ ~Control(x) => calls = <<Forward(Coll(OfTag(t)[collate.cur_port[t]]))>>
                        /\ OfTag(t)[collate.cur_port[t]] \in Branches
                        /\ OfTag(t)[collate.cur_port[t]][1] = t
      /\ \A i \in 1..Len(calls) : Control(x) /\ i # 1 =>
           \E b \in Branches : b[1] = t /\ calls[i] = Grab(Coll(b))
      /\ \A b \in Branches :
           Calling(calls, Coll(b)) <=> b[1] = t /\ (Control(x) \/ b = OfTag(t)[collate.cur_port[t]])
  BY <1>3, CollateCallsAre
<1>5. /\ collate'.tags = collate.tags /\ collate'.pos = collate.pos /\ collate'.todo = calls
      /\ collate'.cur_port = [collate.cur_port EXCEPT ![t] = Next_port(collate, t, x)]
      /\ collate'.is_complete = collate.is_complete
      /\ collate.cur_port \in [TagSet -> Nat]
  <2>1. Started(collate, x, calls) =
          [tags |-> collate.tags, pos |-> collate.pos, todo |-> calls,
           cur_port |-> [collate.cur_port EXCEPT ![t] = Next_port(collate, t, x)],
           complete_ports |-> IF x.type = "complete" THEN collate.complete_ports \cup {t}
                              ELSE collate.complete_ports,
           is_complete |-> collate.is_complete]
    BY <1>1, <1>2, <1>3, <1>4, LoopStarted
  <2>2. collate.cur_port \in [TagSet -> Nat]
    BY <1>3, LoopParts
  <2> HIDE DEF x, calls
  <2> QED BY <1>2, <2>1, <2>2
<1> HIDE DEF x, calls
<1>6. \A e \in Edges : e # Status(t) => q'[e] = q[e]
  BY <1>2, <1>3
<1>7. q'[Status(t)] = Tail(q[Status(t)])
  BY <1>2, <1>3
<1>8. \A u \in TagSet : SentOK(u)' /\ ResOK(u)'
  <2> TAKE u \in TagSet
  <2>1. q'[Res(u)] = q[Res(u)] /\ SentOK(u) /\ ResOK(u)
    BY <1>6, TheEdges DEF OrderInv
  <2> QED BY <1>2, <2>1, StreamKept
<1>9. \A u \in TagSet : DistOK(u) /\ CollOK(u) /\ SentOK(u)
  BY <1>3 DEF OrderInv
<1>10. /\ OutputsOnly' /\ DistTodoOK' /\ \A u \in TagSet : DistOK(u)'
       /\ \A u \in TagSet : Taken(u)' = Taken(u) /\ Told(u)' = Told(u)
                            /\ (Completed(u)' <=> Completed(u))
       /\ \A b \in Branches : Coming(b)' = Coming(b)
  <2>1. \A u \in TagSet : q'[Src(u)] = q[Src(u)] /\ closed'[Src(u)] = closed[Src(u)]
    BY <1>2, <1>6, TheEdges
  <2> QED BY <1>2, <1>3, <2>1, DistributeFrame
<1>11. /\ Seen(t) \in Nat /\ Seen(t)' = k /\ k \in 1..Taken(t) /\ k \in 1..Len(sent[t])
       /\ k \in Nat
  <2> DEFINE w == Len(q[Status(t)])
             s == Seen(t)
             n == Taken(t)
             d == Told(t)
             z == Len(sent[t])
  <2>1. s = (n - d) - w /\ s >= 0 /\ s \in Int /\ n \in Int /\ d \in {0, 1} /\ w \in Nat /\ w >= 1
        /\ n <= z /\ z \in Nat
    BY <1>3, <1>9, Sizes DEF Seen, CollOK
  <2>2. Seen(t)' = (n - d) - (w - 1)
    BY <1>3, <1>7, <1>10 DEF Seen
  <2> HIDE DEF w, s, n, d, z
  <2>3. (n - d) - (w - 1) = s + 1 /\ s + 1 \in 1..n /\ s + 1 \in 1..z /\ s \in Nat /\ s + 1 \in Nat
    BY <2>1
  <2> QED BY <2>2, <2>3 DEF s, n, z
<1>12. x = Stat(y) /\ y \in Items /\ (Control(x) <=> Control(y)) /\ (Control(x) => x = y)
       /\ (x.type = "complete" <=> y.type = "complete")
  <2>1. \A j \in 1..Len(q[Status(t)]) : q[Status(t)][j] = Stat(sent[t][Seen(t) + j])
    BY <1>9 DEF CollOK
  <2>2. 1 \in 1..Len(q[Status(t)])
    BY <1>3
  <2>3. x = Stat(y)
    BY <1>3, <2>1, <2>2
  <2>4. y \in Items
    BY <1>11, Sizes
  <2> HIDE DEF y
  <2> QED BY <2>3, <2>4, CallParts
<1>13. collate.cur_port[t] = (Seen(t) % Ports(t)) + 1 /\ OfTag(t)[collate.cur_port[t]] = PortOf(t, k)
  <2>1. ~Complete(sent[t], Seen(t))
    <3> SUFFICES ASSUME Complete(sent[t], Seen(t)) PROVE FALSE
      OBVIOUS
    <3>0. Seen(t) \in Nat /\ Len(sent[t]) \in Nat /\ k = Seen(t) + 1 /\ k \in 1..Len(sent[t])
      BY <1>11, Sizes
    <3>1. Seen(t) \in 1..Len(sent[t])
      BY <3>0 DEF Complete
    <3>2. Seen(t) = Len(sent[t])
      BY <1>9, <3>1 DEF SentOK, Complete
    <3> QED BY <3>0, <3>2
  <2>2. collate.cur_port[t] = (Seen(t) % Ports(t)) + 1
    BY <1>9, <2>1 DEF CollOK
  <2> QED BY <1>11, <2>2, NextPort
<1>14. /\ \A u \in TagSet : u # t => Seen(u)' = Seen(u) /\ q'[Status(u)] = q[Status(u)]
       /\ \A u \in TagSet : Owed(u) = 0 /\ Owed(u)' = IF u = t THEN 1 ELSE 0
  <2>1. \A u \in TagSet : u # t => q'[Status(u)] = q[Status(u)]
    BY <1>6, TheEdges
  <2>2. \A u \in TagSet : u # t => Seen(u)' = Seen(u)
    BY <1>10, <2>1 DEF Seen
  <2>3. calls[1].op # "grab"
    <3>1. CASE Control(x)
      BY <1>4, <3>1, CallParts
    <3>2. CASE ~Control(x)
      BY <1>4, <3>2, CallParts
    <3> QED BY <3>1, <3>2
  <2>4. \A u \in TagSet : Owed(u) = 0
    BY <1>3 DEF Owed
  <2>5. Turn(collate)' = t
    BY <1>1, <1>5 DEF Turn
  <2>6. \A u \in TagSet : Owed(u)' = IF u = t THEN 1 ELSE 0
    BY <1>4, <1>5, <2>3, <2>5 DEF Owed
  <2> QED BY <2>1, <2>2, <2>4, <2>6
<1> HIDE DEF y, k
<1>k. k = Seen(t) + 1 /\ y = sent[t][k]
  BY DEF k, y
<1>15. ASSUME NEW u \in TagSet PROVE CollOK(u)'
  <2>1. q'[Res(u)] = q[Res(u)] /\ CollOK(u)
    BY <1>6, <1>9, TheEdges
  <2>2. CASE u # t
    <3>1. /\ q'[Status(u)] = q[Status(u)] /\ Seen(u)' = Seen(u) /\ Owed(u)' = Owed(u)
          /\ closed' = closed /\ got' = got /\ sent' = sent
          /\ collate'.cur_port[u] = collate.cur_port[u]
      BY <1>2, <1>5, <1>14, <2>2
    <3> QED BY <2>1, <3>1 DEF CollOK
  <2>3. CASE u = t
    <3>1. \A j \in 1..Len(q'[Status(t)]) : q'[Status(t)][j] = Stat(sent[t][k + j])
      <4> DEFINE w == Len(q[Status(t)])
                 s == Seen(t)
      <4>1. Len(q'[Status(t)]) = w - 1 /\ w \in Nat /\ s \in Nat /\ k = s + 1
        BY <1>3, <1>7, <1>11, <1>k
      <4>2. \A j \in 1..w : q[Status(t)][j] = Stat(sent[t][s + j])
        BY <1>9 DEF CollOK
      <4>3. \A j \in 1..(w - 1) : q'[Status(t)][j] = q[Status(t)][j + 1]
        BY <1>3, <1>7
      <4> HIDE DEF w, s
      <4>4. \A j \in 1..(w - 1) : j + 1 \in 1..w /\ s + (j + 1) = k + j
        BY <4>1
      <4> QED BY <4>1, <4>2, <4>3, <4>4
    <3>2. ~Complete(sent[t], k) => collate'.cur_port[t] = (k % Ports(t)) + 1
      <4> SUFFICES ASSUME ~Complete(sent[t], k) PROVE collate'.cur_port[t] = (k % Ports(t)) + 1
        OBVIOUS
      <4>1. x.type # "complete"
        BY <1>11, <1>12, <1>k DEF Complete
      <4>2. collate'.cur_port[t] = (collate.cur_port[t] % Len(Groups[t])) + 1
        BY <1>5, <4>1 DEF Next_port
      <4> QED BY <1>11, <1>13, <1>k, <4>2, NextPort
    <3>3. ~closed[Status(t)] /\ (~closed[Res(t)] => Len(got[t]) + Len(q[Res(t)]) = Seen(t) - 0)
      BY <1>9, <1>14 DEF CollOK
    <3>4. ~closed[Res(t)] => Len(got[t]) + Len(q[Res(t)]) = k - 1
      <4> DEFINE s == Seen(t)
      <4>1. s \in Nat /\ k = s + 1 /\ (~closed[Res(t)] => Len(got[t]) + Len(q[Res(t)]) = s - 0)
        BY <1>11, <1>k, <3>3
      <4> HIDE DEF s
      <4>2. s - 0 = k - 1
        BY <4>1
      <4> QED BY <4>1, <4>2
    <3>5. k >= 0
      BY <1>11
    <3> QED BY <1>2, <1>11, <1>14, <2>1, <2>3, <3>1, <3>2, <3>3, <3>4, <3>5 DEF CollOK
  <2> QED BY <2>2, <2>3
<1>16. CollTodoOK'
  <2>1. CollCalls(calls, t, y, k)
    <3>1. k >= 1
      BY <1>11
    <3>2. CASE Control(x)
      <4>1. \A b \in Branches : Through(b, y, k)
        BY <1>12, <3>2 DEF Through
      <4>2. \A i \in 1..Len(calls) :
              \/ i = 1 /\ calls[i] = Push(Res(t), y)
              \/ \E b \in Branches : b[1] = t /\ Through(b, y, k) /\ calls[i] = Grab(Coll(b))
        BY <1>4, <1>12, <3>2, <4>1
      <4> QED BY <1>4, <1>12, <3>1, <3>2, <4>2 DEF CollCalls
    <3>3. CASE ~Control(x)
      <4> DEFINE b == OfTag(t)[collate.cur_port[t]]
      <4>1. calls = <<Forward(Coll(b))>> /\ b \in Branches /\ b[1] = t /\ b = PortOf(t, k)
        BY <1>4, <1>13, <3>3
      <4> HIDE DEF b
      <4>2. Through(b, y, k)
        BY <4>1 DEF Through
      <4> DEFINE f == Forward(Coll(b))
      <4>3. f = Forward(Coll(b)) /\ calls = <<f>>
        BY <4>1
      <4> HIDE DEF f
      <4>4. Len(calls) = 1 /\ calls[1] = Forward(Coll(b))
        BY <4>3
      <4>5. \A i \in 1..Len(calls) : i = 1
        BY <4>4
      <4> QED BY <1>4, <1>12, <3>1, <3>3, <4>1, <4>2, <4>4, <4>5 DEF CollCalls
    <3> QED BY <3>2, <3>3
  <2>2. Turn(collate)' = t
    BY <1>1, <1>5 DEF Turn
  <2> QED BY <1>2, <1>5, <1>11, <1>k, <2>1, <2>2 DEF CollTodoOK
<1>17. ASSUME NEW b \in Branches PROVE BranchOK(b)'
  <2>1. BranchOK(b) /\ b[1] \in TagSet
    BY <1>3, TheEdges DEF OrderInv
  <2>2. Line(b)' = Line(b)
    <3>1. q'[Coll(b)] = q[Coll(b)] /\ q'[Dist(b)] = q[Dist(b)]
      BY <1>6, TheEdges
    <3> QED BY <1>2, <3>1 DEF Line, Hand
  <2>3. Fetched(b) = Seen(b[1])
    BY <1>3 DEF Fetched, Calling
  <2>4. CASE b[1] # t
    <3>1. Fetched(b)' = Fetched(b)
      BY <1>4, <1>5, <1>14, <2>1, <2>3, <2>4 DEF Fetched
    <3> QED BY <1>2, <1>10, <2>1, <2>2, <3>1, BranchFrame
  <2>5. CASE b[1] = t
    <3> DEFINE f == Seen(t)
               n == Taken(t)
               g == IF Through(b, sent[t][f + 1], f + 1) THEN f ELSE f + 1
               l == Line(b)
    <3>1. n \in Nat /\ f \in Int
      BY <1>11, Sizes
    <3>2. Flows(b, sent[t], n, l, Coming(b), f)
      BY <2>1, <2>3, <2>5 DEF BranchOK
    <3>3. Flows(b, sent[t], n, l, Coming(b), g)
      <4> HIDE DEF l, n, f
      <4> QED BY <3>1, <3>2, FlowsTold
    <3>4. Calling(calls, Coll(b)) <=> Through(b, y, k)
      BY <1>4, <1>12, <1>13, <2>5 DEF Through
    <3>5. Fetched(b)' = IF Through(b, y, k) THEN k - 1 ELSE k
      BY <1>5, <1>11, <2>5, <3>4 DEF Fetched
    <3>6. Fetched(b)' = g
      BY <1>11, <1>k, <3>5
    <3> HIDE DEF g
    <3>7. Flows(b, sent'[b[1]], Taken(b[1])', Line(b)', Coming(b)', Fetched(b)')
      BY <1>2, <1>10, <2>2, <2>5, <3>3, <3>6
    <3> QED BY <1>2, <1>10, <2>1, <2>5, <3>7 DEF BranchOK
  <2> QED BY <2>4, <2>5
<1> QED
  BY <1>8, <1>10, <1>15, <1>16, <1>17 DEF OrderInv


(* What a step of collate that does not end its _step leaves as it is.     *)
LEMMA CollateSteps ==
  ASSUME TypeInv, OrderInv, Live, UNCHANGED <<closed, distrib, held, ended, sent, got>>,
         \A u \in TagSet : q'[Src(u)] = q[Src(u)] /\ q'[Status(u)] = q[Status(u)]
  PROVE  /\ OutputsOnly' /\ DistTodoOK' /\ \A u \in TagSet : DistOK(u)'
         /\ \A u \in TagSet : Taken(u)' = Taken(u) /\ Seen(u)' = Seen(u)
                              /\ (Completed(u)' <=> Completed(u))
         /\ \A b \in Branches : Coming(b)' = Coming(b)
<1>1. /\ OutputsOnly' /\ DistTodoOK' /\ \A u \in TagSet : DistOK(u)'
      /\ \A u \in TagSet : Taken(u)' = Taken(u) /\ Told(u)' = Told(u)
                           /\ (Completed(u)' <=> Completed(u))
      /\ \A b \in Branches : Coming(b)' = Coming(b)
  BY DistributeFrame
<1>2. \A u \in TagSet : Seen(u)' = Seen(u)
  BY <1>1 DEF Seen
<1> QED
  BY <1>1, <1>2

(* The call that collate makes, in the terms of the stream.                *)
LEMMA CollateDue ==
  ASSUME TypeInv, OrderInv, collate.todo # <<>>
  PROVE  LET c == collate.todo[1]
             t == Turn(collate)
             k == Seen(t)
             x == sent[t][k]
         IN  /\ Live /\ t \in TagSet /\ k \in Nat /\ k \in 1..Taken(t) /\ k \in 1..Len(sent[t])
             /\ x \in Items /\ x.no = k
             /\ collate.todo \in Seq(Calls) /\ Head(collate.todo) = c /\ Apart(collate.todo)
             /\ ~Control(x) => Len(collate.todo) = 1
             /\ \/ c = Push(Res(t), x)
                \/ \E b \in Branches : /\ b[1] = t /\ Through(b, x, k)
                                       /\ \/ Control(x) /\ c = Grab(Coll(b))
                                          \/ ~Control(x) /\ c = Forward(Coll(b))
             /\ \A i \in 1..Len(Tail(collate.todo)) :
                  \E b \in Branches : b[1] = t /\ Through(b, x, k) /\ Control(x)
                                      /\ Tail(collate.todo)[i] = Grab(Coll(b))
             /\ CollCalls(Tail(collate.todo), t, x, k)
<1> DEFINE c == collate.todo[1]
           m == Tail(collate.todo)
<1>1. PICK t \in TagSet : t = Turn(collate)
  BY TheTurns
<1> DEFINE k == Seen(t)
           x == sent[t][k]
<1>2. Live /\ collate.todo \in Seq(Calls)
  <2>1. LoopOK(collate)
    BY DEF TypeInv
  <2> QED BY <2>1, LoopParts DEF LoopOK, Live
<1>3. CollCalls(collate.todo, t, x, k) /\ SentOK(t)
  BY <1>1, <1>2 DEF OrderInv, CollTodoOK
<1>4. k \in Nat /\ k \in 1..Taken(t) /\ k \in 1..Len(sent[t])
  <2> DEFINE n == Taken(t)
             z == Len(sent[t])
  <2>1. k \in Int /\ n \in Int /\ z \in Nat /\ k <= n /\ n <= z
    BY Sizes
  <2>2. k >= 1
    <3> HIDE DEF k, x
    <3> QED BY <1>3 DEF CollCalls
  <2> HIDE DEF k, n, z
  <2>3. k \in Nat /\ k \in 1..n /\ k \in 1..z
    BY <2>1, <2>2
  <2> QED BY <2>3 DEF n, z
<1>5. x \in Items /\ x.no = k
  BY <1>3, <1>4, Sizes DEF SentOK
<1> HIDE DEF k, x
<1>6. /\ Apart(collate.todo) /\ (~Control(x) => Len(collate.todo) = 1) /\ k >= 1
      /\ \A i \in 1..Len(collate.todo) :
           \/ i = 1 /\ collate.todo[i] = Push(Res(t), x)
           \/ \E b \in Branches : /\ b[1] = t /\ Through(b, x, k)
                                  /\ \/ Control(x) /\ collate.todo[i] = Grab(Coll(b))
                                     \/ ~Control(x) /\ collate.todo[i] = Forward(Coll(b))
  BY <1>3 DEF CollCalls
<1>7. /\ \A i \in 1..Len(m) : i + 1 \in 1..Len(collate.todo) /\ i + 1 # 1
                               /\ m[i] = collate.todo[i + 1]
      /\ 1 \in 1..Len(collate.todo) /\ Head(collate.todo) = c /\ Apart(m)
  BY <1>2, <1>6, CallMade
<1>8. ~Control(x) => Len(m) = 0
  <2>1. Len(m) = Len(collate.todo) - 1
    BY <1>2, SomeLists
  <2> HIDE DEF m
  <2> QED BY <1>6, <2>1
<1>9. \A i \in 1..Len(m) : \E b \in Branches : b[1] = t /\ Through(b, x, k) /\ Control(x)
                                               /\ m[i] = Grab(Coll(b))
  <2> HIDE DEF m
  <2> SUFFICES ASSUME NEW i \in 1..Len(m)
               PROVE  \E b \in Branches : b[1] = t /\ Through(b, x, k) /\ Control(x)
                                          /\ m[i] = Grab(Coll(b))
    OBVIOUS
  <2>1. Control(x)
    BY <1>8
  <2> QED BY <1>6, <1>7, <2>1
<1>10. CollCalls(m, t, x, k)
  <2>1. m # <<>> => Control(x)
    <3>1. m \in Seq(Calls)
      BY <1>2, SomeLists
    <3> QED BY <1>8, <3>1, SomeLists
  <2> HIDE DEF m
  <2> QED BY <1>6, <1>7, <1>9, <2>1 DEF CollCalls
<1>11. \/ c = Push(Res(t), x)
       \/ \E b \in Branches : /\ b[1] = t /\ Through(b, x, k)
                              /\ \/ Control(x) /\ c = Grab(Coll(b))
                                 \/ ~Control(x) /\ c = Forward(Coll(b))
  BY <1>6, <1>7
<1> QED
  BY <1>1, <1>2, <1>4, <1>5, <1>6, <1>7, <1>9, <1>10, <1>11 DEF k, x


LEMMA OrderCollatePush ==
  ASSUME TypeInv, OrderInv, CollatePush
  PROVE  OrderInv'
<1> DEFINE m == Tail(collate.todo)
<1>1. /\ Due(collate) = "push" /\ LoopOK(collate) /\ q \in [Edges -> Seq(Items)]
      /\ q' = Pushed(Head(collate.todo).edge, Head(collate.todo).item)
      /\ collate' = Called(collate, m)
      /\ UNCHANGED <<closed, distrib, held, ended, sent, got>>
  BY DEF CollatePush, TypeInv, Queues
<1>2. collate.todo # <<>> /\ Head(collate.todo).op = "push"
  BY <1>1, LoopParts
<1>3. PICK t \in TagSet : t = Turn(collate)
  BY <1>2, TheTurns
<1> DEFINE k == Seen(t)
           x == sent[t][k]
<1>4. /\ Live /\ k \in Nat /\ k \in 1..Len(sent[t]) /\ x \in Items
      /\ collate.todo \in Seq(Calls) /\ Head(collate.todo) = collate.todo[1]
      /\ Apart(collate.todo) /\ CollCalls(m, t, x, k)
      /\ \A i \in 1..Len(m) : \E b \in Branches : b[1] = t /\ m[i] = Grab(Coll(b))
      /\ collate.todo[1] = Push(Res(t), x)
  BY <1>2, <1>3, CollateDue, CallParts
<1>5. /\ collate'.todo = m /\ collate'.cur_port = collate.cur_port
      /\ collate'.is_complete = collate.is_complete /\ (m # <<>> => Turn(collate)' = t)
  <2>1. LET n == Called(collate, Tail(collate.todo))
        IN  /\ n.cur_port = collate.cur_port /\ n.todo = Tail(collate.todo)
            /\ n.is_complete = collate.is_complete /\ (n.todo # <<>> => Turn(n) = Turn(collate))
    BY <1>1, <1>2, LoopCalled
  <2>2. Turn(collate)' = Turn(collate')
    BY DEF Turn
  <2> QED BY <1>1, <1>3, <2>1, <2>2
<1>6. /\ \A e : Calling(m, e) <=> Calling(collate.todo, e) /\ e # Res(t)
      /\ m # <<>> => 1 \in 1..Len(m)
  <2>1. collate.todo[1].edge = Res(t)
    BY <1>4, CallParts
  <2>2. m \in Seq(Calls)
    BY <1>2, <1>4, SomeLists
  <2>3. m # <<>> => 1 \in 1..Len(m)
    BY <2>2, CallMade
  <2> QED BY <1>2, <1>4, <2>1, <2>3, CallMade
<1> HIDE DEF m
<1>7. /\ q' = Pushed(Res(t), x) /\ Res(t) \in Edges
      /\ \A e \in Edges : e # Res(t) => q'[e] = q[e]
      /\ closed[Res(t)] => q'[Res(t)] = q[Res(t)]
      /\ ~closed[Res(t)] => q'[Res(t)] = Append(q[Res(t)], x)
  <2>1. Res(t) \in Edges
    BY TheEdges
  <2>2. q' = Pushed(Res(t), x)
    BY <1>1, <1>4, CallParts
  <2> HIDE DEF x
  <2> QED BY <1>1, <2>1, <2>2 DEF Pushed
<1>8. \A u \in TagSet : q'[Src(u)] = q[Src(u)] /\ q'[Status(u)] = q[Status(u)]
  BY <1>7, TheEdges
<1>9. /\ OutputsOnly' /\ DistTodoOK' /\ \A u \in TagSet : DistOK(u)'
      /\ \A u \in TagSet : Taken(u)' = Taken(u) /\ Seen(u)' = Seen(u)
                           /\ (Completed(u)' <=> Completed(u))
      /\ \A b \in Branches : Coming(b)' = Coming(b)
  BY <1>1, <1>4, <1>8, CollateSteps
<1>10. \A u \in TagSet : Owed(u) = (IF u = t THEN 1 ELSE 0) /\ Owed(u)' = 0
  <2>1. \A u \in TagSet : Owed(u) = (IF u = t THEN 1 ELSE 0)
    BY <1>2, <1>3, <1>4 DEF Owed
  <2>2. m # <<>> => m[1].op = "grab"
    BY <1>4, <1>6, CallParts
  <2> QED BY <1>5, <2>1, <2>2 DEF Owed
<1>11. \A u \in TagSet : DistOK(u) /\ CollOK(u) /\ SentOK(u) /\ ResOK(u)
  BY <1>4 DEF OrderInv
<1>12. ASSUME ~closed[Res(t)]
       PROVE  /\ Len(q'[Res(t)]) = Len(q[Res(t)]) + 1
              /\ Len(got[t]) + Len(q[Res(t)]) = k - 1
              /\ Len(got[t]) + (Len(q[Res(t)]) + 1) = k
              /\ q'[Res(t)][Len(q[Res(t)]) + 1] = x
              /\ \A j \in 1..Len(q[Res(t)]) : q'[Res(t)][j] = q[Res(t)][j]
              /\ \A j \in 1..(Len(q[Res(t)]) + 1) : j \in 1..Len(q[Res(t)]) \/ j = Len(q[Res(t)]) + 1
  <2>1. q[Res(t)] \in Seq(Items) /\ Len(got[t]) \in Nat /\ Len(q[Res(t)]) \in Nat
    BY Sizes
  <2>2. q'[Res(t)] = Append(q[Res(t)], x)
    BY <1>7, <1>12
  <2>3. Len(got[t]) + Len(q[Res(t)]) = k - 1
    BY <1>10, <1>11, <1>12 DEF CollOK
  <2>4. k \in Nat /\ x \in Items
    BY <1>4
  <2> HIDE DEF k, x
  <2> DEFINE g == Len(got[t])
             w == Len(q[Res(t)])
  <2>5. /\ Len(q'[Res(t)]) = w + 1 /\ q'[Res(t)][w + 1] = x
        /\ \A j \in 1..w : q'[Res(t)][j] = q[Res(t)][j]
    BY <2>1, <2>2, <2>4, SomeLists
  <2>6. g \in Nat /\ w \in Nat /\ g + w = k - 1
    BY <2>1, <2>3
  <2> HIDE DEF g, w
  <2>7. g + (w + 1) = k /\ \A j \in 1..(w + 1) : j \in 1..w \/ j = w + 1
    BY <2>4, <2>6
  <2> QED BY <2>5, <2>6, <2>7 DEF g, w
<1>13. \A u \in TagSet : SentOK(u)' /\ ResOK(u)'
  <2> TAKE u \in TagSet
  <2>1. CASE q'[Res(u)] = q[Res(u)]
    BY <1>1, <1>11, <2>1, StreamKept
  <2>2. CASE u = t /\ ~closed[Res(t)]
    <3>1. SentOK(u)'
      BY <1>1, <1>11 DEF SentOK
    <3>2. k <= Len(sent[t])
      BY <1>4
    <3>3. \A j \in 1..Len(q[Res(t)]) : q[Res(t)][j] = sent[t][Len(got[t]) + j]
      BY <1>11 DEF ResOK
    <3>4. sent[t][Len(got[t]) + (Len(q[Res(t)]) + 1)] = x
      BY <1>12, <2>2
    <3> HIDE DEF x, k
    <3>5. \A j \in 1..Len(q'[Res(t)]) : q'[Res(t)][j] = sent[t][Len(got[t]) + j]
      BY <1>12, <2>2, <3>3, <3>4
    <3>6. Len(got[t]) + Len(q'[Res(t)]) <= Len(sent[t])
      BY <1>12, <2>2, <3>2
    <3>7. \A i \in 1..Len(got[t]) : got[t][i] = sent[t][i]
      BY <1>11 DEF ResOK
    <3>8. ResOK(t)'
      BY <1>1, <3>5, <3>6, <3>7 DEF ResOK
    <3> QED BY <2>2, <3>1, <3>8
  <2>3. CASE u # t
    <3>1. Res(u) # Res(t) /\ Res(u) \in Edges
      BY <2>3, TheEdges
    <3>2. q'[Res(u)] = q[Res(u)]
      BY <1>7, <3>1
    <3> QED BY <2>1, <3>2
  <2> QED BY <1>7, <2>1, <2>2, <2>3
<1>14. ASSUME NEW u \in TagSet PROVE CollOK(u)'
  <2>1. CollOK(u) /\ q'[Status(u)] = q[Status(u)] /\ Seen(u)' = Seen(u) /\ Owed(u)' = 0
    BY <1>8, <1>9, <1>10, <1>11
  <2>2. ~closed[Res(u)] => Len(got[u]) + Len(q'[Res(u)]) = Seen(u) - Owed(u)'
    <3>1. Seen(u) \in Int
      BY Sizes
    <3>2. CASE u = t
      <4>1. k - 0 = k
        BY <1>4
      <4> QED BY <1>12, <2>1, <3>2, <4>1
    <3>3. CASE u # t
      <4>1. Owed(u) = 0 /\ q'[Res(u)] = q[Res(u)]
        BY <1>7, <1>10, <3>3, TheEdges
      <4> QED BY <2>1, <4>1 DEF CollOK
    <3> QED BY <3>2, <3>3
  <2> HIDE DEF k, x
  <2>3. /\ Seen(u) >= 0 /\ ~closed[Status(u)]
        /\ \A j \in 1..Len(q[Status(u)]) : q[Status(u)][j] = Stat(sent[u][Seen(u) + j])
        /\ ~Complete(sent[u], Seen(u)) => collate.cur_port[u] = (Seen(u) % Ports(u)) + 1
    BY <2>1 DEF CollOK
  <2> QED BY <1>1, <1>5, <2>1, <2>2, <2>3 DEF CollOK
<1>15. CollTodoOK'
  <2>1. CASE m = <<>>
    BY <1>5, <2>1 DEF CollTodoOK, CollCalls
  <2>2. CASE m # <<>>
    <3>1. Turn(collate)' = t /\ Seen(t)' = k /\ sent'[t][k] = x
      BY <1>1, <1>5, <1>9, <2>2
    <3>2. CollCalls(m, t, x, k)
      BY <1>4
    <3> HIDE DEF k, x
    <3> QED BY <1>5, <3>1, <3>2 DEF CollTodoOK
  <2> QED BY <2>1, <2>2
<1>16. ASSUME NEW b \in Branches PROVE BranchOK(b)'
  <2>1. BranchOK(b) /\ b[1] \in TagSet
    BY <1>4, TheEdges DEF OrderInv
  <2>2. Line(b)' = Line(b)
    <3>1. q'[Coll(b)] = q[Coll(b)] /\ q'[Dist(b)] = q[Dist(b)]
      BY <1>7, TheEdges
    <3> QED BY <1>1, <3>1 DEF Line, Hand
  <2>3. Calling(m, Coll(b)) <=> Calling(collate.todo, Coll(b))
    BY <1>6, TheEdges
  <2>4. Fetched(b)' = Fetched(b)
    BY <1>5, <1>9, <2>1, <2>3 DEF Fetched
  <2> HIDE DEF k, x
  <2> QED BY <1>1, <1>9, <2>1, <2>2, <2>4, BranchFrame
<1>17. Live'
  BY <1>4, <1>5 DEF Live
<1> HIDE DEF k, x
<1> QED
  BY <1>9, <1>13, <1>14, <1>15, <1>16, <1>17 DEF OrderInv


(* What collate fetches from a branch is the very item it has been told    *)
(* of.                                                                     *)
LEMMA TheFetched ==
  ASSUME TypeInv, OrderInv, Live, NEW b \in Branches, Calling(collate.todo, Coll(b)),
         q[Coll(b)] # <<>>,
         Seen(b[1]) \in 1..Taken(b[1]), Through(b, sent[b[1]][Seen(b[1])], Seen(b[1]))
  PROVE  /\ Head(q[Coll(b)]) = sent[b[1]][Seen(b[1])]
         /\ Flows(b, sent[b[1]], Taken(b[1]), Tail(Line(b)), Coming(b), Seen(b[1]))
         /\ (Tail(q[Coll(b)]) \o Hand(b)) \o q[Dist(b)] = Tail(Line(b))
<1> DEFINE a == q[Coll(b)]
           h == Hand(b)
           d == q[Dist(b)]
           l == Line(b)
           k == Seen(b[1])
           n == Taken(b[1])
           s == sent[b[1]]
           coming == Coming(b)
<1>1. /\ a \in Seq(Items) /\ h \in Seq(Items) /\ d \in Seq(Items) /\ l \in Seq(Items)
      /\ b[1] \in TagSet /\ l = (a \o h) \o d /\ a # <<>>
  BY Lines DEF Line
<1>2. Flows(b, s, n, l, coming, k - 1)
  BY DEF OrderInv, BranchOK, Fetched
<1>3. coming \subseteq {n}
  BY DEF Coming
<1>4. k \in 1..n /\ n \in Nat /\ Through(b, s[k], k)
  <2>1. n \in Int /\ k \in 1..n
    BY <1>1, Sizes
  <2> HIDE DEF n, k
  <2>2. n \in Nat
    BY <2>1
  <2> QED BY <2>1, <2>2 DEF k, n
<1> HIDE DEF a, h, d, l, k, n, s, coming
<1>5. /\ (Tail(a) \o h) \o d = Tail(l) /\ l # <<>> /\ Head(l) = Head(a)
  <2>1. a \in Seq(Items) /\ h \in Seq(Items) /\ d \in Seq(Items)
    BY <1>1
  <2>2. a # <<>> => /\ (Tail(a) \o h) \o d = Tail((a \o h) \o d)
                    /\ (a \o h) \o d # <<>> /\ Head((a \o h) \o d) = Head(a)
    BY ONLY <2>1, LineSteps
  <2> QED BY <1>1, <2>2
<1>6. Awaited(b, s, n, l, coming, k)
  BY <1>1, <1>2, <1>3, <1>4 DEF Awaited
<1>7. l[1] = s[k] /\ Head(l) = l[1]
  <2>1. l[1] = s[k]
    BY <1>5, <1>6, FlowsNext
  <2>2. Head(l) = l[1]
    BY <1>1, <1>5, SomeLists
  <2> QED BY <2>1, <2>2
<1>8. Flows(b, s, n, Tail(l), coming, k)
  BY <1>5, <1>6, FlowsFetched
<1> QED
  BY <1>5, <1>7, <1>8 DEF a, h, d, l, k, n, s, coming

LEMMA OrderCollateGrab ==
  ASSUME TypeInv, OrderInv, CollateGrab
  PROVE  OrderInv'
<1> DEFINE m == Tail(collate.todo)
<1>1. /\ Due(collate) \in {"grab", "forward"} /\ LoopOK(collate) /\ q \in [Edges -> Seq(Items)]
      /\ UNCHANGED <<closed, distrib, held, ended, sent, got>>
  BY DEF CollateGrab, TypeInv, Queues
<1>2. collate.todo # <<>> /\ Head(collate.todo).op = Due(collate)
  BY <1>1, LoopParts
<1>3. PICK t \in TagSet : t = Turn(collate)
  BY <1>2, TheTurns
<1> DEFINE k == Seen(t)
           x == sent[t][k]
<1>4. /\ Live /\ k \in Nat /\ k \in 1..Taken(t) /\ k \in 1..Len(sent[t]) /\ x \in Items
      /\ collate.todo \in Seq(Calls) /\ Head(collate.todo) = collate.todo[1]
      /\ Apart(collate.todo) /\ CollCalls(m, t, x, k) /\ (~Control(x) => Len(collate.todo) = 1)
      /\ \A i \in 1..Len(m) : \E b \in Branches : b[1] = t /\ m[i] = Grab(Coll(b))
      /\ \E b \in Branches : /\ b[1] = t /\ Through(b, x, k)
                             /\ \/ Control(x) /\ collate.todo[1] = Grab(Coll(b))
                                \/ ~Control(x) /\ collate.todo[1] = Forward(Coll(b))
  BY <1>1, <1>2, <1>3, CollateDue, CallParts
<1>5. PICK b0 \in Branches : /\ b0[1] = t /\ Through(b0, x, k)
                             /\ \/ Control(x) /\ collate.todo[1] = Grab(Coll(b0))
                                \/ ~Control(x) /\ collate.todo[1] = Forward(Coll(b0))
  BY <1>4
<1>6. /\ collate.todo[1].edge = Coll(b0) /\ Coll(b0) \in Edges
      /\ Control(x) => Due(collate) = "grab"
      /\ ~Control(x) => Due(collate) = "forward"
  BY <1>2, <1>4, <1>5, CallParts, TheEdges
<1>7. /\ q[Coll(b0)] # <<>> /\ q' = [q EXCEPT ![Coll(b0)] = Tail(@)]
      /\ collate' = IF Due(collate) = "grab" THEN Called(collate, m)
                    ELSE [collate EXCEPT !.todo = <<Push(Res(Turn(collate)), Head(q[Coll(b0)]))>>]
  BY <1>4, <1>6 DEF CollateGrab
<1>8. /\ \A i \in 1..Len(m) : i + 1 \in 1..Len(collate.todo)
      /\ 1 \in 1..Len(collate.todo)
      /\ \A e : Calling(m, e) <=> Calling(collate.todo, e) /\ e # Coll(b0)
      /\ m # <<>> => 1 \in 1..Len(m)
  <2>1. m \in Seq(Calls)
    BY <1>2, <1>4, SomeLists
  <2>2. m # <<>> => 1 \in 1..Len(m)
    BY <2>1, CallMade
  <2> QED BY <1>2, <1>4, <1>6, <2>2, CallMade
<1>9. Calling(collate.todo, Coll(b0))
  BY <1>6, <1>8 DEF Calling
<1>10. /\ Head(q[Coll(b0)]) = x
       /\ Flows(b0, sent[t], Taken(t), Tail(Line(b0)), Coming(b0), k)
       /\ (Tail(q[Coll(b0)]) \o Hand(b0)) \o q[Dist(b0)] = Tail(Line(b0))
  BY <1>4, <1>5, <1>7, <1>9, TheFetched
<1>11. /\ \A e \in Edges : e # Coll(b0) => q'[e] = q[e]
       /\ q'[Coll(b0)] = Tail(q[Coll(b0)])
  BY <1>1, <1>6, <1>7
<1>12. \A u \in TagSet : /\ q'[Src(u)] = q[Src(u)] /\ q'[Status(u)] = q[Status(u)]
                         /\ q'[Res(u)] = q[Res(u)]
  BY <1>11, TheEdges
<1>13. /\ OutputsOnly' /\ DistTodoOK' /\ \A u \in TagSet : DistOK(u)'
       /\ \A u \in TagSet : Taken(u)' = Taken(u) /\ Seen(u)' = Seen(u)
                            /\ (Completed(u)' <=> Completed(u))
       /\ \A b \in Branches : Coming(b)' = Coming(b)
  BY <1>1, <1>4, <1>12, CollateSteps
<1>14. /\ collate'.cur_port = collate.cur_port /\ collate'.is_complete = collate.is_complete
       /\ collate'.todo # <<>> => Turn(collate)' = t
       /\ \A u \in TagSet : Owed(u)' = Owed(u)
       /\ \A b \in Branches : Calling(collate'.todo, Coll(b)) <=> Calling(collate.todo, Coll(b)) /\ b # b0
       /\ CollCalls(collate'.todo, t, x, k)
  <2>0. \A b \in Branches : Coll(b) = Coll(b0) <=> b = b0
    BY TheEdges
  <2>1. CASE Control(x)
    <3>1. /\ collate'.todo = m /\ collate'.cur_port = collate.cur_port
          /\ collate'.is_complete = collate.is_complete /\ (m # <<>> => Turn(collate)' = t)
      <4>1. LET n == Called(collate, Tail(collate.todo))
            IN  /\ n.cur_port = collate.cur_port /\ n.todo = Tail(collate.todo)
                /\ n.is_complete = collate.is_complete
                /\ (n.todo # <<>> => Turn(n) = Turn(collate))
        BY <1>1, <1>2, LoopCalled
      <4>2. Turn(collate)' = Turn(collate') /\ collate' = Called(collate, m)
        BY <1>6, <1>7, <2>1 DEF Turn
      <4> QED BY <1>3, <4>1, <4>2
    <3> HIDE DEF m, k, x
    <3>2. \A u \in TagSet : Owed(u) = 0
      BY <1>2, <1>4, <1>6, <2>1 DEF Owed
    <3>3. m # <<>> => m[1].op = "grab"
      BY <1>4, <1>8, CallParts
    <3>4. \A u \in TagSet : Owed(u)' = 0
      BY <3>1, <3>3 DEF Owed
    <3> QED BY <1>4, <1>8, <2>0, <3>1, <3>2, <3>4
  <2>2. CASE ~Control(x)
    <3> DEFINE c == Push(Res(t), x)
               l == <<c>>
    <3>1. /\ collate'.todo = l /\ collate'.cur_port = collate.cur_port
          /\ collate'.is_complete = collate.is_complete /\ Turn(collate)' = t
      <4>1. LET n == [collate EXCEPT !.todo = <<Push(Res(Turn(collate)), x)>>]
            IN  /\ n.cur_port = collate.cur_port /\ n.todo = <<Push(Res(Turn(collate)), x)>>
                /\ n.is_complete = collate.is_complete /\ Turn(n) = Turn(collate)
        BY <1>1, <1>2, <1>4, LoopFetched
      <4>2. Turn(collate)' = Turn(collate')
            /\ collate' = [collate EXCEPT !.todo = <<Push(Res(Turn(collate)), x)>>]
        BY <1>6, <1>7, <1>10, <2>2 DEF Turn
      <4> HIDE DEF x
      <4> QED BY <1>3, <4>1, <4>2
    <3>2. c.op = "push" /\ c.edge = Res(t) /\ c = Push(Res(t), x)
      BY CallParts
    <3> HIDE DEF m, k, x, c
    <3>3. Len(l) = 1 /\ l[1] = c /\ l # <<>> /\ \A i \in 1..Len(l) : i = 1
      OBVIOUS
    <3> HIDE DEF l
    <3>4. \A u \in TagSet : Owed(u) = IF u = t THEN 1 ELSE 0
      BY <1>2, <1>3, <1>4, <1>6, <2>2 DEF Owed
    <3>5. \A u \in TagSet : Owed(u)' = IF u = t THEN 1 ELSE 0
      BY <3>1, <3>2, <3>3 DEF Owed
    <3>6. \A b \in Branches : ~Calling(l, Coll(b))
      BY <3>2, <3>3, TheEdges DEF Calling
    <3>7. \A b \in Branches : Calling(collate.todo, Coll(b)) <=> b = b0
      <4>1. Len(collate.todo) = 1
        BY <1>4, <2>2
      <4>2. \A i \in 1..Len(collate.todo) : i = 1
        BY <4>1
      <4> QED BY <1>6, <1>8, <2>0, <4>2 DEF Calling
    <3>8. CollCalls(l, t, x, k)
      <4>1. k >= 1
        BY <1>4
      <4> QED BY <3>2, <3>3, <4>1 DEF CollCalls, Apart
    <3> QED BY <3>1, <3>4, <3>5, <3>6, <3>7, <3>8
  <2> QED BY <2>1, <2>2
<1> HIDE DEF m
<1>15. \A u \in TagSet : DistOK(u) /\ CollOK(u) /\ SentOK(u) /\ ResOK(u)
  BY <1>4 DEF OrderInv
<1>16. \A u \in TagSet : SentOK(u)' /\ ResOK(u)'
  BY <1>1, <1>12, <1>15, StreamKept
<1>17. ASSUME NEW u \in TagSet PROVE CollOK(u)'
  <2>1. /\ CollOK(u) /\ q'[Status(u)] = q[Status(u)] /\ q'[Res(u)] = q[Res(u)]
        /\ Seen(u)' = Seen(u) /\ Owed(u)' = Owed(u)
        /\ closed' = closed /\ got' = got /\ sent' = sent
        /\ collate'.cur_port = collate.cur_port
    BY <1>1, <1>12, <1>13, <1>14, <1>15
  <2> HIDE DEF k, x
  <2> QED BY <2>1 DEF CollOK
<1>18. CollTodoOK'
  <2>1. CASE collate'.todo = <<>>
    BY <2>1 DEF CollTodoOK, CollCalls
  <2>2. CASE collate'.todo # <<>>
    <3>1. Turn(collate)' = t /\ Seen(t)' = k /\ sent'[t][k] = x
      BY <1>1, <1>13, <1>14, <2>2
    <3> HIDE DEF k, x
    <3> QED BY <1>14, <3>1 DEF CollTodoOK
  <2> QED BY <2>1, <2>2
<1>19. ASSUME NEW b \in Branches, b # b0 PROVE BranchOK(b)'
  <2>1. BranchOK(b) /\ b[1] \in TagSet
    BY <1>4, TheEdges DEF OrderInv
  <2>2. Line(b)' = Line(b)
    <3>1. q'[Coll(b)] = q[Coll(b)] /\ q'[Dist(b)] = q[Dist(b)]
      BY <1>11, <1>19, TheEdges
    <3> QED BY <1>1, <3>1 DEF Line, Hand
  <2>3. Fetched(b)' = Fetched(b)
    BY <1>13, <1>14, <1>19, <2>1 DEF Fetched
  <2> HIDE DEF k, x
  <2> QED BY <1>1, <1>13, <2>1, <2>2, <2>3, BranchFrame
<1>20. BranchOK(b0)'
  <2>1. BranchOK(b0)
    BY <1>4 DEF OrderInv
  <2>2. Line(b0)' = Tail(Line(b0))
    <3>1. q'[Coll(b0)] = Tail(q[Coll(b0)]) /\ q'[Dist(b0)] = q[Dist(b0)] /\ held' = held
      BY <1>1, <1>11, TheEdges
    <3>2. Line(b0)' = (Tail(q[Coll(b0)]) \o Hand(b0)) \o q[Dist(b0)]
      BY <3>1 DEF Line, Hand
    <3> QED BY <1>10, <3>2
  <2>3. Fetched(b0)' = k
    BY <1>5, <1>13, <1>14 DEF Fetched
  <2>4. sent' = sent /\ closed' = closed /\ Taken(t)' = Taken(t) /\ Coming(b0)' = Coming(b0)
        /\ (Completed(t)' <=> Completed(t))
    BY <1>1, <1>13
  <2> HIDE DEF k, x
  <2>5. Flows(b0, sent'[b0[1]], Taken(b0[1])', Line(b0)', Coming(b0)', Fetched(b0)')
    BY <1>5, <1>10, <2>2, <2>3, <2>4
  <2>6. ~closed'[Coll(b0)] /\ (closed'[Dist(b0)] => Completed(b0[1])' /\ Coming(b0)' = {})
    BY <1>5, <2>1, <2>4 DEF BranchOK
  <2> QED BY <2>5, <2>6 DEF BranchOK
<1>21. Live'
  BY <1>4, <1>14 DEF Live
<1> HIDE DEF k, x
<1> QED
  BY <1>13, <1>16, <1>17, <1>18, <1>19, <1>20, <1>21 DEF OrderInv


LEMMA OrderCollateEndStep ==
  ASSUME TypeInv, OrderInv, CollateEndStep
  PROVE  OrderInv'
<1> DEFINE done == IsDone(collate, CollOutputs)
<1>1. /\ StepDone(collate) /\ collate' = NextStep(collate, CollOutputs) /\ LoopOK(collate)
      /\ IF done THEN Close(CollInputs) ELSE UNCHANGED <<q, closed>>
      /\ UNCHANGED <<distrib, held, ended, sent, got>>
  BY DEF CollateEndStep, TypeInv
<1>2. /\ collate.todo = <<>> /\ collate'.todo = <<>> /\ collate'.cur_port = collate.cur_port
      /\ collate'.is_complete = done /\ Live
  BY <1>1, LoopEnds DEF StepDone, Live
<1>3. \A u \in TagSet : q'[Res(u)] = q[Res(u)]
  <2>1. IF done THEN Close(CollInputs) ELSE UNCHANGED <<q, closed>>
    BY <1>1
  <2> HIDE DEF done
  <2>2. \A e \in Edges : e \notin CollInputs => q'[e] = q[e]
    BY <2>1, ClosedInputs
  <2> QED BY <2>2, TheEdges DEF CollInputs
<1>4. \A u \in TagSet : SentOK(u)' /\ ResOK(u)'
  <2> TAKE u \in TagSet
  <2>1. SentOK(u) /\ ResOK(u)
    BY DEF OrderInv
  <2> QED BY <1>1, <1>3, <2>1, StreamKept
<1>5. OutputsOnly'
  BY <1>1 DEF OrderInv, OutputsOnly
<1>6. CASE done
  <2>1. ~Live'
    BY <1>2, <1>6 DEF Live
  <2> QED BY <1>4, <1>5, <2>1 DEF OrderInv
<1>7. CASE ~done
  <2>1. UNCHANGED <<q, closed, distrib, held, ended, sent, got>>
    BY <1>1, <1>7
  <2>2. /\ DistTodoOK' /\ \A u \in TagSet : DistOK(u)'
        /\ \A u \in TagSet : Taken(u)' = Taken(u) /\ Seen(u)' = Seen(u)
                             /\ (Completed(u)' <=> Completed(u))
        /\ \A b \in Branches : Coming(b)' = Coming(b)
    BY <1>2, <2>1, CollateSteps
  <2>3. \A u \in TagSet : Owed(u)' = Owed(u)
    BY <1>2 DEF Owed
  <2>4. CollTodoOK'
    BY <1>2 DEF CollTodoOK, CollCalls
  <2>5. ASSUME NEW u \in TagSet PROVE CollOK(u)'
    <3>1. CollOK(u) /\ Seen(u)' = Seen(u) /\ Owed(u)' = Owed(u)
      BY <1>2, <2>2, <2>3 DEF OrderInv
    <3> QED BY <1>2, <2>1, <3>1 DEF CollOK
  <2>6. ASSUME NEW b \in Branches PROVE BranchOK(b)'
    <3>1. BranchOK(b) /\ b[1] \in TagSet
      BY <1>2, TheEdges DEF OrderInv
    <3>2. Fetched(b)' = Fetched(b)
      BY <1>2, <2>2, <3>1 DEF Fetched
    <3>3. Line(b)' = Line(b)
      BY <2>1 DEF Line, Hand
    <3> QED BY <2>1, <2>2, <3>1, <3>2, <3>3, BranchFrame
  <2> QED BY <1>4, <1>5, <2>2, <2>4, <2>5, <2>6 DEF OrderInv
<1> QED
  BY <1>6, <1>7

-----------------------------------------------------------------------------
(* The order holds at first and is kept.                                   *)

LEMMA OrderAtFirst == Init => OrderInv
<1> SUFFICES ASSUME Init PROVE OrderInv
  OBVIOUS
<1>1. /\ \A e \in Edges : q[e] = <<>> /\ closed[e] = FALSE
      /\ \A b \in Branches : held[b] = None
      /\ \A t \in TagSet : sent[t] = <<>> /\ got[t] = <<>>
      /\ distrib = Loop /\ collate = Loop
  BY DEF Init
<1>2. /\ Loop.tags = Tags /\ Loop.todo = <<>> /\ Loop.complete_ports = {}
      /\ Loop.is_complete = FALSE /\ \A t \in TagSet : Loop.cur_port[t] = 1
  BY DEF Loop
<1>3. \A t \in TagSet : t \in ToSet(Tags)
  BY DEF TagSet, ToSet
<1>4. Len(<<>>) = 0
  OBVIOUS
<1>5. ASSUME NEW t \in TagSet
      PROVE  /\ q[Src(t)] = <<>> /\ q[Status(t)] = <<>> /\ q[Res(t)] = <<>>
             /\ Told(t) = 0 /\ Taken(t) = 0 /\ Seen(t) = 0 /\ Owed(t) = 0
             /\ (0 % Ports(t)) + 1 = 1
  <2>1. q[Src(t)] = <<>> /\ q[Status(t)] = <<>> /\ q[Res(t)] = <<>>
    BY <1>1, TheEdges
  <2>2. Told(t) = 0 /\ Owed(t) = 0
    BY <1>1, <1>2 DEF Told, Owed
  <2>3. Taken(t) = 0
    BY <1>1, <1>4, <2>1 DEF Taken
  <2>4. Seen(t) = 0
    <3>1. Seen(t) = (0 - 0) - 0
      BY <1>4, <2>1, <2>2, <2>3 DEF Seen
    <3> QED BY <3>1
  <2>5. 0 % Ports(t) = 0
    <3> DEFINE n == Ports(t)
    <3>1. n \in Nat \ {0}
      BY ThePorts DEF Ports
    <3> HIDE DEF n
    <3>2. 0 % n = 0
      BY <3>1
    <3> QED BY <3>2 DEF n
  <2> QED BY <2>1, <2>2, <2>3, <2>4, <2>5
<1>6. \A t \in TagSet : SentOK(t) /\ ResOK(t)
  <2> TAKE t \in TagSet
  <2>1. /\ Len(sent[t]) = 0 /\ Len(got[t]) = 0 /\ Len(q[Res(t)]) = 0
    BY <1>1, <1>4, <1>5
  <2>2. SentOK(t)
    BY <2>1 DEF SentOK
  <2> QED BY <2>1, <2>2 DEF ResOK
<1>7. OutputsOnly /\ DistTodoOK /\ CollTodoOK
  BY <1>1, <1>2, <1>4 DEF OutputsOnly, DistTodoOK, CollTodoOK, DistCalls, CollCalls
<1>8. \A t \in TagSet : DistOK(t)
  <2> TAKE t \in TagSet
  <2>1. closed[Src(t)] = FALSE
    BY <1>1, TheEdges
  <2> QED BY <1>1, <1>2, <1>3, <1>4, <1>5, <2>1 DEF DistOK
<1>9. \A t \in TagSet : CollOK(t)
  <2> TAKE t \in TagSet
  <2>1. closed[Status(t)] = FALSE
    BY <1>1, TheEdges
  <2>2. /\ Len(got[t]) = 0 /\ Len(q[Res(t)]) = 0 /\ Len(q[Status(t)]) = 0 /\ Seen(t) = 0
        /\ Owed(t) = 0 /\ collate.cur_port[t] = (0 % Ports(t)) + 1 /\ closed[Status(t)] = FALSE
    BY <1>1, <1>2, <1>4, <1>5, <2>1
  <2> QED BY <2>2 DEF CollOK
<1>10. \A b \in Branches : BranchOK(b)
  <2> TAKE b \in Branches
  <2>1. /\ closed[Coll(b)] = FALSE /\ closed[Dist(b)] = FALSE /\ b[1] \in TagSet
        /\ q[Coll(b)] = <<>> /\ q[Dist(b)] = <<>> /\ held[b] = None
    BY <1>1, TheEdges
  <2>2. Line(b) = <<>>
    BY <2>1 DEF Line, Hand
  <2>3. Coming(b) = {}
    BY <1>1, <1>2, <1>4 DEF Coming, Calling
  <2>4. Flows(b, sent[b[1]], 0, <<>>, {}, Fetched(b))
    BY <1>4 DEF Flows, Numbers
  <2> QED BY <1>5, <2>1, <2>2, <2>3, <2>4 DEF BranchOK
<1> QED
  BY <1>6, <1>7, <1>8, <1>9, <1>10 DEF OrderInv

LEMMA OrderKept == TypeInv /\ OrderInv /\ [Next]_vars => OrderInv'
<1> SUFFICES ASSUME TypeInv, OrderInv, [Next]_vars PROVE OrderInv'
  OBVIOUS
<1>1. CASE UNCHANGED vars
  <2>1. UNCHANGED <<q, closed, distrib, collate, held, ended, sent, got>>
    BY <1>1 DEF vars
  <2>2. (\A u \in TagSet : SentOK(u)' /\ ResOK(u)') /\ OutputsOnly'
    BY <2>1, StreamKept DEF OrderInv, OutputsOnly
  <2>3. CASE ~Live
    <3>1. ~Live'
      BY <2>1, <2>3 DEF Live
    <3> QED BY <2>2, <3>1 DEF OrderInv
  <2>4. CASE Live
    <3>1. /\ DistTodoOK' /\ \A u \in TagSet : DistOK(u)'
          /\ \A u \in TagSet : Taken(u)' = Taken(u) /\ Seen(u)' = Seen(u)
                               /\ (Completed(u)' <=> Completed(u))
          /\ \A b \in Branches : Coming(b)' = Coming(b)
      BY <2>1, <2>4, CollateSteps
    <3>2. /\ CollTodoOK' /\ \A u \in TagSet : Owed(u)' = Owed(u)
          /\ \A b \in Branches : Fetched(b)' = Fetched(b)
      <4>1. CollTodoOK
        BY <2>4 DEF OrderInv
      <4> QED BY <2>1, <3>1, <4>1, CollateFrame
    <3>3. ASSUME NEW u \in TagSet PROVE CollOK(u)'
      <4>1. CollOK(u) /\ Seen(u)' = Seen(u) /\ Owed(u)' = Owed(u)
        BY <2>4, <3>1, <3>2 DEF OrderInv
      <4> QED BY <2>1, <4>1 DEF CollOK
    <3>4. ASSUME NEW b \in Branches PROVE BranchOK(b)'
      <4>1. BranchOK(b) /\ b[1] \in TagSet
        BY <2>4, TheEdges DEF OrderInv
      <4>2. Line(b)' = Line(b)
        BY <2>1 DEF Line, Hand
      <4> QED BY <2>1, <3>1, <3>2, <4>1, <4>2, BranchFrame
    <3> QED BY <2>2, <3>1, <3>2, <3>3, <3>4 DEF OrderInv
  <2> QED BY <2>3, <2>4
<1>2. CASE Distribute
  BY <1>2, OrderDistributeTurn, OrderDistributePush, OrderDistributeEndStep DEF Distribute
<1>3. CASE Collate
  BY <1>3, OrderCollateTurn, OrderCollatePush, OrderCollateGrab, OrderCollateEndStep DEF Collate
<1>4. ASSUME NEW t \in TagSet, SourcePush(t) PROVE OrderInv'
  BY <1>4, OrderSource
<1>5. ASSUME NEW t \in TagSet, NEW ends \in BOOLEAN, Read(t, ends) PROVE OrderInv'
  BY <1>5, OrderReader
<1>6. ASSUME NEW b \in Branches, Worker(b) PROVE OrderInv'
  BY <1>6, OrderWorker
<1> QED
  BY <1>1, <1>2, <1>3, <1>4, <1>5, <1>6, TheSteps

(* Whatever the workers do and however slow they are, what the final       *)
(* reader of a tag has seen is a beginning of what the source of that tag  *)
(* has sent: nothing is lost, doubled, overtaken or put into another tag   *)
(* between distribute and collate, for every number of tags and workers    *)
(* and every capacity.                                                     *)
THEOREM OrderIsRestored == Spec => []OrderRestored
<1>1. TypeInv /\ OrderInv => OrderRestored
  <2> SUFFICES ASSUME TypeInv, OrderInv, NEW t \in TagSet PROVE IsPrefix(got[t], sent[t])
    BY DEF OrderRestored
  <2> DEFINE g == got[t]
             s == sent[t]
             r == Len(q[Res(t)])
  <2>1. g \in Seq(Items) /\ s \in Seq(Items) /\ Len(g) \in Nat /\ Len(s) \in Nat /\ r \in Nat
    BY Sizes
  <2>2. Len(g) + r <= Len(s) /\ \A i \in 1..Len(g) : g[i] = s[i]
    BY DEF OrderInv, ResOK
  <2> HIDE DEF g, s, r
  <2>3. Len(g) <= Len(s)
    BY <2>1, <2>2
  <2>4. SubSeq(g, 1, Len(g)) = SubSeq(s, 1, Len(g))
    BY <2>1, <2>2, <2>3
  <2>5. IsPrefix(g, s)
    BY <2>3, <2>4 DEF IsPrefix
  <2> QED BY <2>5 DEF g, s
<1> QED
  BY <1>1, TypesAtFirst, TypesKept, OrderAtFirst, OrderKept, PTL DEF Spec

(* Whenever collate waits on a coll port, an item is on its way to it: the *)
(* very one it waits for is the oldest of that branch, or distribute is    *)
(* about to push it there.  The iterators of the two processes never       *)
(* disagree, whatever mixture of data and flushes they have seen.          *)
THEOREM NoVainWait == Spec => []NeverWaitsInVain
<1>1. TypeInv /\ OrderInv => NeverWaitsInVain
  <2> SUFFICES ASSUME TypeInv, OrderInv, NEW b \in Branches,
                      Due(collate) \in {"grab", "forward"}, Head(collate.todo).edge = Coll(b)
               PROVE  /\ OnItsWay(b) # <<>>
                      /\ Control(Head(OnItsWay(b))) <=> Due(collate) = "grab"
    BY DEF NeverWaitsInVain
  <2>1. /\ collate.todo # <<>> /\ Head(collate.todo).op = Due(collate)
        /\ LoopOK(collate) /\ LoopOK(distrib)
    BY LoopParts DEF TypeInv
  <2>2. PICK t \in TagSet : t = Turn(collate)
    BY <2>1, TheTurns
  <2> DEFINE k == Seen(t)
             x == sent[t][k]
             l == Line(b)
             n == Taken(t)
  <2>3. /\ Live /\ k \in 1..n /\ x \in Items /\ Head(collate.todo) = collate.todo[1]
        /\ \E c \in Branches : /\ c[1] = t /\ Through(c, x, k)
                               /\ \/ Control(x) /\ collate.todo[1] = Grab(Coll(c))
                                  \/ ~Control(x) /\ collate.todo[1] = Forward(Coll(c))
    BY <2>1, <2>2, CollateDue, CallParts
  <2>4. b[1] = t /\ Through(b, x, k) /\ (Control(x) <=> Due(collate) = "grab")
    BY <2>1, <2>3, CallParts, TheEdges
  <2>5. Calling(collate.todo, Coll(b))
    <3>1. 1 \in 1..Len(collate.todo)
      BY <2>1, LoopParts, CallMade
    <3> QED BY <2>3, <3>1 DEF Calling
  <2>6. Awaited(b, sent[t], n, l, Coming(b), k)
    <3>1. Flows(b, sent[t], n, l, Coming(b), k - 1)
      BY <2>3, <2>4, <2>5 DEF OrderInv, BranchOK, Fetched
    <3>2. Coming(b) \subseteq {n} /\ l \in Seq(Items)
      BY <2>4, Lines DEF Coming
    <3>3. n \in Nat
      <4>1. n \in Int /\ k \in 1..n
        BY <2>3, Sizes
      <4> HIDE DEF n, k
      <4> QED BY <4>1
    <3> QED BY <2>3, <2>4, <3>1, <3>2, <3>3 DEF Awaited
  <2>7. /\ l = <<>> => Coming(b) = {n} /\ n = k
        /\ l # <<>> => l[1] = x
    BY <2>6, FlowsNext
  <2> DEFINE due    == {c \in ToSet(distrib.todo) : c.edge = Dist(b)}
             coming == Chosen(distrib.todo, due)
             items  == [i \in DOMAIN coming |-> coming[i].item]
  <2>8. OnItsWay(b) = l \o items
    BY DEF OnItsWay, Line, Hand
  <2>9. /\ coming \in Seq(Calls) /\ Elems(coming) = Elems(distrib.todo) \cap due
        /\ distrib.todo \in Seq(Calls)
    BY <2>1, LoopParts, ChosenElements
  <2>10. CallsOK(distrib.todo) /\ OutputsOnly
    BY <2>1 DEF LoopOK, OrderInv
  <2>11. /\ \A i \in 1..Len(coming) : \E j \in 1..Len(distrib.todo) :
                coming[i] = distrib.todo[j] /\ distrib.todo[j].edge = Dist(b)
         /\ Len(coming) \in Nat
    <3> SUFFICES ASSUME NEW i \in 1..Len(coming)
                 PROVE  \E j \in 1..Len(distrib.todo) :
                          coming[i] = distrib.todo[j] /\ distrib.todo[j].edge = Dist(b)
      BY <2>9, SomeLists
    <3>1. coming[i] \in Elems(coming)
      BY DEF Elems
    <3> HIDE DEF coming
    <3>2. coming[i] \in Elems(distrib.todo) /\ coming[i].edge = Dist(b)
      BY <2>9, <3>1
    <3>3. PICK j \in 1..Len(distrib.todo) : coming[i] = distrib.todo[j]
      BY <3>2 DEF Elems
    <3> QED BY <3>2, <3>3
  <2> DEFINE y == sent[t][n]
  <2>12. \A j \in 1..Len(distrib.todo) : distrib.todo[j].edge = Dist(b) => distrib.todo[j].item = y
    <3> SUFFICES ASSUME NEW j \in 1..Len(distrib.todo), distrib.todo[j].edge = Dist(b)
                 PROVE  distrib.todo[j].item = y
      OBVIOUS
    <3>1. distrib.todo # <<>>
      OBVIOUS
    <3>2. PICK u \in TagSet : u = Turn(distrib)
      BY <3>1, TheTurns
    <3>3. DistCalls(distrib.todo, u, sent[u][Taken(u)], Taken(u))
      BY <2>3, <3>2 DEF OrderInv, DistTodoOK
    <3> DEFINE z == sent[u][Taken(u)]
    <3>4. z = sent[u][Taken(u)] /\ (u = t => z = y)
      OBVIOUS
    <3> HIDE DEF z, y
    <3>5. \/ distrib.todo[j] = Push(Status(u), Stat(z))
          \/ \E c \in Branches : c[1] = u /\ distrib.todo[j] = Push(Dist(c), z)
      BY <3>1, <3>3, <3>4 DEF DistCalls
    <3>6. PICK c \in Branches : c[1] = u /\ distrib.todo[j] = Push(Dist(c), z)
      BY <3>5, CallParts, TheEdges
    <3>7. c = b
      BY <3>6, CallParts, TheEdges
    <3> QED BY <2>4, <3>4, <3>6, <3>7, CallParts
  <2>13. y \in Items
    <3>1. n \in Int /\ n <= Len(sent[t]) /\ k \in 1..n /\ Len(sent[t]) \in Nat
      BY <2>3, Sizes
    <3> HIDE DEF n, k
    <3>2. n \in 1..Len(sent[t])
      BY <3>1
    <3> QED BY <3>2, Sizes
  <2>14. /\ items \in Seq(Items) /\ Len(items) = Len(coming)
         /\ \A i \in 1..Len(items) : items[i] = y
    <3>1. DOMAIN coming = 1..Len(coming)
      BY <2>9, SomeLists
    <3>2. \A i \in 1..Len(coming) : coming[i].item = y
      BY <2>11, <2>12
    <3> HIDE DEF coming, y
    <3>3. items \in [1..Len(coming) -> Items]
      BY <2>13, <3>1, <3>2
    <3>4. items \in Seq(Items) /\ Len(items) = Len(coming)
      <4> HIDE DEF items
      <4> QED BY <2>11, <3>3, IsASeq, LenProperties
    <3> QED BY <3>1, <3>2, <3>4
  <2>15. l = <<>> => Len(coming) >= 1 /\ y = x
    <3> SUFFICES ASSUME l = <<>> PROVE Len(coming) >= 1 /\ y = x
      OBVIOUS
    <3>1. n = k /\ Coming(b) # {}
      BY <2>7
    <3>2. PICK j \in 1..Len(distrib.todo) : distrib.todo[j].edge = Dist(b)
      BY <3>1 DEF Coming, Calling
    <3>3. distrib.todo[j] \in Elems(distrib.todo) \cap due
      <4>1. DOMAIN distrib.todo = 1..Len(distrib.todo)
        BY <2>9, SomeLists
      <4> QED BY <3>2, <4>1 DEF Elems, ToSet
    <3> HIDE DEF coming
    <3>4. Elems(coming) # {}
      BY <2>9, <3>3
    <3>5. Len(coming) >= 1
      BY <2>11, <3>4 DEF Elems
    <3> QED BY <3>1, <3>5
  <2> HIDE DEF items, coming, due, y, x, l
  <2>16. l \in Seq(Items) /\ Len(l) \in Nat /\ (l # <<>> => Len(l) >= 1)
    BY <2>6, SomeLists DEF Awaited
  <2>17. /\ Len(l \o items) = Len(l) + Len(items) /\ l \o items \in Seq(Items)
         /\ \A i \in 1..Len(l) : (l \o items)[i] = l[i]
         /\ \A j \in 1..Len(items) : (l \o items)[Len(l) + j] = items[j]
    <3>1. l \in Seq(Items) /\ items \in Seq(Items)
      BY <2>14, <2>16
    <3> QED BY ONLY <3>1, JoinedPlaces
  <2>18. /\ Len(l \o items) >= 1 /\ (l \o items)[1] = x
    <3>1. CASE l = <<>>
      <4>1. Len(l) = 0 /\ 1 \in 1..Len(items)
        BY <2>11, <2>14, <2>15, <3>1
      <4> QED BY <2>11, <2>14, <2>15, <2>17, <3>1, <4>1
    <3>2. CASE l # <<>>
      <4>1. 1 \in 1..Len(l)
        BY <2>16, <3>2
      <4> QED BY <2>7, <2>11, <2>14, <2>16, <2>17, <3>2, <4>1
    <3> QED BY <3>1, <3>2
  <2>19. l \o items # <<>> /\ Head(l \o items) = x
    <3> DEFINE w == l \o items
    <3>1. w \in Seq(Items) /\ Len(w) >= 1 /\ w[1] = x
      BY <2>17, <2>18
    <3> HIDE DEF w
    <3>2. w # <<>> /\ Head(w) = w[1]
      BY <3>1, SomeLists
    <3> QED BY <3>1, <3>2 DEF w
  <2> QED BY <2>4, <2>8, <2>19
<1> QED
  BY <1>1, TypesAtFirst, TypesKept, OrderAtFirst, OrderKept, PTL DEF Spec
=============================================================================
