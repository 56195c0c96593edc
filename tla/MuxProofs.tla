------------------------------- MODULE MuxProofs -------------------------------
(***************************************************************************)
(* What is proved of Mux: the types, and that each group comes out in      *)
(* rounds, with nothing missing, whatever the sources and their lengths.   *)
(***************************************************************************)
EXTENDS Mux, ListsProofs

PortsOf(g) == ToSet(Ports[g])

Item  == [type : Kinds \cup {"complete"}, src : Sources, no : Nat \ {0}]
Calls == [op : {"push", "grab"}, edge : Edges, item : Item]

Queues == {f \in [Edges -> Seq(Item)] : \A e \in Edges : Len(f[e]) <= Capacity}

(* The loop over the groups, and the places of the ports.  A group that    *)
(* was found complete is behind the loop's iterator, or its calls are      *)
(* being made.                                                             *)
LoopInv ==
  /\ groups \in Seq(GroupSet) /\ \A i, j \in 1..Len(groups) : groups[i] = groups[j] => i = j
  /\ pos \in 1..(Len(groups) + 1) /\ (todo # <<>> => pos <= Len(groups) /\ ~is_complete)
  /\ complete_ports \subseteq Elems(groups)
  /\ \A i \in 1..Len(groups) : groups[i] \in complete_ports => i < pos \/ (i = pos /\ todo # <<>>)
  /\ ports \in [GroupSet -> Seq(Sources)] /\ cur_port \in [GroupSet -> Nat]
  /\ \A g \in Elems(groups) : g \notin complete_ports => cur_port[g] \in 1..Len(ports[g])

TypeInv ==
  /\ policy \in {"any", "all"} /\ is_complete \in BOOLEAN
  /\ q \in Queues /\ closed \in [Edges -> BOOLEAN]
  /\ todo \in Seq(Calls) /\ out \in [Sources -> Seq(Calls)]
  /\ sent \in [Sources -> Seq(Item)] /\ got \in [GroupSet -> Seq(Item)]
  /\ ended \subseteq Sources /\ left \subseteq GroupSet
  /\ LoopInv

-----------------------------------------------------------------------------
(* The items of a source on their way to a group.                          *)

Finished(s)   == sent[s] # <<>> /\ sent[s][Len(sent[s])].type = "complete"
Waits(g, s)   == \E i \in 1..Len(out[s]) : out[s][i].edge = In(g, s)
Arrived(g, s) == IF Waits(g, s) THEN Len(sent[s]) - 1 ELSE Len(sent[s])
Taken(g, s)   == Arrived(g, s) - Len(q[In(g, s)])

(* A source numbers its items, and completes once.                         *)
SourceOK(s) ==
  /\ \A i \in 1..Len(sent[s]) :
       /\ sent[s][i].src = s /\ sent[s][i].no = i
       /\ sent[s][i].type = "complete" => i = Len(sent[s])
  /\ Finished(s) => s \in ended \/ out[s] # <<>>
  /\ out[s] # <<>> => sent[s] # <<>>
  /\ \A i \in 1..Len(out[s]) : \E g \in GroupSet :
       s \in PortsOf(g) /\ out[s][i] = Push(In(g, s), sent[s][Len(sent[s])])
  /\ \A i, j \in 1..Len(out[s]) : out[s][i].edge = out[s][j].edge => i = j

(* What is in the edge of a port are the items after those taken.          *)
ArrivalOK(g, s) ==
  /\ ~closed[In(g, s)] /\ Taken(g, s) \in Nat
  /\ \A i \in 1..Len(q[In(g, s)]) : q[In(g, s)][i] = sent[s][Taken(g, s) + i]

-----------------------------------------------------------------------------
(* The rounds of a group.                                                  *)

Running(g) == ~is_complete /\ g \in Elems(groups) /\ g \notin complete_ports
Sender(g)  == ports[g][cur_port[g]]
Round(g)   == Taken(g, Sender(g)) + 1

(* The ports before the iterator are a round ahead of the others; one that *)
(* was erased had ended by then.                                           *)
RoundOK(g) ==
  /\ \A i \in 1..Len(ports[g]) : ports[g][i] \in PortsOf(g)
  /\ \A i, j \in 1..Len(ports[g]) : i < j => Place(g, ports[g][i]) < Place(g, ports[g][j])
  /\ \A i \in 1..Len(ports[g]) :
       Taken(g, ports[g][i]) = IF i < cur_port[g] THEN Round(g) ELSE Round(g) - 1
  /\ \A s \in PortsOf(g) : s \notin Elems(ports[g]) =>
       Finished(s) /\ Taken(g, s) = Len(sent[s]) /\ Len(sent[s]) <= Round(g)

-----------------------------------------------------------------------------
(* The stream of a group: what its reader has seen and what it will.       *)

Stream(g)     == got[g] \o q[Res(g)]
Earlier(g, x) == {y \in Items(g) : Before(g, y, x)}

(* No item that belongs before x is still to be sent.                      *)
Settled(g, x) ==
  \A s \in PortsOf(g) :
    \/ Finished(s)
    \/ IF Place(g, s) < Place(g, x.src) THEN x.no <= Len(sent[s]) ELSE x.no - 1 <= Len(sent[s])

(* x comes after the items in B, which are exactly those it has to follow. *)
Follows(g, x, B) ==
  IF x.type = "complete"
  THEN policy = "all" => B = Items(g) /\ \A s \in PortsOf(g) : Finished(s)
  ELSE x \in Items(g) /\ Settled(g, x) /\ B = Earlier(g, x)

Firsts(w, i) == {w[j] : j \in 1..(i - 1)}

StreamOK(g) ==
  \A i \in 1..Len(Stream(g)) :
    /\ Follows(g, Stream(g)[i], Firsts(Stream(g), i))
    /\ Stream(g)[i].type = "complete" => i = Len(Stream(g))

Unfinished(g) == \A x \in Elems(Stream(g)) : x.type # "complete"

(* What mux is about to push on the output of a group.                     *)
Told(w, g) == {c.item : c \in {c \in Elems(w) : c.edge = Res(g)}}
Pending(g) == Told(todo, g)

(* Mux has passed on what it took.                                         *)
PassedOn(g) ==
  ~closed[Res(g)] =>
    /\ Unfinished(g)
    /\ Elems(Stream(g)) \cup Pending(g) = {y \in Items(g) : y.no <= Taken(g, y.src)}

(* The calls of a turn: one push, after reads if the group ends early.     *)
TurnOK ==
  todo # <<>> =>
    LET c == todo[Len(todo)]
    IN  /\ c.op = "push" /\ c.edge = Res(Group)
        /\ \A i \in 1..Len(todo) : i # Len(todo) =>
             todo[i].op = "grab" /\ \E s \in PortsOf(Group) : todo[i].edge = In(Group, s)
        /\ (Group \in complete_ports) = (c.item.type = "complete")
        /\ Group \notin complete_ports => Len(todo) = 1
        /\ ~closed[Res(Group)] => Unfinished(Group) /\ Follows(Group, c.item, Elems(Stream(Group)))

OrderInv ==
  /\ \A s \in Sources : SourceOK(s)
  /\ \A g \in GroupSet : StreamOK(g)
  /\ ~is_complete => \A g \in GroupSet : \A s \in PortsOf(g) : ArrivalOK(g, s)
  /\ \A g \in GroupSet : Running(g) => RoundOK(g) /\ PassedOn(g)
  /\ TurnOK


-----------------------------------------------------------------------------
(* The edges, the ports and the groups.                                    *)

LEMMA TheEdges ==
  /\ \A g \in GroupSet : Res(g) \in Edges /\ Res(g) \notin Inputs
  /\ \A g \in GroupSet, s \in Sources : In(g, s) \in Edges /\ In(g, s) \in Inputs
  /\ \A g, h : Res(g) = Res(h) => g = h
  /\ \A g, h, s, u : In(g, s) = In(h, u) => g = h /\ s = u
  /\ \A g, h, s : In(g, s) # Res(h)
  /\ Inputs \subseteq Edges
<1>1. /\ \A g, s : In(g, s)[1] = "in" /\ In(g, s)[2] = g /\ In(g, s)[3] = s
      /\ \A g : Res(g)[1] = "res" /\ Res(g)[2] = g
  BY DEF In, Res
<1>2. \A e \in Inputs : e[1] = "in"
  BY DEF Inputs
<1>3. \A g \in GroupSet, s \in Sources : In(g, s) \in Inputs
  BY DEF In, Inputs
<1>4. "in" # "res"
  OBVIOUS
<1> QED
  BY <1>1, <1>2, <1>3, <1>4 DEF Edges

LEMMA TheGroups ==
  /\ Groups \in Seq(GroupSet) /\ Len(Groups) \in Nat /\ Elems(Groups) = GroupSet
  /\ \A i, j \in 1..Len(Groups) : Groups[i] = Groups[j] => i = j
  /\ \A s \in Sources : \E g \in GroupSet : s \in PortsOf(g)
  /\ Ports \in [GroupSet -> Seq(Sources)]
<1>1. /\ Groups \in Seq(GroupSet) /\ \A i, j \in DOMAIN Groups : Groups[i] = Groups[j] => i = j
      /\ Ports \in [GroupSet -> Seq(Sources)]
  BY MuxAssumption DEF IsInjective
<1>2. Len(Groups) \in Nat /\ DOMAIN Groups = 1..Len(Groups)
  BY <1>1, SomeLists
<1>3. Elems(Groups) = GroupSet
  BY <1>2 DEF Elems, GroupSet, ToSet
<1> QED
  BY <1>1, <1>2, <1>3 DEF PortsOf, Sources

LEMMA ThePorts ==
  ASSUME NEW g \in GroupSet
  PROVE  /\ Ports[g] \in Seq(Sources) /\ Len(Ports[g]) \in Nat /\ Len(Ports[g]) >= 2
         /\ PortsOf(g) \subseteq Sources
         /\ \A i \in 1..Len(Ports[g]) : Ports[g][i] \in PortsOf(g) /\ Place(g, Ports[g][i]) = i
         /\ \A s \in PortsOf(g) : Place(g, s) \in 1..Len(Ports[g]) /\ Ports[g][Place(g, s)] = s
         /\ \A s \in PortsOf(g) : s \in Elems(Ports[g]) /\ Place(g, s) \in Nat
         /\ \A s, u \in PortsOf(g) : Place(g, s) = Place(g, u) => s = u
<1>1. /\ Ports[g] \in Seq(Sources) /\ Len(Ports[g]) >= 2
      /\ \A i, j \in DOMAIN Ports[g] : Ports[g][i] = Ports[g][j] => i = j
  BY TheGroups, MuxAssumption DEF IsInjective
<1>2. /\ Len(Ports[g]) \in Nat /\ DOMAIN Ports[g] = 1..Len(Ports[g])
      /\ \A i \in 1..Len(Ports[g]) : Ports[g][i] \in Sources
  BY <1>1, SomeLists
<1>3. PortsOf(g) = {Ports[g][i] : i \in 1..Len(Ports[g])}
  BY <1>2 DEF PortsOf, ToSet
<1>4. ASSUME NEW i \in 1..Len(Ports[g]) PROVE Place(g, Ports[g][i]) = i
  <2>1. \A j \in DOMAIN Ports[g] : Ports[g][j] = Ports[g][i] => j = i
    BY <1>1, <1>2
  <2> QED BY <1>2, <2>1 DEF Place
<1>5. ASSUME NEW s \in PortsOf(g)
      PROVE  Place(g, s) \in 1..Len(Ports[g]) /\ Ports[g][Place(g, s)] = s
  <2>1. PICK i \in 1..Len(Ports[g]) : s = Ports[g][i]
    BY <1>3
  <2> QED BY <1>4, <2>1
<1>6. \A s \in PortsOf(g) : s \in Elems(Ports[g])
  BY <1>3 DEF Elems
<1> QED
  BY <1>1, <1>2, <1>3, <1>4, <1>5, <1>6

LEMMA TheFed ==
  ASSUME NEW s \in Sources
  PROVE  /\ Fed(s) \in Seq(GroupSet) /\ Len(Fed(s)) \in Nat \ {0} /\ DOMAIN Fed(s) = 1..Len(Fed(s))
         /\ \A i \in 1..Len(Fed(s)) : Fed(s)[i] \in GroupSet /\ s \in PortsOf(Fed(s)[i])
         /\ \A g \in GroupSet : s \in PortsOf(g) => \E i \in 1..Len(Fed(s)) : Fed(s)[i] = g
         /\ \A i, j \in 1..Len(Fed(s)) : Fed(s)[i] = Fed(s)[j] => i = j
<1> DEFINE S == {g \in GroupSet : s \in PortsOf(g)}
           f == Chosen(Groups, S)
<1>1. Fed(s) = f
  BY DEF Fed, PortsOf
<1>2. Groups \in Seq(GroupSet) /\ Elems(Groups) = GroupSet
      /\ \A i, j \in 1..Len(Groups) : Groups[i] = Groups[j] => i = j
  BY TheGroups
<1>3. S \subseteq GroupSet /\ S # {}
  BY TheGroups
<1>m. \A g \in GroupSet : g \in S <=> s \in PortsOf(g)
  OBVIOUS
<1> HIDE DEF S
<1>4. f \in Seq(GroupSet) /\ Elems(f) = Elems(Groups) \cap S
  BY <1>2, ChosenElements
<1>5. \A i, j \in 1..Len(f) : f[i] = f[j] => i = j
  BY <1>2, ChosenApart
<1> HIDE DEF f
<1>6. Len(f) \in Nat /\ DOMAIN f = 1..Len(f)
  BY <1>4, SomeLists
<1>7. Elems(f) = S
  BY <1>2, <1>3, <1>4
<1>8. Len(f) # 0
  BY <1>3, <1>6, <1>7 DEF Elems
<1>9. \A i \in 1..Len(f) : f[i] \in S
  BY <1>7 DEF Elems
<1>10. \A g \in S : \E i \in 1..Len(f) : f[i] = g
  BY <1>7 DEF Elems
<1> QED
  BY <1>1, <1>3, <1>m, <1>4, <1>5, <1>6, <1>8, <1>9, <1>10

-----------------------------------------------------------------------------
(* The queues and the sequences of ports.                                  *)

LEMMA QueueSteps ==
  ASSUME NEW f \in Queues, NEW e \in Edges
  PROVE  /\ f[e] \in Seq(Item) /\ Len(f[e]) \in Nat
         /\ f[e] # <<>> => Head(f[e]) \in Item /\ [f EXCEPT ![e] = Tail(@)] \in Queues
         /\ \A x \in Item : Len(f[e]) < Capacity => [f EXCEPT ![e] = Append(@, x)] \in Queues
<1>1. f \in [Edges -> Seq(Item)] /\ \A d \in Edges : Len(f[d]) <= Capacity
  BY DEF Queues
<1>2. Capacity \in Nat /\ f[e] \in Seq(Item)
  BY <1>1, MuxAssumption
<1>3. ASSUME NEW s \in Seq(Item), Len(s) <= Capacity PROVE [f EXCEPT ![e] = s] \in Queues
  BY <1>1, <1>3 DEF Queues
<1>4. ASSUME f[e] # <<>>
      PROVE  Head(f[e]) \in Item /\ [f EXCEPT ![e] = Tail(@)] \in Queues
  <2>1. /\ Head(f[e]) \in Item /\ Tail(f[e]) \in Seq(Item) /\ Len(Tail(f[e])) = Len(f[e]) - 1
        /\ Len(f[e]) \in Nat
    BY <1>2, <1>4, SomeLists
  <2>2. Len(Tail(f[e])) <= Capacity
    BY <1>1, <1>2, <2>1
  <2> QED BY <1>3, <2>1, <2>2
<1>5. ASSUME NEW x \in Item, Len(f[e]) < Capacity PROVE [f EXCEPT ![e] = Append(@, x)] \in Queues
  <2>1. Append(f[e], x) \in Seq(Item) /\ Len(Append(f[e], x)) = Len(f[e]) + 1 /\ Len(f[e]) \in Nat
    BY <1>2, SomeLists
  <2>2. Len(Append(f[e], x)) <= Capacity
    BY <1>2, <1>5, <2>1
  <2> QED BY <1>3, <2>1, <2>2
<1> QED
  BY <1>2, <1>4, <1>5, SomeLists

LEMMA PushedQueue ==
  ASSUME q \in Queues, NEW e \in Edges, NEW x \in Item, CanPush(e)
  PROVE  Pushed(e, x) \in Queues
BY QueueSteps DEF CanPush, Pushed

LEMMA ClosedEdges ==
  ASSUME q \in Queues, closed \in [Edges -> BOOLEAN], NEW es, Close(es)
  PROVE  /\ q' \in Queues /\ closed' \in [Edges -> BOOLEAN]
         /\ \A e \in Edges : IF e \in es THEN q'[e] = <<>> /\ closed'[e]
                             ELSE q'[e] = q[e] /\ closed'[e] = closed[e]
<1>1. /\ closed' = [e \in Edges |-> closed[e] \/ e \in es]
      /\ q' = [e \in Edges |-> IF e \in es THEN <<>> ELSE q[e]]
  BY DEF Close
<1>2. \A e \in Edges : (closed[e] \/ e \in es) \in BOOLEAN
  OBVIOUS
<1>3. closed' \in [Edges -> BOOLEAN]
  BY <1>1, <1>2
<1>4. <<>> \in Seq(Item) /\ Len(<<>>) <= Capacity
  BY MuxAssumption
<1>5. \A e \in Edges : q[e] \in Seq(Item) /\ Len(q[e]) <= Capacity
  BY DEF Queues
<1>6. q' \in Queues
  BY <1>1, <1>4, <1>5 DEF Queues
<1>7. ASSUME NEW e \in Edges PROVE IF e \in es THEN closed'[e] ELSE closed'[e] = closed[e]
  <2>1. closed'[e] = (closed[e] \/ e \in es) /\ closed[e] \in BOOLEAN
    BY <1>1
  <2> QED BY <2>1
<1> QED
  BY <1>1, <1>3, <1>6, <1>7

LEMMA Removed ==
  ASSUME NEW T, NEW s \in Seq(T), NEW i \in 1..Len(s)
  PROVE  /\ RemoveAt(s, i) \in Seq(T) /\ Len(s) \in Nat /\ Len(RemoveAt(s, i)) = Len(s) - 1
         /\ \A j \in 1..Len(RemoveAt(s, i)) :
              RemoveAt(s, i)[j] = IF j < i THEN s[j] ELSE s[j + 1]
<1> DEFINE a == SubSeq(s, 1, i - 1)
           b == SubSeq(s, i + 1, Len(s))
           c == a \o b
<1>1. Len(s) \in Nat /\ i \in Nat /\ 1 <= i /\ i <= Len(s) /\ \A j \in 1..Len(s) : s[j] \in T
  BY SomeLists
<1>2. a \in Seq(T) /\ Len(a) = i - 1 /\ \A j \in 1..(i - 1) : a[j] = s[j]
  <2>1. \A j \in 1..(i - 1) : s[j] \in T
    BY <1>1
  <2>2. /\ a \in Seq(T) /\ Len(a) = IF 1 <= i - 1 THEN (i - 1) - 1 + 1 ELSE 0
        /\ \A j \in 1..((i - 1) - 1 + 1) : a[j] = s[1 + j - 1]
    BY <1>1, <2>1, SubSeqProperties
  <2> HIDE DEF a
  <2>3. \A j \in 1..(i - 1) : j \in 1..((i - 1) - 1 + 1) /\ 1 + j - 1 = j
    BY <1>1
  <2>4. Len(a) = i - 1
    BY <1>1, <2>2
  <2>5. \A j \in 1..(i - 1) : a[j] = s[j]
    BY <2>2, <2>3
  <2> QED BY <2>2, <2>4, <2>5
<1>3. b \in Seq(T) /\ Len(b) = Len(s) - i /\ \A j \in 1..(Len(s) - i) : b[j] = s[i + j]
  <2>1. \A j \in (i + 1)..Len(s) : s[j] \in T
    BY <1>1
  <2>2. /\ b \in Seq(T) /\ Len(b) = IF i + 1 <= Len(s) THEN Len(s) - (i + 1) + 1 ELSE 0
        /\ \A j \in 1..(Len(s) - (i + 1) + 1) : b[j] = s[(i + 1) + j - 1]
    BY <1>1, <2>1, SubSeqProperties
  <2> HIDE DEF b
  <2>3. \A j \in 1..(Len(s) - i) : j \in 1..(Len(s) - (i + 1) + 1) /\ (i + 1) + j - 1 = i + j
    BY <1>1
  <2>4. Len(b) = Len(s) - i
    BY <1>1, <2>2
  <2>5. \A j \in 1..(Len(s) - i) : b[j] = s[i + j]
    BY <2>2, <2>3
  <2> QED BY <2>2, <2>4, <2>5
<1> HIDE DEF a, b
<1>4. /\ c \in Seq(T) /\ Len(c) = Len(a) + Len(b) /\ \A j \in 1..Len(a) : c[j] = a[j]
      /\ \A j \in 1..Len(b) : c[Len(a) + j] = b[j]
  <2>1. a \in Seq(T) /\ b \in Seq(T)
    BY <1>2, <1>3
  <2> QED BY ONLY <2>1, JoinedPlaces DEF c
<1>5. RemoveAt(s, i) = c
  BY DEF RemoveAt, a, b
<1> HIDE DEF c
<1>6. Len(c) = Len(s) - 1
  BY <1>1, <1>2, <1>3, <1>4
<1>7. ASSUME NEW j \in 1..Len(c) PROVE c[j] = IF j < i THEN s[j] ELSE s[j + 1]
  <2>1. CASE j < i
    <3>1. j \in 1..(i - 1)
      BY <1>1, <1>6, <2>1
    <3> QED BY <1>2, <1>4, <2>1, <3>1
  <2>2. CASE ~(j < i)
    <3>1. j - (i - 1) \in 1..(Len(s) - i) /\ (i - 1) + (j - (i - 1)) = j /\ i + (j - (i - 1)) = j + 1
      BY <1>1, <1>6, <2>2
    <3>2. c[(i - 1) + (j - (i - 1))] = b[j - (i - 1)]
      BY <1>2, <1>3, <1>4, <3>1
    <3>3. b[j - (i - 1)] = s[i + (j - (i - 1))]
      BY <1>3, <3>1
    <3> QED BY <2>2, <3>1, <3>2, <3>3
  <2> QED BY <2>1, <2>2
<1> QED
  BY <1>1, <1>4, <1>5, <1>6, <1>7

-----------------------------------------------------------------------------
(* The types.                                                              *)

LEMMA CallParts ==
  /\ \A e, x : Push(e, x).op = "push" /\ Push(e, x).edge = e /\ Push(e, x).item = x
  /\ \A e, x : Grab(e, x).op = "grab" /\ Grab(e, x).edge = e /\ Grab(e, x).item = x
  /\ \A e \in Edges, x \in Item : Push(e, x) \in Calls /\ Grab(e, x) \in Calls
  /\ \A c \in Calls : c.edge \in Edges /\ c.item \in Item
BY DEF Push, Grab, Calls

LEMMA NextGroup ==
  ASSUME TypeInv, MyTurn
  PROVE  /\ pos \in 1..Len(groups) /\ Len(groups) \in Nat /\ Group \in GroupSet /\ Group \in Elems(groups)
         /\ Group \notin complete_ports /\ ~is_complete /\ Running(Group)
         /\ ports[Group] \in Seq(Sources) /\ cur_port[Group] \in 1..Len(ports[Group])
         /\ ports[Group][cur_port[Group]] \in Sources
         /\ Port \in Inputs /\ Port \in Edges
         /\ q[Port] # <<>> => PortHead \in Item
<1>1. groups \in Seq(GroupSet) /\ pos \in 1..(Len(groups) + 1) /\ ports \in [GroupSet -> Seq(Sources)]
  BY DEF TypeInv, LoopInv
<1>2. pos \in 1..Len(groups) /\ Len(groups) \in Nat /\ Group \in GroupSet
  BY <1>1, SomeLists DEF MyTurn, Group
<1>3. Group \in Elems(groups)
  BY <1>2 DEF Elems, Group
<1>4. Group \notin complete_ports
  BY <1>2 DEF MyTurn, TypeInv, LoopInv, Group
<1>5. cur_port[Group] \in 1..Len(ports[Group])
  BY <1>3, <1>4 DEF TypeInv, LoopInv
<1>6. ports[Group] \in Seq(Sources)
  BY <1>1, <1>2
<1>7. ports[Group][cur_port[Group]] \in Sources
  BY <1>5, <1>6, SomeLists
<1>8. Port \in Inputs /\ Port \in Edges
  BY <1>2, <1>7, TheEdges DEF Port
<1>9. q[Port] # <<>> => PortHead \in Item
  BY <1>8, QueueSteps DEF TypeInv, PortHead
<1> QED
  BY <1>2, <1>3, <1>4, <1>5, <1>6, <1>7, <1>8, <1>9 DEF MyTurn, Running

LEMMA LoopGoesOn ==
  ASSUME LoopInv, pos <= Len(groups), ~is_complete, UNCHANGED <<groups, is_complete>>,
         NEW calls, GoOn(calls),
         complete_ports' = complete_ports \/ complete_ports' = complete_ports \cup {Group},
         ports' \in [GroupSet -> Seq(Sources)], cur_port' \in [GroupSet -> Nat],
         \A g \in Elems(groups) : g \notin complete_ports' => cur_port'[g] \in 1..Len(ports'[g])
  PROVE  LoopInv'
<1>1. groups \in Seq(GroupSet) /\ pos \in 1..(Len(groups) + 1) /\ Len(groups) \in Nat
  BY SomeLists DEF LoopInv
<1>2. pos \in 1..Len(groups) /\ todo' = calls /\ pos' = IF calls = <<>> THEN pos + 1 ELSE pos
  BY <1>1 DEF GoOn
<1>3. pos' \in 1..(Len(groups) + 1) /\ (todo' # <<>> => pos' = pos)
  BY <1>1, <1>2
<1>4. Group \in Elems(groups)
  BY <1>2 DEF Elems, Group
<1>5. \A i \in 1..Len(groups) : groups[i] = Group => i = pos
  BY <1>2 DEF LoopInv, Group
<1>6. \A i \in 1..Len(groups) : groups[i] \in complete_ports' => i < pos \/ i = pos
  BY <1>5 DEF LoopInv
<1>7. \A i \in 1..Len(groups) : i < pos \/ i = pos => i < pos' \/ (i = pos' /\ todo' # <<>>)
  BY <1>1, <1>2
<1>8. Elems(groups)' = Elems(groups)
  BY DEF Elems
<1>9. complete_ports' \subseteq Elems(groups)
  BY <1>4 DEF LoopInv
<1> QED
  BY <1>1, <1>2, <1>3, <1>6, <1>7, <1>8, <1>9 DEF LoopInv

LEMMA PortsSame ==
  ASSUME LoopInv, UNCHANGED <<ports, cur_port, groups>>, complete_ports \subseteq complete_ports'
  PROVE  /\ ports' \in [GroupSet -> Seq(Sources)] /\ cur_port' \in [GroupSet -> Nat]
         /\ \A g \in Elems(groups) : g \notin complete_ports' => cur_port'[g] \in 1..Len(ports'[g])
BY DEF LoopInv

LEMMA TypesTurnData ==
  ASSUME TypeInv, TurnData
  PROVE  TypeInv'
<1> DEFINE g == Group
           calls == <<Push(Res(g), PortHead)>>
           n == Len(ports[g])
<1>1. /\ MyTurn /\ q[Port] # <<>> /\ q' = [q EXCEPT ![Port] = Tail(@)] /\ GoOn(calls)
      /\ cur_port' = [cur_port EXCEPT ![g] = Advance(@, n)]
      /\ UNCHANGED <<policy, closed, groups, ports, complete_ports, is_complete, out, sent, ended, left, got>>
  BY DEF TurnData
<1>2. /\ pos \in 1..Len(groups) /\ g \in GroupSet /\ ~is_complete /\ Port \in Edges /\ PortHead \in Item
      /\ ports[g] \in Seq(Sources) /\ cur_port[g] \in 1..n
  BY <1>1, NextGroup
<1>3. q' \in Queues
  BY <1>1, <1>2, QueueSteps DEF TypeInv
<1>4. calls \in Seq(Calls)
  BY <1>2, TheEdges, CallParts
<1> HIDE DEF calls
<1>5. n \in Nat
  BY <1>2, SomeLists
<1> HIDE DEF g, n
<1>6. Advance(cur_port[g], n) \in 1..n
  BY <1>2, <1>5 DEF Advance
<1>7. /\ cur_port \in [GroupSet -> Nat] /\ \A h \in Elems(groups) : h \notin complete_ports => cur_port[h] \in 1..Len(ports[h])
      /\ ports \in [GroupSet -> Seq(Sources)]
  BY DEF TypeInv, LoopInv
<1>8. cur_port' \in [GroupSet -> Nat] /\ \A h \in GroupSet : cur_port'[h] = IF h = g THEN Advance(cur_port[g], n) ELSE cur_port[h]
  BY <1>1, <1>2, <1>6, <1>7
<1>9. \A h \in Elems(groups) : h \in GroupSet
  BY SomeLists DEF TypeInv, LoopInv, Elems
<1>10. \A h \in Elems(groups) : h \notin complete_ports' => cur_port'[h] \in 1..Len(ports'[h])
  <2> SUFFICES ASSUME NEW h \in Elems(groups), h \notin complete_ports PROVE cur_port'[h] \in 1..Len(ports[h])
    BY <1>1
  <2>1. CASE h = g
    BY <1>6, <1>8, <1>9, <2>1 DEF n
  <2>2. CASE h # g
    BY <1>7, <1>8, <1>9, <2>2
  <2> QED BY <2>1, <2>2
<1>11. LoopInv'
  <2>1. LoopInv /\ pos <= Len(groups) /\ ports' \in [GroupSet -> Seq(Sources)]
    BY <1>1, <1>2, <1>7 DEF TypeInv
  <2>2. UNCHANGED <<groups, is_complete>> /\ complete_ports' = complete_ports
    BY <1>1
  <2> QED BY <1>1, <1>2, <1>8, <1>10, <2>1, <2>2, LoopGoesOn
<1> QED
  BY <1>1, <1>3, <1>4, <1>11 DEF TypeInv, GoOn

LEMMA AnyCalls ==
  ASSUME NEW g \in GroupSet, NEW w \in Seq(Sources), NEW x \in Item
  PROVE  LET c == [i \in DOMAIN w |-> Grab(In(g, w[i]), x)] \o <<Push(Res(g), x)>>
         IN  /\ c \in Seq(Calls) /\ Len(c) = Len(w) + 1 /\ Len(w) \in Nat
             /\ \A i \in 1..Len(w) : c[i] = Grab(In(g, w[i]), x)
             /\ c[Len(w) + 1] = Push(Res(g), x)
<1> DEFINE a == [i \in DOMAIN w |-> Grab(In(g, w[i]), x)]
           b == <<Push(Res(g), x)>>
           c == a \o b
<1>1. Len(w) \in Nat /\ DOMAIN w = 1..Len(w) /\ \A i \in 1..Len(w) : w[i] \in Sources
  BY SomeLists
<1>2. \A i \in 1..Len(w) : Grab(In(g, w[i]), x) \in Calls
  BY <1>1, TheEdges, CallParts
<1>3. a \in [1..Len(w) -> Calls] /\ \A i \in 1..Len(w) : a[i] = Grab(In(g, w[i]), x)
  BY <1>1, <1>2
<1>4. Push(Res(g), x) \in Calls
  BY TheEdges, CallParts
<1>5. b \in Seq(Calls) /\ Len(b) = 1 /\ b[1] = Push(Res(g), x)
  BY <1>4
<1> HIDE DEF a, b
<1>6. a \in Seq(Calls) /\ Len(a) = Len(w)
  BY <1>1, <1>3, IsASeq, LenProperties
<1>7. /\ c \in Seq(Calls) /\ Len(c) = Len(a) + Len(b) /\ \A i \in 1..Len(a) : c[i] = a[i]
      /\ \A j \in 1..Len(b) : c[Len(a) + j] = b[j]
  <2>1. a \in Seq(Calls) /\ b \in Seq(Calls)
    BY <1>5, <1>6
  <2> QED BY ONLY <2>1, JoinedPlaces DEF c
<1> HIDE DEF c
<1>8. /\ c \in Seq(Calls) /\ Len(c) = Len(w) + 1 /\ Len(w) \in Nat
      /\ \A i \in 1..Len(w) : c[i] = Grab(In(g, w[i]), x)
      /\ c[Len(w) + 1] = Push(Res(g), x)
  BY <1>1, <1>3, <1>5, <1>6, <1>7
<1> QED
  BY <1>8 DEF c, a, b

LEMMA TypesTurnCompleteAny ==
  ASSUME TypeInv, TurnCompleteAny
  PROVE  TypeInv'
<1> DEFINE g == Group
           calls == [i \in DOMAIN ports[g] |-> Grab(In(g, ports[g][i]), PortHead)]
                      \o <<Push(Res(g), PortHead)>>
<1>1. /\ MyTurn /\ q[Port] # <<>> /\ q' = [q EXCEPT ![Port] = Tail(@)] /\ GoOn(calls)
      /\ complete_ports' = complete_ports \cup {g}
      /\ UNCHANGED <<policy, closed, groups, ports, cur_port, is_complete, out, sent, ended, left, got>>
  BY DEF TurnCompleteAny
<1>2. /\ pos \in 1..Len(groups) /\ g \in GroupSet /\ ~is_complete /\ Port \in Edges /\ PortHead \in Item
      /\ ports[g] \in Seq(Sources)
  BY <1>1, NextGroup
<1>3. q' \in Queues
  BY <1>1, <1>2, QueueSteps DEF TypeInv
<1>4. calls \in Seq(Calls)
  BY <1>2, AnyCalls
<1> HIDE DEF calls
<1>5. LoopInv'
  <2>1. LoopInv /\ pos <= Len(groups)
    BY <1>2 DEF TypeInv
  <2>2. /\ UNCHANGED <<ports, cur_port, groups, is_complete>> /\ complete_ports \subseteq complete_ports'
        /\ complete_ports' = complete_ports \cup {Group}
    BY <1>1
  <2>3. /\ ports' \in [GroupSet -> Seq(Sources)] /\ cur_port' \in [GroupSet -> Nat]
        /\ \A h \in Elems(groups) : h \notin complete_ports' => cur_port'[h] \in 1..Len(ports'[h])
    BY <2>1, <2>2, PortsSame
  <2> QED BY <1>1, <1>2, <2>1, <2>2, <2>3, LoopGoesOn
<1> QED
  BY <1>1, <1>3, <1>4, <1>5 DEF TypeInv, GoOn

LEMMA TypesTurnCompleteAll ==
  ASSUME TypeInv, TurnCompleteAll
  PROVE  TypeInv'
<1> DEFINE g == Group
           w == ports[g]
           i == cur_port[g]
           rest == RemoveAt(w, i)
           calls == IF rest = <<>> THEN <<Push(Res(g), PortHead)>> ELSE <<>>
           k == IF i > Len(rest) THEN 1 ELSE i
<1>1. /\ MyTurn /\ q[Port] # <<>> /\ q' = [q EXCEPT ![Port] = Tail(@)] /\ GoOn(calls)
      /\ ports' = [ports EXCEPT ![g] = rest]
      /\ cur_port' = [cur_port EXCEPT ![g] = IF @ > Len(rest) THEN 1 ELSE @]
      /\ complete_ports' = IF rest = <<>> THEN complete_ports \cup {g} ELSE complete_ports
      /\ UNCHANGED <<policy, closed, groups, is_complete, out, sent, ended, left, got>>
  BY DEF TurnCompleteAll
<1>2. /\ pos \in 1..Len(groups) /\ g \in GroupSet /\ ~is_complete /\ Port \in Edges /\ PortHead \in Item
      /\ w \in Seq(Sources) /\ i \in 1..Len(w)
  BY <1>1, NextGroup
<1>3. q' \in Queues
  BY <1>1, <1>2, QueueSteps DEF TypeInv
<1>4. calls \in Seq(Calls)
  BY <1>2, TheEdges, CallParts
<1> HIDE DEF calls
<1>5. rest \in Seq(Sources) /\ Len(w) \in Nat /\ Len(rest) = Len(w) - 1
  BY <1>2, Removed
<1> HIDE DEF rest
<1>6. k \in Nat /\ (rest # <<>> => k \in 1..Len(rest))
  BY <1>2, <1>5, SomeLists
<1>7. /\ cur_port \in [GroupSet -> Nat] /\ \A h \in Elems(groups) : h \notin complete_ports => cur_port[h] \in 1..Len(ports[h])
      /\ ports \in [GroupSet -> Seq(Sources)]
  BY DEF TypeInv, LoopInv
<1>8. /\ cur_port' \in [GroupSet -> Nat] /\ \A h \in GroupSet : cur_port'[h] = IF h = g THEN k ELSE cur_port[h]
      /\ ports' \in [GroupSet -> Seq(Sources)] /\ \A h \in GroupSet : ports'[h] = IF h = g THEN rest ELSE ports[h]
  BY <1>1, <1>2, <1>5, <1>6, <1>7
<1> HIDE DEF k, g
<1>9. \A h \in Elems(groups) : h \in GroupSet
  BY SomeLists DEF TypeInv, LoopInv, Elems
<1>10. \A h \in Elems(groups) : h \notin complete_ports' => cur_port'[h] \in 1..Len(ports'[h])
  <2> SUFFICES ASSUME NEW h \in Elems(groups), h \notin complete_ports' PROVE cur_port'[h] \in 1..Len(ports'[h])
    OBVIOUS
  <2>1. CASE h = g
    BY <1>1, <1>6, <1>8, <1>9, <2>1
  <2>2. CASE h # g
    <3>1. h \notin complete_ports
      BY <1>1
    <3> QED BY <1>7, <1>8, <1>9, <2>2, <3>1
  <2> QED BY <2>1, <2>2
<1>11. LoopInv'
  <2>1. LoopInv /\ pos <= Len(groups)
    BY <1>1, <1>2 DEF TypeInv
  <2>2. UNCHANGED <<groups, is_complete>>
    BY <1>1
  <2>3. complete_ports' = complete_ports \/ complete_ports' = complete_ports \cup {Group}
    BY <1>1 DEF g
  <2> QED BY <1>1, <1>2, <1>8, <1>10, <2>1, <2>2, <2>3, LoopGoesOn
<1> QED
  BY <1>1, <1>3, <1>4, <1>11 DEF TypeInv, GoOn

LEMMA TypesMuxCalls ==
  ASSUME TypeInv, MuxGrab \/ MuxPush
  PROVE  TypeInv'
<1> DEFINE c == Head(todo)
           calls == Tail(todo)
<1>1. /\ todo # <<>> /\ GoOn(calls)
      /\ UNCHANGED <<policy, closed, groups, ports, cur_port, complete_ports, is_complete, out, sent, ended, left, got>>
  BY DEF MuxGrab, MuxPush
<1>2. c \in Calls /\ calls \in Seq(Calls) /\ pos <= Len(groups) /\ ~is_complete
  BY <1>1, SomeLists DEF TypeInv, LoopInv
<1>3. c.edge \in Edges /\ c.item \in Item
  BY <1>2, CallParts
<1>4. q' \in Queues
  <2>1. CASE MuxGrab
    BY <1>3, <2>1, QueueSteps DEF TypeInv, MuxGrab
  <2>2. CASE MuxPush
    BY <1>3, <2>2, PushedQueue DEF TypeInv, MuxPush
  <2> QED BY <2>1, <2>2
<1> HIDE DEF calls
<1>5. LoopInv'
  <2>1. LoopInv
    BY DEF TypeInv
  <2>2. /\ UNCHANGED <<ports, cur_port, groups, is_complete>> /\ complete_ports \subseteq complete_ports'
        /\ complete_ports' = complete_ports
    BY <1>1
  <2>3. /\ ports' \in [GroupSet -> Seq(Sources)] /\ cur_port' \in [GroupSet -> Nat]
        /\ \A h \in Elems(groups) : h \notin complete_ports' => cur_port'[h] \in 1..Len(ports'[h])
    BY <2>1, <2>2, PortsSame
  <2> QED BY <1>1, <1>2, <2>1, <2>2, <2>3, LoopGoesOn
<1> QED
  BY <1>1, <1>2, <1>4, <1>5 DEF TypeInv, GoOn

LEMMA TheLeft ==
  ASSUME LoopInv
  PROVE  /\ Left \in Seq(GroupSet) /\ Len(Left) \in Nat
         /\ Elems(Left) = {g \in Elems(groups) : g \notin complete_ports}
         /\ \A i, j \in 1..Len(Left) : Left[i] = Left[j] => i = j
<1> DEFINE S == ToSet(groups) \ complete_ports
           f == Chosen(groups, S)
<1>1. /\ groups \in Seq(GroupSet) /\ DOMAIN groups = 1..Len(groups)
      /\ \A i, j \in 1..Len(groups) : groups[i] = groups[j] => i = j
  BY SomeLists DEF LoopInv
<1>2. Elems(groups) \cap S = {g \in Elems(groups) : g \notin complete_ports}
  BY <1>1 DEF Elems, ToSet
<1> HIDE DEF S
<1>3. f \in Seq(GroupSet) /\ Elems(f) = Elems(groups) \cap S
  BY <1>1, ChosenElements
<1>4. \A i, j \in 1..Len(f) : f[i] = f[j] => i = j
  BY <1>1, ChosenApart
<1>5. Len(f) \in Nat
  BY <1>3, SomeLists
<1>6. Left = f
  BY DEF Left, S
<1> QED
  BY <1>2, <1>3, <1>4, <1>5, <1>6

LEMMA TypesMuxEndStep ==
  ASSUME TypeInv, MuxEndStep
  PROVE  TypeInv'
<1>1. /\ StepDone /\ groups' = Left /\ pos' = 1 /\ complete_ports' = {} /\ is_complete' = IsDone
      /\ IF IsDone THEN Close(Inputs) ELSE UNCHANGED <<q, closed>>
      /\ UNCHANGED <<policy, ports, cur_port, todo, out, sent, ended, left, got>>
  BY DEF MuxEndStep
<1>2. q' \in Queues /\ closed' \in [Edges -> BOOLEAN]
  <2>1. q \in Queues /\ closed \in [Edges -> BOOLEAN]
    BY DEF TypeInv
  <2>2. CASE IsDone
    BY <1>1, <2>1, <2>2, ClosedEdges
  <2>3. CASE ~IsDone
    BY <1>1, <2>1, <2>3
  <2> QED BY <2>2, <2>3
<1>3. is_complete' \in BOOLEAN
  BY <1>1 DEF IsDone
<1>4. todo' = <<>>
  BY <1>1 DEF StepDone
<1>5. LoopInv'
  <2>1. LoopInv
    BY DEF TypeInv
  <2>2. /\ groups' \in Seq(GroupSet) /\ Len(groups') \in Nat
        /\ \A i, j \in 1..Len(groups') : groups'[i] = groups'[j] => i = j
        /\ Elems(groups)' = {g \in Elems(groups) : g \notin complete_ports}
    <3>1. Elems(groups)' = Elems(Left)
      BY <1>1 DEF Elems
    <3> QED BY <1>1, <2>1, <3>1, TheLeft
  <2>3. \A g \in Elems(groups)' : cur_port[g] \in 1..Len(ports[g])
    BY <2>1, <2>2 DEF LoopInv
  <2>4. pos' \in 1..(Len(groups') + 1)
    BY <1>1, <2>2
  <2> QED BY <1>1, <1>4, <2>1, <2>2, <2>3, <2>4 DEF LoopInv
<1> QED
  BY <1>1, <1>2, <1>3, <1>5 DEF TypeInv

LEMMA LoopSame ==
  ASSUME LoopInv, UNCHANGED muxVars
  PROVE  LoopInv'
BY DEF LoopInv, muxVars, Elems

LEMMA SourceCalls ==
  ASSUME NEW s \in Sources, NEW x \in Item
  PROVE  LET c == [i \in DOMAIN Fed(s) |-> Push(In(Fed(s)[i], s), x)]
         IN  /\ c \in Seq(Calls) /\ Len(c) = Len(Fed(s)) /\ Len(c) \in Nat \ {0}
             /\ \A i \in 1..Len(c) : c[i] = Push(In(Fed(s)[i], s), x)
<1> DEFINE f == Fed(s)
           c == [i \in DOMAIN f |-> Push(In(f[i], s), x)]
<1>1. Len(f) \in Nat \ {0} /\ DOMAIN f = 1..Len(f) /\ \A i \in 1..Len(f) : f[i] \in GroupSet
  BY TheFed
<1> HIDE DEF f
<1>2. \A i \in 1..Len(f) : Push(In(f[i], s), x) \in Calls
  BY <1>1, TheEdges, CallParts
<1>3. c \in [1..Len(f) -> Calls] /\ \A i \in 1..Len(f) : c[i] = Push(In(f[i], s), x)
  BY <1>1, <1>2
<1> HIDE DEF c
<1>4. c \in Seq(Calls) /\ Len(c) = Len(f)
  BY <1>1, <1>3, IsASeq, LenProperties
<1> QED
  BY <1>1, <1>3, <1>4 DEF c, f

(* The item that a source sends next, and its pushes.                      *)
LEMMA NextItem ==
  ASSUME TypeInv, NEW s \in Sources, SourceStep(s)
  PROVE  \E x \in Item :
           /\ x.src = s /\ x.no = Len(sent[s]) + 1
           /\ s \notin ended /\ out[s] = <<>>
           /\ sent' = [sent EXCEPT ![s] = Append(@, x)]
           /\ out' = [out EXCEPT ![s] = [i \in DOMAIN Fed(s) |-> Push(In(Fed(s)[i], s), x)]]
           /\ UNCHANGED <<q, closed, muxVars, ended, left, got>>
<1>1. PICK k \in (IF Len(sent[s]) < MaxItems[s] THEN Kinds ELSE {}) \cup {"complete"} :
        LET x == [type |-> k, src |-> s, no |-> Len(sent[s]) + 1]
        IN  /\ sent' = [sent EXCEPT ![s] = Append(@, x)]
            /\ out' = [out EXCEPT ![s] = [i \in DOMAIN Fed(s) |-> Push(In(Fed(s)[i], s), x)]]
  BY DEF SourceStep
<1> DEFINE x == [type |-> k, src |-> s, no |-> Len(sent[s]) + 1]
<1>2. Len(sent[s]) \in Nat
  BY SomeLists DEF TypeInv
<1>3. x \in Item /\ x.src = s /\ x.no = Len(sent[s]) + 1
  <2>1. k \in Kinds \cup {"complete"}
    OBVIOUS
  <2> QED BY <1>2, <2>1 DEF Item
<1>4. s \notin ended /\ out[s] = <<>> /\ UNCHANGED <<q, closed, muxVars, ended, left, got>>
  BY DEF SourceStep
<1> QED
  BY <1>1, <1>3, <1>4

LEMMA TypesSourceStep ==
  ASSUME TypeInv, NEW s \in Sources, SourceStep(s)
  PROVE  TypeInv'
<1>1. PICK x \in Item :
        /\ x.src = s /\ x.no = Len(sent[s]) + 1
        /\ s \notin ended /\ out[s] = <<>>
        /\ sent' = [sent EXCEPT ![s] = Append(@, x)]
        /\ out' = [out EXCEPT ![s] = [i \in DOMAIN Fed(s) |-> Push(In(Fed(s)[i], s), x)]]
        /\ UNCHANGED <<q, closed, muxVars, ended, left, got>>
  BY NextItem
<1> DEFINE c == [i \in DOMAIN Fed(s) |-> Push(In(Fed(s)[i], s), x)]
<1>2. c \in Seq(Calls)
  BY SourceCalls
<1> HIDE DEF c
<1>3. out' \in [Sources -> Seq(Calls)]
  BY <1>1, <1>2 DEF TypeInv, c
<1>4. sent' \in [Sources -> Seq(Item)]
  <2>1. Append(sent[s], x) \in Seq(Item)
    BY SomeLists DEF TypeInv
  <2> QED BY <1>1, <2>1 DEF TypeInv
<1>5. LoopInv'
  BY <1>1, LoopSame DEF TypeInv
<1> QED
  BY <1>1, <1>3, <1>4, <1>5 DEF TypeInv, muxVars

LEMMA TypesSourcePush ==
  ASSUME TypeInv, NEW s \in Sources, SourcePush(s)
  PROVE  TypeInv'
<1> DEFINE c == Head(out[s])
<1>1. /\ out[s] # <<>> /\ CanPush(c.edge) /\ q' = Pushed(c.edge, c.item)
      /\ out' = [out EXCEPT ![s] = Tail(@)] /\ (ended' = ended \/ ended' = ended \cup {s})
      /\ UNCHANGED <<closed, muxVars, sent, left, got>>
  BY DEF SourcePush
<1>2. out[s] \in Seq(Calls)
  BY DEF TypeInv
<1>3. c \in Calls /\ Tail(out[s]) \in Seq(Calls)
  BY <1>1, <1>2, SomeLists
<1>4. c.edge \in Edges /\ c.item \in Item
  BY <1>3, CallParts
<1> HIDE DEF c
<1>5. q' \in Queues
  BY <1>1, <1>4, PushedQueue DEF TypeInv
<1>6. out' \in [Sources -> Seq(Calls)]
  BY <1>1, <1>3 DEF TypeInv
<1>7. LoopInv'
  BY <1>1, LoopSame DEF TypeInv
<1>8. ended' \subseteq Sources
  BY <1>1 DEF TypeInv
<1> QED
  BY <1>1, <1>5, <1>6, <1>7, <1>8 DEF TypeInv, muxVars

(* What the reader of a group does with the stream.                        *)
LEMMA ReadParts ==
  ASSUME TypeInv, NEW g \in GroupSet, Read(g)
  PROVE  /\ q[Res(g)] \in Seq(Item) /\ q[Res(g)] # <<>> /\ got[g] \in Seq(Item)
         /\ got' = [got EXCEPT ![g] = Append(@, Head(q[Res(g)]))] /\ got' \in [GroupSet -> Seq(Item)]
         /\ q' \in Queues /\ closed' \in [Edges -> BOOLEAN] /\ left' \subseteq GroupSet
         /\ \/ q'[Res(g)] = <<>> /\ closed'[Res(g)]
            \/ q'[Res(g)] = Tail(q[Res(g)]) /\ closed'[Res(g)] = closed[Res(g)]
         /\ \A e \in Edges : e # Res(g) => q'[e] = q[e] /\ closed'[e] = closed[e]
         /\ UNCHANGED <<muxVars, out, sent, ended>>
<1> DEFINE e == Res(g)
           x == Head(q[e])
<1>1. q[e] # <<>> /\ got' = [got EXCEPT ![g] = Append(@, x)] /\ UNCHANGED <<muxVars, out, sent, ended>>
  BY DEF Read
<1>2. /\ e \in Edges /\ q \in Queues /\ closed \in [Edges -> BOOLEAN] /\ left \subseteq GroupSet
      /\ got \in [GroupSet -> Seq(Item)]
  BY TheEdges DEF TypeInv
<1>3. q[e] \in Seq(Item) /\ x \in Item /\ [q EXCEPT ![e] = Tail(@)] \in Queues
  BY <1>1, <1>2, QueueSteps
<1>4. got' \in [GroupSet -> Seq(Item)]
  <2>1. Append(got[g], x) \in Seq(Item)
    BY <1>2, <1>3, SomeLists
  <2> QED BY <1>1, <1>2, <2>1
<1>5. CASE left' = left \cup {g} /\ Close({Res(g)})
  <2>1. /\ q' \in Queues /\ closed' \in [Edges -> BOOLEAN]
        /\ \A d \in Edges : IF d \in {e} THEN q'[d] = <<>> /\ closed'[d]
                            ELSE q'[d] = q[d] /\ closed'[d] = closed[d]
    BY <1>2, <1>5, ClosedEdges
  <2> QED BY <1>1, <1>2, <1>3, <1>4, <1>5, <2>1
<1>6. CASE q' = [q EXCEPT ![Res(g)] = Tail(@)] /\ UNCHANGED <<left, closed>>
  <2>1. q'[e] = Tail(q[e]) /\ \A d \in Edges : d # e => q'[d] = q[d]
    BY <1>2, <1>6 DEF Queues
  <2> QED BY <1>1, <1>2, <1>3, <1>4, <1>6, <2>1
<1> QED
  BY <1>5, <1>6 DEF Read

LEMMA TypesRead ==
  ASSUME TypeInv, NEW g \in GroupSet, Read(g)
  PROVE  TypeInv'
<1>1. /\ got' \in [GroupSet -> Seq(Item)] /\ q' \in Queues /\ closed' \in [Edges -> BOOLEAN]
      /\ left' \subseteq GroupSet /\ UNCHANGED <<muxVars, out, sent, ended>>
  BY ReadParts
<1>2. LoopInv'
  BY <1>1, LoopSame DEF TypeInv
<1> QED
  BY <1>1, <1>2 DEF TypeInv, muxVars

LEMMA TypesAtFirst == Init => TypeInv
<1> SUFFICES ASSUME Init PROVE TypeInv
  OBVIOUS
<1>1. /\ policy \in Policies /\ q = [e \in Edges |-> <<>>] /\ closed = [e \in Edges |-> FALSE]
      /\ groups = Groups /\ pos = 1 /\ ports = Ports /\ cur_port = [g \in GroupSet |-> 1]
      /\ todo = <<>> /\ complete_ports = {} /\ is_complete = FALSE
      /\ out = [s \in Sources |-> <<>>] /\ sent = [s \in Sources |-> <<>>]
      /\ ended = {} /\ left = {} /\ got = [g \in GroupSet |-> <<>>]
  BY DEF Init
<1>2. policy \in {"any", "all"}
  BY <1>1, MuxAssumption
<1>3. q \in Queues
  BY <1>1, MuxAssumption DEF Queues
<1>4. LoopInv
  <2>1. Elems(groups) = GroupSet /\ Len(groups) \in Nat
    BY <1>1, TheGroups
  <2>2. \A g \in GroupSet : cur_port[g] = 1 /\ 1 \in 1..Len(ports[g])
    BY <1>1, ThePorts
  <2> QED BY <1>1, <2>1, <2>2, TheGroups DEF LoopInv
<1>5. closed \in [Edges -> BOOLEAN] /\ is_complete \in BOOLEAN /\ ended \subseteq Sources /\ left \subseteq GroupSet
  BY <1>1
<1>6. todo \in Seq(Calls) /\ out \in [Sources -> Seq(Calls)]
  <2>1. <<>> \in Seq(Calls)
    OBVIOUS
  <2> QED BY <1>1, <2>1
<1>7. sent \in [Sources -> Seq(Item)] /\ got \in [GroupSet -> Seq(Item)]
  <2>1. <<>> \in Seq(Item)
    OBVIOUS
  <2> QED BY <1>1, <2>1
<1> QED
  BY <1>2, <1>3, <1>4, <1>5, <1>6, <1>7 DEF TypeInv

LEMMA TypesKept == TypeInv /\ [Next]_vars => TypeInv'
<1> SUFFICES ASSUME TypeInv, [Next]_vars PROVE TypeInv'
  OBVIOUS
<1>1. CASE UNCHANGED vars
  <2>1. LoopInv'
    BY <1>1, LoopSame DEF TypeInv, vars
  <2> QED BY <1>1, <2>1 DEF TypeInv, vars, muxVars
<1>2. CASE MuxNext
  BY <1>2, TypesTurnData, TypesTurnCompleteAll, TypesTurnCompleteAny, TypesMuxCalls, TypesMuxEndStep DEF MuxNext
<1>3. CASE \E s \in Sources : SourceStep(s) \/ SourcePush(s)
  BY <1>3, TypesSourceStep, TypesSourcePush
<1>4. CASE \E g \in GroupSet : Read(g)
  BY <1>4, TypesRead
<1> QED
  BY <1>1, <1>2, <1>3, <1>4 DEF Next, Progress, Joined

(* Every edge holds items of its sources, no more than it may, and mux's   *)
(* iterators are in their range, for any sources and groups.               *)
THEOREM TypesCorrect == Spec => []TypeInv
  BY TypesAtFirst, TypesKept, PTL DEF Spec

-----------------------------------------------------------------------------
(* The streams.                                                            *)

LEMMA OneTaken ==
  ASSUME NEW T, NEW a \in Seq(T), NEW s \in Seq(T), s # <<>>
  PROVE  Append(a, Head(s)) \o Tail(s) = a \o s
<1>1. s = <<Head(s)>> \o Tail(s) /\ Head(s) \in T /\ Tail(s) \in Seq(T)
  BY JoinsOfOne
<1>2. Append(a, Head(s)) = a \o <<Head(s)>> /\ <<Head(s)>> \in Seq(T)
  BY <1>1, JoinsOfOne
<1>3. (a \o <<Head(s)>>) \o Tail(s) = a \o (<<Head(s)>> \o Tail(s))
  BY <1>1, <1>2, ConcatAssociative
<1> QED
  BY <1>1, <1>2, <1>3

LEMMA OneAdded ==
  ASSUME NEW T, NEW a \in Seq(T), NEW s \in Seq(T), NEW x \in T
  PROVE  a \o Append(s, x) = Append(a \o s, x)
<1>1. Append(s, x) = s \o <<x>> /\ <<x>> \in Seq(T)
  BY JoinsOfOne
<1>2. a \o s \in Seq(T)
  BY ConcatProperties
<1>3. Append(a \o s, x) = (a \o s) \o <<x>>
  BY <1>2, JoinsOfOne
<1>4. (a \o s) \o <<x>> = a \o (s \o <<x>>)
  BY <1>1, ConcatAssociative
<1> QED
  BY <1>1, <1>3, <1>4

LEMMA TheStream ==
  ASSUME TypeInv, NEW g \in GroupSet
  PROVE  /\ Stream(g) \in Seq(Item) /\ Len(Stream(g)) \in Nat
         /\ got[g] \in Seq(Item) /\ q[Res(g)] \in Seq(Item) /\ Res(g) \in Edges
<1>1. got[g] \in Seq(Item) /\ q[Res(g)] \in Seq(Item) /\ Res(g) \in Edges
  BY TheEdges, QueueSteps DEF TypeInv
<1>2. Stream(g) \in Seq(Item)
  BY <1>1, ConcatProperties DEF Stream
<1> QED
  BY <1>1, <1>2, SomeLists

(* What depends on the sources alone.                                      *)
LEMMA SentSame ==
  ASSUME sent' = sent, policy' = policy
  PROVE  /\ \A g : Items(g)' = Items(g)
         /\ \A s : Finished(s)' = Finished(s)
         /\ \A g, x : Settled(g, x)' = Settled(g, x) /\ Earlier(g, x)' = Earlier(g, x)
         /\ \A g, x, B : Follows(g, x, B)' = Follows(g, x, B)
<1>1. \A g : Items(g)' = Items(g)
  BY DEF Items
<1>2. \A s : Finished(s)' = Finished(s)
  BY DEF Finished
<1>3. \A g, x : Settled(g, x)' = Settled(g, x) /\ Earlier(g, x)' = Earlier(g, x)
  BY <1>1, <1>2 DEF Settled, Earlier
<1> QED
  BY <1>1, <1>2, <1>3 DEF Follows

LEMMA StreamSame ==
  ASSUME TypeInv, NEW g \in GroupSet, StreamOK(g), Stream(g)' = Stream(g),
         \A x \in Item : \A B : Follows(g, x, B) => Follows(g, x, B)'
  PROVE  StreamOK(g)' /\ (Unfinished(g) => Unfinished(g)')
<1> DEFINE w == Stream(g)
           z == Stream(g)'
<1>1. z = w
  OBVIOUS
<1>2. /\ \A i \in 1..Len(w) : Follows(g, w[i], Firsts(w, i)) /\ (w[i].type = "complete" => i = Len(w))
      /\ Unfinished(g) => \A x \in Elems(w) : x.type # "complete"
  BY DEF StreamOK, Unfinished
<1> HIDE DEF w
<1>i. \A i \in 1..Len(w) : w[i] \in Item
  BY TheStream, SomeLists DEF w
<1>3. \A i \in 1..Len(w) : \A x, B : x = w[i] /\ B = Firsts(w, i) => Follows(g, x, B)'
  BY <1>2, <1>i
<1>4. StreamOK(g)'
  <2> HIDE DEF z
  <2>1. \A i \in 1..Len(z) : \A x, B : x = z[i] /\ B = Firsts(z, i) => Follows(g, x, B)'
    BY <1>1, <1>3
  <2>2. \A i \in 1..Len(z) : z[i].type = "complete" => i = Len(z)
    BY <1>1, <1>2
  <2> QED BY <2>1, <2>2 DEF StreamOK, z, Firsts
<1> QED
  BY <1>1, <1>2, <1>4 DEF Unfinished, Elems

LEMMA StreamGrows ==
  ASSUME TypeInv, NEW g \in GroupSet, NEW x \in Item, StreamOK(g), Unfinished(g),
         Follows(g, x, Elems(Stream(g))),
         Stream(g)' = Append(Stream(g), x), sent' = sent, policy' = policy
  PROVE  StreamOK(g)' /\ Elems(Stream(g))' = Elems(Stream(g)) \cup {x}
<1> DEFINE w == Stream(g)
           z == Stream(g)'
           n == Len(w)
<1>1. w \in Seq(Item) /\ n \in Nat
  BY TheStream
<1>2. /\ z \in Seq(Item) /\ Len(z) = n + 1 /\ z[n + 1] = x /\ \A i \in 1..n : z[i] = w[i]
  BY <1>1, SomeLists
<1>3. \A y, B : Follows(g, y, B)' = Follows(g, y, B)
  BY SentSame
<1>4. /\ \A i \in 1..n : Follows(g, w[i], Firsts(w, i)) /\ w[i].type # "complete"
      /\ Follows(g, x, Elems(w))
  BY DEF StreamOK, Unfinished, Elems
<1> HIDE DEF w
<1>5. \A i \in 1..Len(z) : i \in 1..n \/ i = n + 1
  BY <1>1, <1>2
<1>6. ASSUME NEW i \in 1..n PROVE Firsts(z, i) = Firsts(w, i)
  <2>1. \A j \in 1..(i - 1) : j \in 1..n
    BY <1>1
  <2> QED BY <1>2, <2>1 DEF Firsts
<1>7. Firsts(z, n + 1) = Elems(w)
  <2>1. (n + 1) - 1 = n
    BY <1>1
  <2> QED BY <1>2, <2>1 DEF Firsts, Elems
<1>8. ASSUME NEW i \in 1..Len(z)
      PROVE  Follows(g, z[i], Firsts(z, i)) /\ (z[i].type = "complete" => i = Len(z))
  <2>1. CASE i \in 1..n
    BY <1>2, <1>4, <1>6, <2>1
  <2>2. CASE i = n + 1
    BY <1>2, <1>4, <1>7, <2>2
  <2> QED BY <1>5, <2>1, <2>2
<1>9. Elems(z) = Elems(w) \cup {x}
  <2>1. \A i \in 1..n : i \in 1..Len(z)
    BY <1>1, <1>2
  <2>2. n + 1 \in 1..Len(z)
    BY <1>1, <1>2
  <2>3. Elems(z) \subseteq Elems(w) \cup {x}
    BY <1>2, <1>5 DEF Elems
  <2>4. Elems(w) \cup {x} \subseteq Elems(z)
    BY <1>2, <2>1, <2>2 DEF Elems
  <2> QED BY <2>3, <2>4
<1>10. StreamOK(g)'
  <2> HIDE DEF z
  <2>1. \A i \in 1..Len(z) : \A y, B : y = z[i] /\ B = Firsts(z, i) => Follows(g, y, B)'
    BY <1>3, <1>8
  <2>2. \A i \in 1..Len(z) : z[i].type = "complete" => i = Len(z)
    BY <1>8
  <2> QED BY <2>1, <2>2 DEF StreamOK, z, Firsts
<1> QED
  BY <1>9, <1>10 DEF w, Elems

LEMMA StreamShorter ==
  ASSUME NEW g, StreamOK(g), Len(Stream(g)) \in Nat, Len(Stream(g)') \in 0..Len(Stream(g)),
         \A i \in 1..Len(Stream(g)') : Stream(g)'[i] = Stream(g)[i],
         \A x, B : Follows(g, x, B) => Follows(g, x, B)'
  PROVE  StreamOK(g)'
<1> DEFINE w == Stream(g)
           z == Stream(g)'
<1>1. /\ Len(w) \in Nat /\ Len(z) \in 0..Len(w) /\ \A i \in 1..Len(z) : z[i] = w[i]
      /\ \A i \in 1..Len(w) : Follows(g, w[i], Firsts(w, i)) /\ (w[i].type = "complete" => i = Len(w))
  BY DEF StreamOK
<1> HIDE DEF w
<1>2. \A i \in 1..Len(w) : \A x, B : x = w[i] /\ B = Firsts(w, i) => Follows(g, x, B)'
  BY <1>1
<1> HIDE DEF z
<1>3. \A i \in 1..Len(z) : i \in 1..Len(w) /\ (i = Len(w) => i = Len(z)) /\ \A j \in 1..(i - 1) : j \in 1..Len(z)
  BY <1>1
<1>4. \A i \in 1..Len(z) : Firsts(z, i) = Firsts(w, i)
  BY <1>1, <1>3 DEF Firsts
<1>5. \A i \in 1..Len(z) : \A x, B : x = z[i] /\ B = Firsts(z, i) => Follows(g, x, B)'
  BY <1>1, <1>2, <1>3, <1>4
<1>6. \A i \in 1..Len(z) : z[i].type = "complete" => i = Len(z)
  BY <1>1, <1>3
<1> QED
  BY <1>5, <1>6 DEF StreamOK, z, Firsts

-----------------------------------------------------------------------------
(* The frames: what a step leaves alone.                                   *)

LEMMA SourceFrame ==
  ASSUME NEW s, SourceOK(s), sent'[s] = sent[s], out'[s] = out[s], s \in ended => s \in ended'
  PROVE  SourceOK(s)'
BY DEF SourceOK, Finished

LEMMA TakenFrame ==
  ASSUME NEW g, NEW s, sent'[s] = sent[s], out'[s] = out[s], q'[In(g, s)] = q[In(g, s)]
  PROVE  Taken(g, s)' = Taken(g, s)
BY DEF Taken, Arrived, Waits

LEMMA ArrivalFrame ==
  ASSUME NEW g, NEW s, ArrivalOK(g, s), sent'[s] = sent[s], out'[s] = out[s],
         q'[In(g, s)] = q[In(g, s)], closed'[In(g, s)] = closed[In(g, s)]
  PROVE  ArrivalOK(g, s)'
BY TakenFrame DEF ArrivalOK

LEMMA RoundPlaces ==
  ASSUME TypeInv, NEW g \in GroupSet, Running(g), RoundOK(g)
  PROVE  /\ ports[g] \in Seq(Sources) /\ Len(ports[g]) \in Nat /\ cur_port[g] \in 1..Len(ports[g])
         /\ ports[g][cur_port[g]] \in PortsOf(g)
         /\ \A i \in 1..Len(ports[g]) : ports[g][i] \in Elems(ports[g])
         /\ Elems(ports[g]) \subseteq PortsOf(g)
<1>1. ports[g] \in Seq(Sources) /\ cur_port[g] \in 1..Len(ports[g])
  BY DEF TypeInv, LoopInv, Running
<1>2. \A i \in 1..Len(ports[g]) : ports[g][i] \in PortsOf(g)
  BY DEF RoundOK
<1> QED
  BY <1>1, <1>2, SomeLists DEF Elems

LEMMA RoundFrame ==
  ASSUME TypeInv, NEW g \in GroupSet, Running(g), RoundOK(g),
         ports'[g] = ports[g], cur_port'[g] = cur_port[g],
         \A s \in PortsOf(g) : /\ Taken(g, s)' = Taken(g, s)
                               /\ Finished(s) => sent'[s] = sent[s]
  PROVE  RoundOK(g)' /\ Round(g)' = Round(g)
<1> DEFINE w == ports[g]
           c == cur_port[g]
<1>1. /\ c \in 1..Len(w) /\ w[c] \in PortsOf(g) /\ \A i \in 1..Len(w) : w[i] \in PortsOf(g)
  BY RoundPlaces DEF RoundOK
<1>2. Taken(g, w[c])' = Taken(g, w[c])
  BY <1>1
<1>3. Round(g)' = Round(g)
  BY <1>2 DEF Round, Sender
<1>4. \A i \in 1..Len(w) : Taken(g, w[i])' = Taken(g, w[i])
  BY <1>1
<1>5. \A s \in PortsOf(g) : s \notin Elems(w) =>
        Finished(s)' /\ Taken(g, s)' = Len(sent'[s]) /\ Len(sent'[s]) <= Round(g)
  BY DEF RoundOK, Finished
<1>6. w' = w /\ c' = c /\ PortsOf(g)' = PortsOf(g) /\ Elems(w)' = Elems(w)
  BY DEF PortsOf, Elems
<1>7. \A i \in 1..Len(w) : Taken(g, w[i])' = IF i < c THEN Round(g) ELSE Round(g) - 1
  BY <1>4 DEF RoundOK
<1> QED
  BY <1>1, <1>3, <1>5, <1>6, <1>7 DEF RoundOK, PortsOf, Place

LEMMA PendingSame ==
  ASSUME todo' = todo
  PROVE  \A g : Pending(g)' = Pending(g)
BY DEF Pending, Told, Elems, Res

LEMMA PassedOnFrame ==
  ASSUME NEW g, PassedOn(g), Pending(g)' = Pending(g),
         ~closed'[Res(g)] => ~closed[Res(g)] /\ Stream(g)' = Stream(g),
         {y \in Items(g) : y.no <= Taken(g, y.src)}' = {y \in Items(g) : y.no <= Taken(g, y.src)}
  PROVE  PassedOn(g)'
<1> SUFFICES ASSUME ~closed'[Res(g)]
             PROVE  Unfinished(g)' /\ (Elems(Stream(g)) \cup Pending(g) = {y \in Items(g) : y.no <= Taken(g, y.src)})'
  BY DEF PassedOn
<1>1. Unfinished(g) /\ Elems(Stream(g)) \cup Pending(g) = {y \in Items(g) : y.no <= Taken(g, y.src)}
  BY DEF PassedOn
<1>2. Elems(Stream(g))' = Elems(Stream(g)) /\ Pending(g)' = Pending(g)
  BY DEF Elems
<1> QED
  BY <1>1, <1>2 DEF Unfinished

LEMMA TurnFrame ==
  ASSUME TypeInv, TurnOK, UNCHANGED <<todo, groups, pos, complete_ports>>,
         \A g \in GroupSet : \A x \in Item : \A B : Follows(g, x, B) => Follows(g, x, B)',
         todo # <<>> /\ ~closed'[Res(Group)] => ~closed[Res(Group)] /\ Stream(Group)' = Stream(Group)
  PROVE  TurnOK'
<1> SUFFICES ASSUME todo # <<>> PROVE TurnOK'
  BY DEF TurnOK
<1> DEFINE c == todo[Len(todo)]
           g == Group
<1>1. /\ c.op = "push" /\ c.edge = Res(g)
      /\ \A i \in 1..Len(todo) : i # Len(todo) =>
           todo[i].op = "grab" /\ \E s \in PortsOf(g) : todo[i].edge = In(g, s)
      /\ (g \in complete_ports) = (c.item.type = "complete")
      /\ g \notin complete_ports => Len(todo) = 1
      /\ ~closed[Res(g)] => Unfinished(g) /\ Follows(g, c.item, Elems(Stream(g)))
  BY DEF TurnOK
<1>2. c' = c /\ g' = g
  BY DEF Group
<1>3. ASSUME ~closed'[Res(g)] PROVE Unfinished(g)' /\ Follows(g, c.item, Elems(Stream(g)))'
  <2>1. Elems(Stream(g))' = Elems(Stream(g))
    BY <1>3 DEF Elems
  <2>2. Unfinished(g)'
    BY <1>1, <1>3, <2>1 DEF Unfinished
  <2>3. \A x, B : x = c.item /\ B = Elems(Stream(g)) => Follows(g, x, B)'
    <3>1. Follows(g, c.item, Elems(Stream(g)))
      BY <1>1, <1>3
    <3>2. g \in GroupSet
      BY SomeLists DEF TypeInv, LoopInv, Group
    <3>3. c \in Calls
      BY SomeLists DEF TypeInv
    <3>4. c.item \in Item
      BY <3>3, CallParts
    <3> HIDE DEF g, c
    <3> QED BY <1>2, <3>1, <3>2, <3>4
  <2>4. Follows(g, c.item, Elems(Stream(g)))'
    BY <1>2, <2>1, <2>3
  <2> QED BY <2>2, <2>4
<1> QED
  BY <1>1, <1>2, <1>3 DEF TurnOK, PortsOf

LEMMA TheItems ==
  ASSUME TypeInv, OrderInv, NEW g \in GroupSet
  PROVE  /\ \A y \in Items(g) : /\ y \in Item /\ y.type # "complete" /\ y.src \in PortsOf(g)
                                 /\ y.no \in 1..Len(sent[y.src]) /\ y = sent[y.src][y.no]
         /\ \A s \in PortsOf(g) : \A i \in 1..Len(sent[s]) :
              sent[s][i].type # "complete" => sent[s][i] \in Items(g)
<1>1. \A s \in PortsOf(g) : s \in Sources /\ sent[s] \in Seq(Item) /\ SourceOK(s)
  BY ThePorts DEF TypeInv, OrderInv
<1>2. \A s \in PortsOf(g) : DOMAIN sent[s] = 1..Len(sent[s]) /\ \A i \in 1..Len(sent[s]) : sent[s][i] \in Item
  BY <1>1, SomeLists
<1>3. ASSUME NEW s \in PortsOf(g), NEW i \in 1..Len(sent[s])
      PROVE  sent[s][i] \in ToSet(sent[s]) /\ sent[s][i].src = s /\ sent[s][i].no = i
  BY <1>1, <1>2 DEF SourceOK, ToSet
<1>4. ASSUME NEW y \in Items(g)
      PROVE  /\ y \in Item /\ y.type # "complete" /\ y.src \in PortsOf(g)
             /\ y.no \in 1..Len(sent[y.src]) /\ y = sent[y.src][y.no]
  <2>1. PICK s \in PortsOf(g) : y \in ToSet(sent[s]) /\ y.type # "complete"
    BY DEF Items, PortsOf
  <2>2. PICK i \in 1..Len(sent[s]) : y = sent[s][i]
    BY <1>2, <2>1 DEF ToSet
  <2>3. y.src = s /\ y.no = i
    BY <1>3, <2>2
  <2> QED BY <1>2, <2>1, <2>2, <2>3
<1>5. ASSUME NEW s \in PortsOf(g), NEW i \in 1..Len(sent[s]), sent[s][i].type # "complete"
      PROVE  sent[s][i] \in Items(g)
  BY <1>3, <1>5 DEF Items, PortsOf
<1> QED
  BY <1>4, <1>5

-----------------------------------------------------------------------------
(* The readers of the groups.                                              *)

LEMMA ReadStream ==
  ASSUME TypeInv, OrderInv, NEW g \in GroupSet, Read(g)
  PROVE  /\ \A h \in GroupSet : StreamOK(h)'
         /\ \A h \in GroupSet : ~closed'[Res(h)] => ~closed[Res(h)] /\ Stream(h)' = Stream(h)
<1> DEFINE s == q[Res(g)]
           a == got[g]
<1>1. /\ s \in Seq(Item) /\ s # <<>> /\ a \in Seq(Item)
      /\ got' = [got EXCEPT ![g] = Append(@, Head(s))] /\ got \in [GroupSet -> Seq(Item)]
      /\ \/ q'[Res(g)] = <<>> /\ closed'[Res(g)]
         \/ q'[Res(g)] = Tail(s) /\ closed'[Res(g)] = closed[Res(g)]
      /\ \A e \in Edges : e # Res(g) => q'[e] = q[e] /\ closed'[e] = closed[e]
      /\ UNCHANGED <<muxVars, out, sent, ended>>
  BY ReadParts DEF TypeInv
<1>2. got'[g] = Append(a, Head(s)) /\ \A h \in GroupSet : h # g => got'[h] = got[h]
  BY <1>1
<1>3. \A h \in GroupSet : h # g => Stream(h)' = Stream(h) /\ closed'[Res(h)] = closed[Res(h)]
  BY <1>1, <1>2, TheEdges DEF Stream
<1>4. \A h, x, B : Follows(h, x, B) => Follows(h, x, B)'
  BY <1>1, SentSame DEF muxVars
<1>5. Append(a, Head(s)) \o Tail(s) = a \o s /\ Stream(g) = a \o s
  BY <1>1, OneTaken DEF Stream
<1>6. CASE q'[Res(g)] = Tail(s) /\ closed'[Res(g)] = closed[Res(g)]
  <2>1. Stream(g)' = Stream(g)
    BY <1>2, <1>5, <1>6 DEF Stream
  <2>2. \A h \in GroupSet : Stream(h)' = Stream(h) /\ closed'[Res(h)] = closed[Res(h)]
    BY <1>3, <1>6, <2>1
  <2>3. \A h \in GroupSet : StreamOK(h)'
    BY <1>4, <2>2, StreamSame DEF OrderInv
  <2> QED BY <2>2, <2>3
<1>7. CASE q'[Res(g)] = <<>> /\ closed'[Res(g)]
  <2> DEFINE z == Append(a, Head(s))
             w == a \o s
             n == Len(a)
  <2>1. Stream(g)' = z
    <3>1. Append(a, Head(s)) \in Seq(Item)
      BY <1>1, SomeLists
    <3> QED BY <1>2, <1>7, <3>1, ConcatEmptySeq DEF Stream
  <2>2. /\ z \in Seq(Item) /\ Len(z) = n + 1 /\ z[n + 1] = Head(s) /\ \A i \in 1..n : z[i] = a[i]
        /\ n \in Nat /\ Len(s) \in Nat /\ Len(s) >= 1 /\ Head(s) = s[1]
    BY <1>1, SomeLists
  <2>3. Len(w) = n + Len(s) /\ (\A i \in 1..n : w[i] = a[i]) /\ \A j \in 1..Len(s) : w[n + j] = s[j]
    <3>1. a \in Seq(Item) /\ s \in Seq(Item)
      BY <1>1
    <3> HIDE DEF a, s
    <3>2. /\ Len(a \o s) = Len(a) + Len(s) /\ \A i \in 1..Len(a) : (a \o s)[i] = a[i]
          /\ \A j \in 1..Len(s) : (a \o s)[Len(a) + j] = s[j]
      BY ONLY <3>1, JoinedPlaces
    <3> QED BY ONLY <3>2 DEF w, n
  <2> HIDE DEF z, w, n
  <2>4. Len(w) \in Nat /\ Len(z) \in 0..Len(w)
    BY <2>2, <2>3
  <2>5. ASSUME NEW i \in 1..Len(z) PROVE z[i] = w[i]
    <3>1. CASE i = n + 1
      <4>1. 1 \in 1..Len(s)
        BY <2>2
      <4> QED BY <2>2, <2>3, <3>1, <4>1
    <3>2. CASE i # n + 1
      <4>1. i \in 1..n
        BY <2>2, <3>2
      <4> QED BY <2>2, <2>3, <4>1
    <3> QED BY <3>1, <3>2
  <2>6. Stream(g) = w
    BY <1>5 DEF w
  <2>7. StreamOK(g)'
    <3>1. StreamOK(g)
      BY DEF OrderInv
    <3>2. \A x, B : Follows(g, x, B) => Follows(g, x, B)'
      BY <1>4
    <3> QED BY <2>1, <2>4, <2>5, <2>6, <3>1, <3>2, StreamShorter
  <2>8. \A h \in GroupSet : h # g => StreamOK(h)'
    BY <1>3, <1>4, StreamSame DEF OrderInv
  <2> QED BY <1>3, <1>7, <2>7, <2>8
<1> QED
  BY <1>1, <1>6, <1>7

LEMMA RunningSame ==
  ASSUME UNCHANGED <<is_complete, groups, complete_ports>>
  PROVE  \A g : Running(g)' = Running(g)
BY DEF Running, Elems

LEMMA OrderRead ==
  ASSUME TypeInv, OrderInv, NEW g \in GroupSet, Read(g)
  PROVE  OrderInv'
<1>1. /\ \A h \in GroupSet : StreamOK(h)'
      /\ \A h \in GroupSet : ~closed'[Res(h)] => ~closed[Res(h)] /\ Stream(h)' = Stream(h)
  BY ReadStream
<1>2. /\ UNCHANGED <<policy, groups, pos, ports, cur_port, todo, complete_ports, is_complete, out, sent, ended>>
      /\ \A e \in Edges : e # Res(g) => q'[e] = q[e] /\ closed'[e] = closed[e]
  BY ReadParts DEF muxVars
<1>3. \A h \in GroupSet, s \in Sources : /\ q'[In(h, s)] = q[In(h, s)] /\ closed'[In(h, s)] = closed[In(h, s)]
                                         /\ Taken(h, s)' = Taken(h, s)
  BY <1>2, TheEdges, TakenFrame
<1>4. \A s \in Sources : SourceOK(s)'
  BY <1>2, SourceFrame DEF OrderInv
<1>5. ~is_complete' => \A h \in GroupSet : \A s \in PortsOf(h) : ArrivalOK(h, s)'
  BY <1>2, <1>3, ThePorts, ArrivalFrame DEF OrderInv
<1>6. ASSUME NEW h \in GroupSet, Running(h)' PROVE RoundOK(h)' /\ PassedOn(h)'
  <2>1. Running(h) /\ RoundOK(h) /\ PassedOn(h)
    BY <1>2, <1>6, RunningSame DEF OrderInv
  <2>2. RoundOK(h)'
    BY <1>2, <1>3, <2>1, ThePorts, RoundFrame
  <2>3. Items(h)' = Items(h)
    BY <1>2, SentSame
  <2>4. \A y \in Items(h) : y.src \in PortsOf(h)
    BY TheItems
  <2>5. {y \in Items(h) : y.no <= Taken(h, y.src)}' = {y \in Items(h) : y.no <= Taken(h, y.src)}
    BY <1>3, <2>3, <2>4, ThePorts
  <2>6. PassedOn(h)'
    BY <1>1, <1>2, <2>1, <2>5, PendingSame, PassedOnFrame
  <2> QED BY <2>2, <2>6
<1>7. TurnOK'
  <2>1. TurnOK /\ \A h, x, B : Follows(h, x, B) => Follows(h, x, B)'
    BY <1>2, SentSame DEF OrderInv
  <2>2. todo # <<>> /\ ~closed'[Res(Group)] => ~closed[Res(Group)] /\ Stream(Group)' = Stream(Group)
    <3>1. todo # <<>> => Group \in GroupSet
      BY SomeLists DEF TypeInv, LoopInv, Group
    <3>2. Group' = Group
      BY <1>2 DEF Group
    <3> QED BY <1>1, <3>1, <3>2
  <2> QED BY <1>2, <2>1, <2>2, TurnFrame
<1> QED
  BY <1>1, <1>4, <1>5, <1>6, <1>7 DEF OrderInv, PortsOf

-----------------------------------------------------------------------------
(* The sources.                                                            *)

(* A source sends one item more, which belongs after all that mux took.    *)
LEMMA SentMore ==
  ASSUME TypeInv, OrderInv, NEW s \in Sources, NEW x \in Item, policy' = policy,
         x.src = s, x.no = Len(sent[s]) + 1, ~Finished(s), sent' = [sent EXCEPT ![s] = Append(@, x)]
  PROVE  /\ \A u \in Sources : u # s => sent'[u] = sent[u] /\ (Finished(u) <=> Finished(u)')
         /\ sent'[s] = Append(sent[s], x)
         /\ \A g \in GroupSet :
              Items(g)' = Items(g) \cup (IF s \in PortsOf(g) /\ x.type # "complete" THEN {x} ELSE {})
         /\ \A g \in GroupSet : \A y \in Item : \A B : Follows(g, y, B) => Follows(g, y, B)'
<1> DEFINE n == Len(sent[s])
<1>1. /\ sent \in [Sources -> Seq(Item)] /\ sent[s] \in Seq(Item) /\ n \in Nat
  BY SomeLists DEF TypeInv
<1>2. /\ \A u \in Sources : u # s => sent'[u] = sent[u] /\ (Finished(u) <=> Finished(u)')
      /\ sent'[s] = Append(sent[s], x)
  BY <1>1 DEF Finished
<1>3. /\ Len(sent'[s]) = n + 1 /\ sent'[s] \in Seq(Item) /\ sent'[s][n + 1] = x
      /\ \A i \in 1..n : sent'[s][i] = sent[s][i]
  BY <1>1, <1>2, SomeLists
<1>4. ToSet(sent'[s]) = ToSet(sent[s]) \cup {x}
  <2>1. DOMAIN sent[s] = 1..n /\ DOMAIN sent'[s] = 1..(n + 1)
    BY <1>1, <1>3, SomeLists
  <2>2. \A i : i \in 1..(n + 1) <=> i \in 1..n \/ i = n + 1
    BY <1>1
  <2> QED BY <1>3, <2>1, <2>2 DEF ToSet
<1> HIDE DEF n
<1>5. ASSUME NEW g \in GroupSet
      PROVE  Items(g)' = Items(g) \cup (IF s \in PortsOf(g) /\ x.type # "complete" THEN {x} ELSE {})
  <2>1. \A y : y \in Items(g) <=> y.type # "complete" /\ \E u \in PortsOf(g) : y \in ToSet(sent[u])
    BY DEF Items, PortsOf
  <2>2. \A y : y \in Items(g)' <=> y.type # "complete" /\ \E u \in PortsOf(g) : y \in ToSet(sent'[u])
    BY DEF Items, PortsOf
  <2>3. \A u \in PortsOf(g) : u # s => sent'[u] = sent[u]
    BY <1>2, ThePorts
  <2>4. \A y : (\E u \in PortsOf(g) : y \in ToSet(sent'[u])) <=>
               (\E u \in PortsOf(g) : y \in ToSet(sent[u])) \/ (y = x /\ s \in PortsOf(g))
    BY <1>4, <2>3
  <2> QED BY <2>1, <2>2, <2>4
<1>6. ASSUME NEW g \in GroupSet, NEW y \in Item, NEW B, Follows(g, y, B) PROVE Follows(g, y, B)'
  <2>1. \A u \in PortsOf(g) : /\ u \in Sources
                              /\ u # s => sent'[u] = sent[u] /\ (Finished(u) <=> Finished(u)')
                              /\ Place(g, u) \in Nat
    BY <1>2, ThePorts
  <2>2. CASE y.type = "complete" /\ policy = "all"
    <3>1. B = Items(g) /\ \A u \in PortsOf(g) : Finished(u)
      BY <1>6, <2>2 DEF Follows
    <3>2. s \notin PortsOf(g)
      BY <3>1
    <3>3. Items(g)' = Items(g)
      BY <1>5, <3>2
    <3>4. ASSUME NEW u \in PortsOf(g) PROVE Finished(u)'
      <4>1. u # s /\ Finished(u)
        BY <3>1, <3>2
      <4> QED BY <2>1, <4>1
    <3> QED BY <2>2, <3>1, <3>3, <3>4 DEF Follows, PortsOf
  <2>3. CASE y.type = "complete" /\ policy # "all"
    BY <2>3 DEF Follows
  <2>4. CASE y.type # "complete"
    <3>1. y \in Items(g) /\ Settled(g, y) /\ B = Earlier(g, y)
      BY <1>6, <2>4 DEF Follows
    <3>2. y.no \in Nat /\ n \in Nat /\ x.no = n + 1 /\ Len(sent[s]) = n
      BY <1>1 DEF Item, n
    <3>3. s \in PortsOf(g) => IF Place(g, s) < Place(g, y.src) THEN y.no <= n ELSE y.no - 1 <= n
      BY <3>1, <3>2 DEF Settled
    <3>4. s \in PortsOf(g) => ~Before(g, x, y)
      <4>1. s \in PortsOf(g) => Place(g, x.src) = Place(g, s) /\ Place(g, s) \in Nat
        BY <2>1
      <4> QED BY <3>2, <3>3, <4>1 DEF Before
    <3>5. Earlier(g, y)' = Earlier(g, y)
      <4>1. \A z : Before(g, z, y)' = Before(g, z, y)
        BY DEF Before, Place
      <4> QED BY <1>5, <3>4, <4>1 DEF Earlier
    <3>6. \A u \in PortsOf(g) : Finished(u)' \/ IF Place(g, u) < Place(g, y.src) THEN y.no <= Len(sent'[u])
                                                ELSE y.no - 1 <= Len(sent'[u])
      <4> SUFFICES ASSUME NEW u \in PortsOf(g)
                   PROVE  Finished(u)' \/ IF Place(g, u) < Place(g, y.src) THEN y.no <= Len(sent'[u])
                                          ELSE y.no - 1 <= Len(sent'[u])
        OBVIOUS
      <4>1. CASE u = s
        <5>1. Len(sent'[u]) = n + 1
          BY <1>3, <4>1
        <5> QED BY <3>2, <3>3, <4>1, <5>1
      <4>2. CASE u # s
        <5>1. sent'[u] = sent[u] /\ (Finished(u) <=> Finished(u)')
          BY <2>1, <4>2
        <5>2. Finished(u) \/ IF Place(g, u) < Place(g, y.src) THEN y.no <= Len(sent[u]) ELSE y.no - 1 <= Len(sent[u])
          BY <3>1 DEF Settled
        <5> QED BY <5>1, <5>2
      <4> QED BY <4>1, <4>2
    <3>7. Settled(g, y)'
      BY <3>6 DEF Settled, PortsOf, Place
    <3>8. y \in Items(g)'
      BY <1>5, <3>1
    <3> QED BY <2>4, <3>1, <3>5, <3>7, <3>8 DEF Follows
  <2> QED BY <2>2, <2>3, <2>4
<1> QED
  BY <1>2, <1>5, <1>6

(* A step of a source, which changes nothing that mux has taken.           *)
LEMMA MuxFrame ==
  ASSUME TypeInv, OrderInv, UNCHANGED muxVars,
         \A u \in Sources : SourceOK(u)' /\ (Finished(u) => sent'[u] = sent[u]),
         \A g \in GroupSet : Stream(g)' = Stream(g) /\ closed'[Res(g)] = closed[Res(g)],
         \A g \in GroupSet : \A y \in Item : \A B : Follows(g, y, B) => Follows(g, y, B)',
         ~is_complete => \A g \in GroupSet : \A u \in PortsOf(g) : Taken(g, u)' = Taken(g, u) /\ ArrivalOK(g, u)',
         ~is_complete => \A g \in GroupSet :
           {y \in Items(g) : y.no <= Taken(g, y.src)}' = {y \in Items(g) : y.no <= Taken(g, y.src)}
  PROVE  OrderInv'
<1>1. UNCHANGED <<policy, groups, pos, ports, cur_port, todo, complete_ports, is_complete>>
  BY DEF muxVars
<1>2. \A g \in GroupSet : StreamOK(g)'
  BY StreamSame DEF OrderInv
<1>3. ~is_complete' => \A g \in GroupSet : \A u \in PortsOf(g) : ArrivalOK(g, u)'
  BY <1>1
<1>4. ASSUME NEW g \in GroupSet, Running(g)' PROVE RoundOK(g)' /\ PassedOn(g)'
  <2>1. Running(g) /\ RoundOK(g) /\ PassedOn(g) /\ ~is_complete
    BY <1>1, <1>4, RunningSame DEF OrderInv, Running
  <2>2. \A u \in PortsOf(g) : Taken(g, u)' = Taken(g, u) /\ (Finished(u) => sent'[u] = sent[u])
    BY <2>1, ThePorts
  <2>3. RoundOK(g)'
    BY <1>1, <2>1, <2>2, RoundFrame
  <2>4. PassedOn(g)'
    BY <1>1, <2>1, PendingSame, PassedOnFrame
  <2> QED BY <2>3, <2>4
<1>5. TurnOK'
  <2>1. TurnOK
    BY DEF OrderInv
  <2>2. todo # <<>> => Group \in GroupSet
    BY SomeLists DEF TypeInv, LoopInv, Group
  <2>3. Group' = Group
    BY <1>1 DEF Group
  <2>4. todo # <<>> /\ ~closed'[Res(Group)] => ~closed[Res(Group)] /\ Stream(Group)' = Stream(Group)
    BY <2>2, <2>3
  <2> QED BY <1>1, <2>1, <2>4, TurnFrame
<1> QED
  BY <1>1, <1>2, <1>3, <1>4, <1>5 DEF OrderInv, PortsOf

LEMMA OrderSourceStep ==
  ASSUME TypeInv, OrderInv, NEW s \in Sources, SourceStep(s)
  PROVE  OrderInv'
<1>1. PICK x \in Item :
        /\ x.src = s /\ x.no = Len(sent[s]) + 1
        /\ s \notin ended /\ out[s] = <<>>
        /\ sent' = [sent EXCEPT ![s] = Append(@, x)]
        /\ out' = [out EXCEPT ![s] = [i \in DOMAIN Fed(s) |-> Push(In(Fed(s)[i], s), x)]]
        /\ UNCHANGED <<q, closed, muxVars, ended, left, got>>
  BY NextItem
<1> DEFINE n == Len(sent[s])
           c == [i \in DOMAIN Fed(s) |-> Push(In(Fed(s)[i], s), x)]
<1>2. /\ c \in Seq(Calls) /\ Len(c) = Len(Fed(s)) /\ Len(c) \in Nat \ {0}
      /\ \A i \in 1..Len(c) : c[i] = Push(In(Fed(s)[i], s), x)
  BY SourceCalls
<1> HIDE DEF c
<1>3. n \in Nat /\ sent[s] \in Seq(Item) /\ sent \in [Sources -> Seq(Item)] /\ out \in [Sources -> Seq(Calls)]
  BY SomeLists DEF TypeInv
<1>4. out'[s] = c /\ \A u \in Sources : u # s => out'[u] = out[u]
  BY <1>1, <1>3 DEF c
<1>5. ~Finished(s)
  BY <1>1 DEF OrderInv, SourceOK
<1>6. /\ \A u \in Sources : u # s => sent'[u] = sent[u] /\ (Finished(u) <=> Finished(u)')
      /\ sent'[s] = Append(sent[s], x)
      /\ \A g \in GroupSet :
           Items(g)' = Items(g) \cup (IF s \in PortsOf(g) /\ x.type # "complete" THEN {x} ELSE {})
      /\ \A g \in GroupSet : \A y \in Item : \A B : Follows(g, y, B) => Follows(g, y, B)'
  BY <1>1, <1>5, SentMore DEF muxVars
<1>7. /\ Len(sent'[s]) = n + 1 /\ sent'[s][n + 1] = x /\ \A i \in 1..n : sent'[s][i] = sent[s][i]
  BY <1>3, <1>6, SomeLists
<1> HIDE DEF n
<1>8. SourceOK(s)'
  <2>1. \A i \in 1..(n + 1) : /\ sent'[s][i].src = s /\ sent'[s][i].no = i
                              /\ sent'[s][i].type = "complete" => i = n + 1
    <3>1. \A i \in 1..(n + 1) : i \in 1..n \/ i = n + 1
      BY <1>3
    <3>2. ASSUME NEW i \in 1..n
          PROVE  sent[s][i].src = s /\ sent[s][i].no = i /\ sent[s][i].type # "complete"
      <4>1. SourceOK(s)
        BY DEF OrderInv
      <4>2. sent[s][i].src = s /\ sent[s][i].no = i /\ (sent[s][i].type = "complete" => i = n)
        BY <4>1 DEF SourceOK, n
      <4>3. sent[s][i].type = "complete" => Finished(s)
        BY <1>3, <4>2 DEF Finished, n
      <4> QED BY <1>5, <4>2, <4>3
    <3>3. x.src = s /\ x.no = n + 1
      BY <1>1 DEF n
    <3> QED BY <1>7, <3>1, <3>2, <3>3
  <2>2. out'[s] # <<>> /\ sent'[s] # <<>>
    BY <1>2, <1>3, <1>4, <1>7
  <2>3. \A i \in 1..Len(c) : \E g \in GroupSet : s \in PortsOf(g) /\ c[i] = Push(In(g, s), x)
    BY <1>2, TheFed
  <2>4. \A i, j \in 1..Len(c) : c[i].edge = c[j].edge => i = j
    <3>1. \A i \in 1..Len(c) : c[i].edge = In(Fed(s)[i], s) /\ i \in 1..Len(Fed(s))
      BY <1>2, CallParts
    <3> QED BY <3>1, TheFed, TheEdges
  <2>5. /\ \A i \in 1..Len(out'[s]) : \E g \in GroupSet :
             s \in PortsOf(g) /\ out'[s][i] = Push(In(g, s), sent'[s][Len(sent'[s])])
        /\ \A i, j \in 1..Len(out'[s]) : out'[s][i].edge = out'[s][j].edge => i = j
    BY <1>4, <1>7, <2>3, <2>4
  <2> QED BY <1>7, <2>1, <2>2, <2>5 DEF SourceOK, PortsOf, Push, In
<1>9. \A u \in Sources : SourceOK(u)' /\ (Finished(u) => sent'[u] = sent[u])
  <2>1. \A u \in Sources : u # s => SourceOK(u)'
    BY <1>1, <1>4, <1>6, SourceFrame DEF OrderInv
  <2> QED BY <1>5, <1>6, <1>8, <2>1
<1>10. \A g \in GroupSet : Stream(g)' = Stream(g) /\ closed'[Res(g)] = closed[Res(g)]
  BY <1>1 DEF Stream
<1>11. ASSUME NEW g \in GroupSet, NEW u \in PortsOf(g) PROVE Taken(g, u)' = Taken(g, u)
  <2>1. u \in Sources
    BY ThePorts
  <2>2. CASE u # s
    BY <1>1, <1>4, <1>6, <2>1, <2>2, TakenFrame
  <2>3. CASE u = s
    <3>1. ~Waits(g, s) /\ Arrived(g, s) = n
      BY <1>1 DEF Waits, Arrived, n
    <3>2. PICK i \in 1..Len(Fed(s)) : Fed(s)[i] = g
      BY <2>3, TheFed
    <3>3. c[i].edge = In(g, s) /\ i \in 1..Len(c)
      BY <1>2, <3>2, CallParts
    <3>4. Waits(g, s)'
      BY <1>4, <3>3 DEF Waits, In
    <3>5. Arrived(g, s)' = n
      BY <1>3, <1>7, <3>4 DEF Arrived
    <3> QED BY <1>1, <2>3, <3>1, <3>5 DEF Taken, In
  <2> QED BY <2>2, <2>3
<1>12. ASSUME ~is_complete, NEW g \in GroupSet, NEW u \in PortsOf(g) PROVE ArrivalOK(g, u)'
  <2>1. ArrivalOK(g, u) /\ u \in Sources
    BY <1>12, ThePorts DEF OrderInv
  <2>2. CASE u # s
    BY <1>1, <1>4, <1>6, <2>1, <2>2, ArrivalFrame
  <2>3. CASE u = s
    <3> DEFINE k == Taken(g, s)
               m == Len(q[In(g, s)])
    <3>1. /\ ~closed[In(g, s)] /\ k \in Nat /\ \A i \in 1..m : q[In(g, s)][i] = sent[s][k + i]
      BY <2>1, <2>3 DEF ArrivalOK
    <3>2. k = n - m /\ m \in Nat
      <4>1. Arrived(g, s) = n
        BY <1>1 DEF Waits, Arrived, n
      <4>2. m \in Nat
        BY TheEdges, QueueSteps DEF TypeInv
      <4> QED BY <4>1, <4>2 DEF Taken
    <3>3. Taken(g, s)' = k
      BY <1>11, <2>3
    <3> HIDE DEF k, m
    <3>4. \A i \in 1..m : k + i \in 1..n
      BY <1>3, <3>1, <3>2
    <3>5. \A i \in 1..m : q[In(g, s)][i] = sent'[s][k + i]
      BY <1>7, <3>1, <3>4
    <3> QED BY <1>1, <2>3, <3>1, <3>3, <3>5 DEF ArrivalOK, In, m
  <2> QED BY <2>2, <2>3
<1>13. ASSUME ~is_complete, NEW g \in GroupSet
       PROVE  {y \in Items(g) : y.no <= Taken(g, y.src)}' = {y \in Items(g) : y.no <= Taken(g, y.src)}
  <2>1. \A y \in Items(g) : y.src \in PortsOf(g) /\ Taken(g, y.src)' = Taken(g, y.src)
    BY <1>11, TheItems
  <2>2. s \in PortsOf(g) => ~(x.no <= Taken(g, s)) /\ Taken(g, s)' = Taken(g, s)
    <3> SUFFICES ASSUME s \in PortsOf(g) PROVE ~(x.no <= Taken(g, s))
      BY <1>11
    <3> DEFINE k == Taken(g, s)
               m == Len(q[In(g, s)])
    <3>1. k = n - m
      BY <1>1 DEF Waits, Arrived, Taken, n
    <3>2. m \in Nat /\ x.no = n + 1
      BY <1>1, TheEdges, QueueSteps DEF TypeInv, n
    <3>3. n \in Nat
      BY <1>3
    <3> HIDE DEF k, m
    <3>4. ~(n + 1 <= k)
      BY <3>1, <3>2, <3>3
    <3> QED BY <3>2, <3>4 DEF k
  <2>3. \A y \in Items(g)' : y.no <= Taken(g, y.src)' <=> y \in Items(g) /\ y.no <= Taken(g, y.src)
    BY <1>1, <1>6, <2>1, <2>2
  <2>4. Items(g) \subseteq Items(g)'
    BY <1>6
  <2> QED BY <2>3, <2>4
<1> QED
  BY <1>1, <1>6, <1>9, <1>10, <1>11, <1>12, <1>13, MuxFrame

(* The call that a source makes: its latest item goes to a group it feeds, *)
(* which no longer waits for it.                                           *)
LEMMA PushParts ==
  ASSUME TypeInv, OrderInv, NEW s \in Sources, SourcePush(s)
  PROVE  \E h \in GroupSet :
           LET x == sent[s][Len(sent[s])]
           IN  /\ s \in PortsOf(h) /\ x \in Item /\ Len(sent[s]) \in Nat \ {0}
               /\ Waits(h, s) /\ ~Waits(h, s)'
               /\ \A g \in GroupSet : g # h => (Waits(g, s) <=> Waits(g, s)')
               /\ q' = IF closed[In(h, s)] THEN q ELSE [q EXCEPT ![In(h, s)] = Append(@, x)]
               /\ UNCHANGED <<closed, muxVars, sent, left, got>>
               /\ \A u \in Sources : u # s => out'[u] = out[u]
               /\ \A u \in Sources : SourceOK(u)'
<1> DEFINE w == out[s]
           t == Tail(w)
           n == Len(sent[s])
           x == sent[s][n]
<1>1. /\ w # <<>> /\ q' = Pushed(Head(w).edge, Head(w).item) /\ out' = [out EXCEPT ![s] = Tail(@)]
      /\ ended' = IF Len(w) = 1 /\ (Head(w).item.type = "complete" \/ closed[Head(w).edge])
                  THEN ended \cup {s} ELSE ended
      /\ UNCHANGED <<closed, muxVars, sent, left, got>>
  BY DEF SourcePush
<1>2. /\ sent[s] \in Seq(Item) /\ w \in Seq(Calls) /\ out \in [Sources -> Seq(Calls)] /\ SourceOK(s)
  BY DEF TypeInv, OrderInv
<1>3. /\ Head(w) = w[1] /\ 1 \in 1..Len(w) /\ Len(w) \in Nat /\ Len(t) = Len(w) - 1 /\ Len(t) \in Nat
      /\ (t = <<>> <=> Len(w) = 1)
      /\ \A i \in 1..Len(t) : i + 1 \in 1..Len(w) /\ t[i] = w[i + 1] /\ i + 1 # 1
  <2>1. Head(w) = w[1] /\ Tail(w) \in Seq(Calls) /\ Len(w) >= 1 /\ Len(w) \in Nat /\ Len(t) = Len(w) - 1
        /\ \A i \in 1..(Len(w) - 1) : t[i] = w[i + 1]
    BY <1>1, <1>2, SomeLists
  <2> HIDE DEF t
  <2>2. t = <<>> <=> Len(t) = 0
    <3>1. t \in Seq(Calls)
      BY <2>1 DEF t
    <3> QED BY <3>1, EmptySeq
  <2> HIDE DEF w
  <2> QED BY <2>1, <2>2 DEF t
<1>4. n \in Nat \ {0} /\ x \in Item
  <2>1. sent[s] # <<>>
    BY <1>1, <1>2 DEF SourceOK
  <2>2. n \in Nat /\ n >= 1 /\ n \in 1..n
    BY <1>2, <2>1, SomeLists
  <2> QED BY <1>2, <2>2, SomeLists
<1>5. PICK h \in GroupSet : s \in PortsOf(h) /\ w[1] = Push(In(h, s), x)
  BY <1>2, <1>3 DEF SourceOK
<1>6. w[1].edge = In(h, s) /\ w[1].item = x
  BY <1>5, CallParts
<1>7. \A i, j \in 1..Len(w) : w[i].edge = w[j].edge => i = j
  BY <1>2 DEF SourceOK
<1>8. out'[s] = t /\ \A u \in Sources : u # s => out'[u] = out[u]
  BY <1>1, <1>2
<1>a. \A g : Waits(g, s) <=> \E i \in 1..Len(w) : w[i].edge = In(g, s)
  BY DEF Waits
<1>b. \A g : Waits(g, s)' <=> \E i \in 1..Len(t) : t[i].edge = In(g, s)
  BY <1>8 DEF Waits, In
<1>c. Finished(s) <=> Finished(s)'
  BY <1>1 DEF Finished
<1>d. Finished(s) => x.type = "complete"
  BY DEF Finished
<1>e. /\ \A i \in 1..n : /\ sent[s][i].src = s /\ sent[s][i].no = i
                         /\ sent[s][i].type = "complete" => i = n
      /\ Finished(s) => s \in ended \/ w # <<>>
      /\ w # <<>> => sent[s] # <<>>
      /\ \A i \in 1..Len(w) : \E g \in GroupSet : s \in PortsOf(g) /\ w[i] = Push(In(g, s), x)
  BY <1>2 DEF SourceOK
<1> HIDE DEF w, t, n, x
<1>9. Waits(h, s) /\ ~Waits(h, s)'
  BY <1>3, <1>6, <1>7, <1>a, <1>b
<1>10. ASSUME NEW g \in GroupSet, g # h PROVE Waits(g, s) <=> Waits(g, s)'
  <2>1. \A i \in 1..Len(w) : i = 1 \/ (i - 1 \in 1..Len(t) /\ (i - 1) + 1 = i)
    BY <1>3
  <2>2. w[1].edge # In(g, s)
    BY <1>6, <1>10, TheEdges
  <2>3. ASSUME Waits(g, s) PROVE Waits(g, s)'
    <3>1. PICK i \in 1..Len(w) : w[i].edge = In(g, s)
      BY <1>a, <2>3
    <3>2. i - 1 \in 1..Len(t) /\ t[i - 1] = w[(i - 1) + 1] /\ (i - 1) + 1 = i
      BY <1>3, <2>1, <2>2, <3>1
    <3> QED BY <1>b, <3>1, <3>2
  <2>4. ASSUME Waits(g, s)' PROVE Waits(g, s)
    BY <1>3, <1>a, <1>b, <2>4
  <2> QED BY <2>3, <2>4
<1>11. q' = IF closed[In(h, s)] THEN q ELSE [q EXCEPT ![In(h, s)] = Append(@, x)]
  BY <1>1, <1>3, <1>6 DEF Pushed
<1>12. SourceOK(s)'
  <2>1. Finished(s)' => s \in ended' \/ t # <<>>
    BY <1>1, <1>3, <1>6, <1>c, <1>d
  <2>2. \A i \in 1..Len(t) : \E g \in GroupSet : s \in PortsOf(g) /\ t[i] = Push(In(g, s), x)
    BY <1>3, <1>e
  <2>3. \A i, j \in 1..Len(t) : t[i].edge = t[j].edge => i = j
    <3>1. \A i, j \in 1..Len(t) : i + 1 = j + 1 => i = j
      BY <1>3
    <3> QED BY <1>3, <1>7, <3>1
  <2>4. sent'[s] = sent[s] /\ out'[s] = t /\ sent[s] # <<>>
    BY <1>1, <1>8, <1>e
  <2>5. Len(sent'[s]) = n /\ sent'[s][n] = x
    BY <2>4 DEF n, x
  <2>6. /\ \A i \in 1..Len(sent'[s]) : /\ sent'[s][i].src = s /\ sent'[s][i].no = i
                                       /\ sent'[s][i].type = "complete" => i = Len(sent'[s])
        /\ Finished(s)' => s \in ended' \/ out'[s] # <<>>
        /\ out'[s] # <<>> => sent'[s] # <<>>
        /\ \A i, j \in 1..Len(out'[s]) : out'[s][i].edge = out'[s][j].edge => i = j
    BY <1>e, <2>1, <2>3, <2>4, <2>5
  <2>7. \A i \in 1..Len(out'[s]) : \E g \in GroupSet :
          s \in PortsOf(g) /\ out'[s][i] = Push(In(g, s), sent'[s][Len(sent'[s])])
    BY <2>2, <2>4, <2>5
  <2> QED BY <2>6, <2>7 DEF SourceOK, Finished, PortsOf, Push, In
<1>13. \A u \in Sources : u # s => SourceOK(u)'
  BY <1>1, <1>8, SourceFrame DEF OrderInv
<1> QED
  BY <1>1, <1>4, <1>5, <1>8, <1>9, <1>10, <1>11, <1>12, <1>13 DEF x, n

LEMMA OrderSourcePush ==
  ASSUME TypeInv, OrderInv, NEW s \in Sources, SourcePush(s)
  PROVE  OrderInv'
<1> DEFINE n == Len(sent[s])
           x == sent[s][n]
<1>1. PICK h \in GroupSet :
        /\ s \in PortsOf(h) /\ x \in Item /\ n \in Nat \ {0}
        /\ Waits(h, s) /\ ~Waits(h, s)'
        /\ \A g \in GroupSet : g # h => (Waits(g, s) <=> Waits(g, s)')
        /\ q' = IF closed[In(h, s)] THEN q ELSE [q EXCEPT ![In(h, s)] = Append(@, x)]
        /\ UNCHANGED <<closed, muxVars, sent, left, got>>
        /\ \A u \in Sources : u # s => out'[u] = out[u]
        /\ \A u \in Sources : SourceOK(u)'
  BY PushParts
<1> HIDE DEF n, x
<1>2. q \in [Edges -> Seq(Item)] /\ In(h, s) \in Edges
  BY TheEdges DEF TypeInv, Queues
<1>3. \A e \in Edges : e # In(h, s) => q'[e] = q[e]
  BY <1>1, <1>2
<1>4. \A g \in GroupSet : Stream(g)' = Stream(g) /\ closed'[Res(g)] = closed[Res(g)]
  <2>1. \A g \in GroupSet : q'[Res(g)] = q[Res(g)]
    BY <1>3, TheEdges
  <2> QED BY <1>1, <2>1 DEF Stream, Res
<1>5. policy' = policy /\ sent' = sent
  BY <1>1 DEF muxVars
<1>6. ASSUME ~is_complete, NEW g \in GroupSet, NEW u \in PortsOf(g)
      PROVE  Taken(g, u)' = Taken(g, u) /\ ArrivalOK(g, u)'
  <2>1. ArrivalOK(g, u) /\ u \in Sources /\ In(g, u) \in Edges
    BY <1>6, ThePorts, TheEdges DEF OrderInv
  <2>2. CASE u # s
    <3>1. q'[In(g, u)] = q[In(g, u)] /\ closed'[In(g, u)] = closed[In(g, u)] /\ out'[u] = out[u] /\ sent'[u] = sent[u]
      BY <1>1, <1>3, <2>1, <2>2, TheEdges
    <3> QED BY <2>1, <3>1, TakenFrame, ArrivalFrame
  <2>3. CASE u = s /\ g # h
    <3>1. q'[In(g, s)] = q[In(g, s)] /\ closed'[In(g, s)] = closed[In(g, s)]
      BY <1>1, <1>3, <2>1, <2>3, TheEdges
    <3>2. Arrived(g, s)' = Arrived(g, s)
      BY <1>1, <2>3 DEF Arrived
    <3>3. Taken(g, s)' = Taken(g, s)
      BY <3>1, <3>2 DEF Taken, In
    <3> QED BY <1>1, <2>1, <2>3, <3>1, <3>3 DEF ArrivalOK, In
  <2>4. CASE u = s /\ g = h
    <3> DEFINE k == Taken(h, s)
               e == q[In(h, s)]
               m == Len(e)
    <3>1. ~closed[In(h, s)] /\ k \in Nat /\ \A i \in 1..m : e[i] = sent[s][k + i]
      BY <2>1, <2>4 DEF ArrivalOK
    <3>2. k = (n - 1) - m
      BY <1>1 DEF Taken, Arrived, n
    <3>3. q'[In(h, s)] = Append(e, x)
      BY <1>1, <1>2, <3>1
    <3>4. /\ m \in Nat /\ Len(q'[In(h, s)]) = m + 1 /\ q'[In(h, s)][m + 1] = x
          /\ \A i \in 1..m : q'[In(h, s)][i] = e[i]
      BY <1>1, <1>2, <3>3, SomeLists
    <3>5. Taken(h, s)' = n - (m + 1)
      <4>1. Arrived(h, s)' = n
        BY <1>1 DEF Arrived, n
      <4> QED BY <3>4, <4>1 DEF Taken, In
    <3> HIDE DEF k, m, e
    <3>6. n - (m + 1) = k /\ k + (m + 1) = n
      BY <1>1, <3>2, <3>4
    <3>7. \A i \in 1..(m + 1) : q'[In(h, s)][i] = sent[s][k + i]
      <4>1. \A i \in 1..(m + 1) : i \in 1..m \/ i = m + 1
        BY <3>4
      <4>2. q'[In(h, s)][m + 1] = sent[s][k + (m + 1)]
        BY <3>4, <3>6 DEF x
      <4> QED BY <3>1, <3>4, <4>1, <4>2
    <3>8. Taken(h, s)' = k
      BY <3>5, <3>6
    <3>9. ArrivalOK(h, s)'
      BY <1>1, <3>1, <3>4, <3>7, <3>8 DEF ArrivalOK, In
    <3> QED BY <2>4, <3>8, <3>9 DEF k
  <2> QED BY <2>2, <2>3, <2>4
<1>7. ASSUME ~is_complete, NEW g \in GroupSet
      PROVE  {y \in Items(g) : y.no <= Taken(g, y.src)}' = {y \in Items(g) : y.no <= Taken(g, y.src)}
  <2>1. Items(g)' = Items(g) /\ \A y \in Items(g) : y.src \in PortsOf(g)
    BY <1>5, SentSame, TheItems
  <2> QED BY <1>6, <1>7, <2>1
<1>8. \A g \in GroupSet : \A y \in Item : \A B : Follows(g, y, B) => Follows(g, y, B)'
  BY <1>5, SentSame
<1> QED
  BY <1>1, <1>4, <1>6, <1>7, <1>8, MuxFrame

-----------------------------------------------------------------------------
(* The steps of mux.                                                       *)

(* Mux reads the item after those it has taken from the port.              *)
LEMMA Fetched ==
  ASSUME TypeInv, OrderInv, NEW g \in GroupSet, NEW s \in PortsOf(g), ~is_complete,
         q[In(g, s)] # <<>>, q' = [q EXCEPT ![In(g, s)] = Tail(@)],
         UNCHANGED <<policy, closed, out, sent, ended, got>>
  PROVE  /\ Taken(g, s) + 1 \in 1..Len(sent[s]) /\ Taken(g, s)' = Taken(g, s) + 1
         /\ Head(q[In(g, s)]) = sent[s][Taken(g, s) + 1]
         /\ \A u \in Sources : SourceOK(u)'
         /\ \A h \in GroupSet : StreamOK(h)' /\ Stream(h)' = Stream(h)
         /\ \A h \in GroupSet : \A u \in PortsOf(h) :
              ArrivalOK(h, u)' /\ (h # g \/ u # s => Taken(h, u)' = Taken(h, u))
<1> DEFINE e == q[In(g, s)]
           m == Len(e)
           k == Taken(g, s)
           a == Arrived(g, s)
<1>1. s \in Sources /\ In(g, s) \in Edges /\ q \in [Edges -> Seq(Item)] /\ e \in Seq(Item)
  BY ThePorts, TheEdges DEF TypeInv, Queues
<1>2. /\ Head(e) = e[1] /\ m \in Nat /\ m >= 1 /\ Len(Tail(e)) = m - 1
      /\ \A i \in 1..(m - 1) : Tail(e)[i] = e[i + 1]
  BY <1>1, SomeLists
<1>3. q'[In(g, s)] = Tail(e) /\ \A d \in Edges : d # In(g, s) => q'[d] = q[d]
  BY <1>1
<1>4. ~closed[In(g, s)] /\ k \in Nat /\ \A i \in 1..m : e[i] = sent[s][k + i]
  BY DEF OrderInv, ArrivalOK
<1>5. Len(sent[s]) \in Nat
  BY <1>1, SomeLists DEF TypeInv
<1>6. k = a - m /\ Taken(g, s)' = a - Len(Tail(e))
  BY <1>3 DEF Taken, Arrived, Waits, In
<1>7. a \in Int /\ a <= Len(sent[s])
  BY <1>5 DEF Arrived
<1> HIDE DEF k, a, m, e
<1>8. Taken(g, s)' = k + 1
  <2>1. a \in Int /\ m \in Nat /\ Len(Tail(e)) = m - 1
    BY <1>2, <1>7
  <2>2. a - (m - 1) = (a - m) + 1
    BY <2>1
  <2> QED BY <1>6, <2>1, <2>2
<1>9. k + 1 \in 1..Len(sent[s]) /\ Head(e) = sent[s][k + 1]
  BY <1>2, <1>4, <1>5, <1>6, <1>7
<1>10. \A u \in Sources : SourceOK(u)'
  BY SourceFrame DEF OrderInv
<1>11. \A h \in GroupSet : Stream(h)' = Stream(h)
  BY <1>3, TheEdges DEF Stream, Res
<1>12. \A h \in GroupSet : StreamOK(h)'
  BY <1>11, SentSame, StreamSame DEF OrderInv
<1>13. ArrivalOK(g, s)'
  <2>1. \A i \in 1..(m - 1) : Tail(e)[i] = sent[s][(k + 1) + i]
    <3>1. \A i \in 1..(m - 1) : i + 1 \in 1..m /\ k + (i + 1) = (k + 1) + i
      BY <1>2, <1>4
    <3> QED BY <1>2, <1>4, <3>1
  <2>2. k + 1 \in Nat
    BY <1>4
  <2> QED BY <1>2, <1>3, <1>4, <1>8, <2>1, <2>2 DEF ArrivalOK, In
<1>14. ASSUME NEW h \in GroupSet, NEW u \in PortsOf(h), h # g \/ u # s
       PROVE  ArrivalOK(h, u)' /\ Taken(h, u)' = Taken(h, u)
  <2>1. u \in Sources /\ In(h, u) \in Edges /\ In(h, u) # In(g, s) /\ ArrivalOK(h, u)
    BY <1>14, ThePorts, TheEdges DEF OrderInv
  <2>2. q'[In(h, u)] = q[In(h, u)] /\ closed'[In(h, u)] = closed[In(h, u)] /\ sent'[u] = sent[u] /\ out'[u] = out[u]
    BY <1>3, <2>1
  <2> QED BY <2>1, <2>2, TakenFrame, ArrivalFrame
<1> QED
  BY <1>8, <1>9, <1>10, <1>11, <1>12, <1>13, <1>14 DEF k, e

(* A group that is not in its turn.                                        *)
LEMMA OtherGroup ==
  ASSUME TypeInv, OrderInv, NEW h \in GroupSet, Running(h), UNCHANGED <<policy, closed, sent>>,
         ports'[h] = ports[h], cur_port'[h] = cur_port[h],
         Pending(h)' = Pending(h), Stream(h)' = Stream(h),
         \A u \in PortsOf(h) : Taken(h, u)' = Taken(h, u)
  PROVE  RoundOK(h)' /\ PassedOn(h)'
<1>1. RoundOK(h) /\ PassedOn(h)
  BY DEF OrderInv
<1>2. RoundOK(h)'
  BY <1>1, RoundFrame
<1>3. Items(h)' = Items(h) /\ \A y \in Items(h) : y.src \in PortsOf(h)
  BY SentSame, TheItems
<1>4. {y \in Items(h) : y.no <= Taken(h, y.src)}' = {y \in Items(h) : y.no <= Taken(h, y.src)}
  BY <1>3
<1>5. closed'[Res(h)] = closed[Res(h)]
  BY DEF Res
<1> QED
  BY <1>1, <1>2, <1>4, <1>5, PassedOnFrame

(* The item of the round from the port in its turn comes right after those *)
(* that mux has taken.                                                     *)
LEMMA RoundSplit ==
  ASSUME TypeInv, OrderInv, NEW g \in GroupSet, Running(g), NEW x \in Item,
         x.src = ports[g][cur_port[g]], x.no = Round(g)
  PROVE  Settled(g, x) /\ {y \in Items(g) : y.no <= Taken(g, y.src)} = Earlier(g, x)
<1> DEFINE w == ports[g]
           c == cur_port[g]
           R == Round(g)
           s == w[c]
<1>1. /\ Len(w) \in Nat /\ c \in 1..Len(w) /\ s \in PortsOf(g) /\ RoundOK(g) /\ ~is_complete
      /\ Elems(w) \subseteq PortsOf(g)
  BY RoundPlaces DEF OrderInv, Running
<1>2. ASSUME NEW u \in PortsOf(g)
      PROVE  /\ Taken(g, u) \in Nat /\ Len(sent[u]) \in Nat /\ Taken(g, u) <= Len(sent[u])
             /\ Place(g, u) \in Nat
  <2>1. u \in Sources /\ Place(g, u) \in Nat /\ ArrivalOK(g, u)
    BY <1>1, ThePorts DEF OrderInv
  <2>2. Len(sent[u]) \in Nat /\ Len(q[In(g, u)]) \in Nat
    BY <2>1, TheEdges, QueueSteps, SomeLists DEF TypeInv
  <2>3. Taken(g, u) = Arrived(g, u) - Len(q[In(g, u)]) /\ Taken(g, u) \in Nat
    BY <2>1 DEF ArrivalOK, Taken
  <2>4. Arrived(g, u) \in Int /\ Arrived(g, u) <= Len(sent[u])
    BY <2>2 DEF Arrived
  <2> QED BY <2>1, <2>2, <2>3, <2>4
<1>3. R = Taken(g, s) + 1 /\ R \in Nat
  BY <1>1, <1>2 DEF Round, Sender
<1>4. ASSUME NEW u \in PortsOf(g)
      PROVE  \/ Finished(u) /\ Taken(g, u) = Len(sent[u]) /\ Len(sent[u]) <= R
             \/ Place(g, u) < Place(g, s) /\ Taken(g, u) = R
             \/ ~(Place(g, u) < Place(g, s)) /\ Taken(g, u) = R - 1
  <2>1. CASE u \notin Elems(w)
    BY <1>1, <2>1 DEF RoundOK
  <2>2. CASE u \in Elems(w)
    <3>1. PICK i \in 1..Len(w) : u = w[i]
      BY <2>2 DEF Elems
    <3>2. Taken(g, w[i]) = IF i < c THEN R ELSE R - 1
      BY <1>1 DEF RoundOK
    <3>3. \A j, l \in 1..Len(w) : j < l => Place(g, w[j]) < Place(g, w[l])
      BY <1>1 DEF RoundOK
    <3>4. Place(g, w[i]) \in Nat /\ Place(g, w[c]) \in Nat
      BY <1>1, <1>2, <3>1
    <3> HIDE DEF w, c, R
    <3>5. CASE i < c
      BY <1>1, <3>1, <3>2, <3>3, <3>5
    <3>6. CASE i = c
      BY <1>1, <3>1, <3>2, <3>4, <3>6
    <3>7. CASE c < i
      <4>1. Place(g, w[c]) < Place(g, w[i])
        BY <1>1, <3>3, <3>7
      <4>2. ~(i < c) /\ ~(Place(g, w[i]) < Place(g, w[c]))
        BY <1>1, <3>4, <3>7, <4>1
      <4> QED BY <3>1, <3>2, <4>2
    <3>8. i < c \/ i = c \/ c < i
      BY <1>1
    <3> QED BY <3>5, <3>6, <3>7, <3>8
  <2> QED BY <2>1, <2>2
<1>5. Settled(g, x)
  <2> SUFFICES ASSUME NEW u \in PortsOf(g)
               PROVE  Finished(u) \/ IF Place(g, u) < Place(g, s) THEN R <= Len(sent[u]) ELSE R - 1 <= Len(sent[u])
    BY DEF Settled
  <2> HIDE DEF R, s
  <2> QED BY <1>2, <1>3, <1>4
<1>6. ASSUME NEW y \in Items(g) PROVE y.no <= Taken(g, y.src) <=> Before(g, y, x)
  <2> DEFINE u == y.src
             p == y.no
  <2>1. u \in PortsOf(g) /\ p \in 1..Len(sent[u]) /\ y = sent[u][p] /\ y.type # "complete"
    BY TheItems
  <2>2. Before(g, y, x) <=> p < R \/ (p = R /\ Place(g, u) < Place(g, s))
    BY DEF Before
  <2>3. Finished(u) => p # Len(sent[u])
    BY <2>1 DEF Finished
  <2> HIDE DEF u, p, R, s
  <2>4. Taken(g, u) \in Nat /\ Len(sent[u]) \in Nat
    BY <1>2, <2>1
  <2>5. CASE Finished(u) /\ Taken(g, u) = Len(sent[u]) /\ Len(sent[u]) <= R
    <3>1. p <= Taken(g, u) /\ p < R
      BY <1>3, <2>1, <2>3, <2>4, <2>5
    <3> QED BY <2>2, <3>1 DEF u, p
  <2>6. CASE Place(g, u) < Place(g, s) /\ Taken(g, u) = R
    <3>1. p <= R <=> p < R \/ p = R
      BY <1>3, <2>1, <2>4
    <3> QED BY <2>2, <2>6, <3>1 DEF u, p
  <2>7. CASE ~(Place(g, u) < Place(g, s)) /\ Taken(g, u) = R - 1
    <3>1. p <= R - 1 <=> p < R
      BY <1>3, <2>1, <2>4
    <3> QED BY <2>2, <2>7, <3>1 DEF u, p
  <2> QED BY <1>4, <2>1, <2>5, <2>6, <2>7
<1> QED
  BY <1>5, <1>6 DEF Earlier

LEMMA CallsPending ==
  ASSUME NEW w \in Seq(Calls), NEW g \in GroupSet, w # <<>>, w[Len(w)].edge = Res(g),
         \A i \in 1..Len(w) : i # Len(w) => \E s \in PortsOf(g) : w[i].edge = In(g, s)
  PROVE  \A h \in GroupSet : Told(w, h) = IF h = g THEN {w[Len(w)].item} ELSE {}
<1>1. Len(w) \in 1..Len(w)
  BY SomeLists
<1>2. \A h \in GroupSet, i \in 1..Len(w) : w[i].edge = Res(h) <=> h = g /\ i = Len(w)
  BY TheEdges
<1> QED
  BY <1>1, <1>2 DEF Told, Elems

LEMMA NonePending == \A h : Told(<<>>, h) = {}
BY DEF Told, Elems

(* The groups that are not in their turn stay as they are.                 *)
LEMMA OthersKept ==
  ASSUME TypeInv, OrderInv, NEW g \in GroupSet, UNCHANGED <<policy, closed, sent, groups, is_complete>>,
         complete_ports \subseteq complete_ports',
         \A h \in GroupSet : h # g =>
           /\ ports'[h] = ports[h] /\ cur_port'[h] = cur_port[h]
           /\ Pending(h)' = Pending(h) /\ Stream(h)' = Stream(h)
           /\ \A u \in PortsOf(h) : Taken(h, u)' = Taken(h, u)
  PROVE  \A h \in GroupSet : h # g /\ Running(h)' => RoundOK(h)' /\ PassedOn(h)'
<1> SUFFICES ASSUME NEW h \in GroupSet, h # g, Running(h)' PROVE RoundOK(h)' /\ PassedOn(h)'
  OBVIOUS
<1>1. Running(h)
  BY DEF Running, Elems
<1> QED
  BY <1>1, OtherGroup

(* What a turn of a group takes.                                           *)
LEMMA TurnStart ==
  ASSUME TypeInv, OrderInv, MyTurn, q[Port] # <<>>, q' = [q EXCEPT ![Port] = Tail(@)],
         UNCHANGED <<policy, closed, out, sent, ended, got>>,
         NEW g \in GroupSet, g = Group, NEW s, s = Sender(g), NEW x, x = PortHead, NEW R, R = Round(g)
  PROVE  /\ Running(g) /\ s \in PortsOf(g) /\ s \in Sources
         /\ x \in Item /\ x.src = s /\ x.no = R /\ R \in 1..Len(sent[s]) /\ x = sent[s][R]
         /\ Taken(g, s) = R - 1 /\ Len(sent[s]) \in Nat
         /\ \A u \in PortsOf(g) : Taken(g, u)' = IF u = s THEN R ELSE Taken(g, u)
         /\ \A u \in Sources : SourceOK(u)'
         /\ \A h \in GroupSet : StreamOK(h)' /\ Stream(h)' = Stream(h)
         /\ \A h \in GroupSet : \A u \in PortsOf(h) : ArrivalOK(h, u)'
         /\ \A h \in GroupSet : h # g => \A u \in PortsOf(h) : Taken(h, u)' = Taken(h, u)
<1> DEFINE k == Taken(g, s)
<1>1. Running(g) /\ ~is_complete /\ x \in Item
  BY NextGroup
<1>2. s \in PortsOf(g) /\ s \in Sources
  BY <1>1, RoundPlaces, ThePorts DEF OrderInv, Sender
<1>3. Port = In(g, s) /\ x = Head(q[In(g, s)])
  BY DEF Port, PortHead, Sender
<1>4. SourceOK(s) /\ Len(sent[s]) \in Nat
  BY <1>2, SomeLists DEF OrderInv, TypeInv
<1>5. /\ Taken(g, s) + 1 \in 1..Len(sent[s]) /\ Taken(g, s)' = Taken(g, s) + 1
      /\ Head(q[In(g, s)]) = sent[s][Taken(g, s) + 1]
      /\ \A u \in Sources : SourceOK(u)'
      /\ \A h \in GroupSet : StreamOK(h)' /\ Stream(h)' = Stream(h)
      /\ \A h \in GroupSet : \A u \in PortsOf(h) :
           ArrivalOK(h, u)' /\ (h # g \/ u # s => Taken(h, u)' = Taken(h, u))
  BY <1>1, <1>2, <1>3, Fetched
<1>6. R = k + 1
  BY DEF Round
<1>7. k \in Nat
  BY <1>1, <1>2 DEF OrderInv, ArrivalOK
<1>8. R \in 1..Len(sent[s]) /\ x = sent[s][R] /\ Taken(g, s)' = R
  BY <1>3, <1>5, <1>6
<1> HIDE DEF k
<1>9. k = R - 1
  BY <1>6, <1>7
<1>10. x.src = s /\ x.no = R
  BY <1>4, <1>8 DEF SourceOK
<1>11. ASSUME NEW u \in PortsOf(g) PROVE Taken(g, u)' = IF u = s THEN R ELSE Taken(g, u)
  <2>1. u # s => Taken(g, u)' = Taken(g, u)
    BY <1>5
  <2> QED BY <1>8, <2>1
<1> QED
  BY <1>1, <1>2, <1>4, <1>5, <1>8, <1>9, <1>10, <1>11 DEF k

LEMMA RoundMade ==
  ASSUME NEW g, NEW w, NEW d, NEW r, ports'[g] = w, cur_port'[g] = d, Round(g)' = r,
         \A i \in 1..Len(w) : w[i] \in PortsOf(g) /\ Taken(g, w[i])' = IF i < d THEN r ELSE r - 1,
         \A i, j \in 1..Len(w) : i < j => Place(g, w[i]) < Place(g, w[j]),
         \A u \in PortsOf(g) : u \notin Elems(w) =>
           Finished(u)' /\ Taken(g, u)' = Len(sent'[u]) /\ Len(sent'[u]) <= r
  PROVE  RoundOK(g)'
<1>1. (\A i \in 1..Len(ports[g]) : Taken(g, ports[g][i]) = IF i < cur_port[g] THEN Round(g) ELSE Round(g) - 1)'
  OBVIOUS
<1>2. /\ \A i \in 1..Len(ports'[g]) : ports'[g][i] \in PortsOf(g)
      /\ \A i, j \in 1..Len(ports'[g]) : i < j => Place(g, ports'[g][i]) < Place(g, ports'[g][j])
  OBVIOUS
<1>3. Elems(ports[g])' = Elems(w)
  BY DEF Elems
<1>4. \A u \in PortsOf(g) : u \notin Elems(ports[g])' =>
        Finished(u)' /\ Taken(g, u)' = Len(sent'[u]) /\ Len(sent'[u]) <= Round(g)'
  BY <1>3
<1> QED
  BY <1>1, <1>2, <1>4 DEF RoundOK, PortsOf, Place

LEMMA OrderTurnData ==
  ASSUME TypeInv, OrderInv, TurnData
  PROVE  OrderInv'
<1>1. PICK g \in GroupSet : g = Group
  BY NextGroup DEF TurnData
<1>2. PICK s, x, R, w, c, n :
        /\ s = Sender(g) /\ x = PortHead /\ R = Round(g)
        /\ w = ports[g] /\ c = cur_port[g] /\ n = Len(w)
  OBVIOUS
<1> DEFINE calls == <<Push(Res(g), x)>>
<1>3. /\ MyTurn /\ q[Port] # <<>> /\ x.type # "complete" /\ q' = [q EXCEPT ![Port] = Tail(@)] /\ GoOn(calls)
      /\ cur_port' = [cur_port EXCEPT ![g] = Advance(@, n)]
      /\ UNCHANGED <<policy, closed, groups, ports, complete_ports, is_complete, out, sent, ended, left, got>>
  BY <1>1, <1>2 DEF TurnData
<1>4. todo = <<>> /\ todo' = calls /\ pos' = pos /\ g = Group'
  BY <1>1, <1>3 DEF MyTurn, GoOn, Group
<1>5. /\ Running(g) /\ s \in PortsOf(g) /\ s \in Sources
      /\ x \in Item /\ x.src = s /\ x.no = R /\ R \in 1..Len(sent[s]) /\ x = sent[s][R]
      /\ Taken(g, s) = R - 1 /\ Len(sent[s]) \in Nat
      /\ \A u \in PortsOf(g) : Taken(g, u)' = IF u = s THEN R ELSE Taken(g, u)
      /\ \A u \in Sources : SourceOK(u)'
      /\ \A h \in GroupSet : StreamOK(h)' /\ Stream(h)' = Stream(h)
      /\ \A h \in GroupSet : \A u \in PortsOf(h) : ArrivalOK(h, u)'
      /\ \A h \in GroupSet : h # g => \A u \in PortsOf(h) : Taken(h, u)' = Taken(h, u)
  BY <1>1, <1>2, <1>3, TurnStart
<1>6. /\ w \in Seq(Sources) /\ n \in Nat /\ c \in 1..n /\ s = w[c]
      /\ \A i \in 1..n : w[i] \in Elems(w) /\ w[i] \in PortsOf(g)
  BY <1>2, <1>5, RoundPlaces DEF OrderInv, Sender
<1>7. /\ \A i, j \in 1..n : i < j => Place(g, w[i]) < Place(g, w[j])
      /\ \A i \in 1..n : Taken(g, w[i]) = IF i < c THEN R ELSE R - 1
      /\ \A u \in PortsOf(g) : u \notin Elems(w) => Finished(u) /\ Taken(g, u) = Len(sent[u]) /\ Len(sent[u]) <= R
      /\ PassedOn(g)
  <2>1. RoundOK(g) /\ PassedOn(g)
    BY <1>5 DEF OrderInv
  <2> QED BY <1>2, <2>1 DEF RoundOK
<1>8. cur_port'[g] = Advance(c, n) /\ \A h \in GroupSet : h # g => cur_port'[h] = cur_port[h]
  BY <1>2, <1>3 DEF TypeInv, LoopInv
<1>9. Told(calls, g) = {x} /\ \A h \in GroupSet : h # g => Told(calls, h) = {}
  <2>1. /\ calls \in Seq(Calls) /\ calls # <<>> /\ Len(calls) = 1 /\ calls[1].edge = Res(g)
        /\ calls[1].item = x
    BY <1>5, TheEdges, CallParts
  <2>2. \A i \in 1..1 : i = 1
    OBVIOUS
  <2> HIDE DEF calls
  <2> QED BY <2>1, <2>2, CallsPending
<1>10. Settled(g, x) /\ {y \in Items(g) : y.no <= Taken(g, y.src)} = Earlier(g, x) /\ x \in Items(g)
  <2>1. x.src = ports[g][cur_port[g]] /\ x.no = Round(g)
    BY <1>2, <1>5, <1>6
  <2> QED BY <1>3, <1>5, <2>1, RoundSplit, TheItems
<1>11. ~closed[Res(g)] => Unfinished(g) /\ Elems(Stream(g)) = Earlier(g, x)
  BY <1>4, <1>7, <1>10, NonePending DEF PassedOn, Pending
<1> HIDE DEF calls
<1>12. RoundOK(g)'
  <2>1. \A i \in 1..n : i # c => w[i] # s
    <3>1. \A i \in 1..n : Place(g, w[i]) \in Nat
      BY <1>1, <1>6, ThePorts
    <3>2. \A i \in 1..n : i < c \/ i = c \/ c < i
      BY <1>6
    <3> QED BY <1>6, <1>7, <3>1, <3>2
  <2>2. \A i \in 1..n : Taken(g, w[i])' = IF i <= c THEN R ELSE R - 1
    <3> SUFFICES ASSUME NEW i \in 1..n PROVE Taken(g, w[i])' = IF i <= c THEN R ELSE R - 1
      OBVIOUS
    <3>1. Taken(g, w[i])' = IF w[i] = s THEN R ELSE Taken(g, w[i])
      BY <1>5, <1>6
    <3>2. CASE i = c
      BY <1>6, <3>1, <3>2
    <3>3. CASE i # c
      <4>1. Taken(g, w[i])' = IF i < c THEN R ELSE R - 1
        BY <1>7, <2>1, <3>1, <3>3
      <4> QED BY <1>6, <3>3, <4>1
    <3> QED BY <3>2, <3>3
  <2>d. PICK d : d = cur_port'[g]
    OBVIOUS
  <2>3. (c < n /\ d = c + 1) \/ (c = n /\ d = 1)
    BY <1>6, <1>8, <2>d DEF Advance
  <2>4. ports'[g] = w
    BY <1>2, <1>3
  <2>5. d \in 1..n
    BY <1>6, <2>3
  <2>6. Round(g)' = Taken(g, w[d])' + 1
    BY <2>4, <2>d DEF Round, Sender
  <2>7. Round(g)' = IF c < n THEN R ELSE R + 1
    BY <1>5, <1>6, <2>2, <2>3, <2>5, <2>6
  <2>8. \A i \in 1..n : Taken(g, w[i])' = IF i < d THEN Round(g)' ELSE Round(g)' - 1
    BY <1>5, <1>6, <2>2, <2>3, <2>7
  <2>9. \A u \in PortsOf(g) : u \notin Elems(w) => Finished(u)' /\ Taken(g, u)' = Len(sent'[u]) /\ Len(sent'[u]) <= Round(g)'
    <3> SUFFICES ASSUME NEW u \in PortsOf(g), u \notin Elems(w)
                 PROVE  Finished(u)' /\ Taken(g, u)' = Len(sent'[u]) /\ Len(sent'[u]) <= Round(g)'
      OBVIOUS
    <3>1. u # s /\ Finished(u) /\ Taken(g, u) = Len(sent[u]) /\ Len(sent[u]) <= R /\ Len(sent[u]) \in Nat
      BY <1>6, <1>7, ThePorts, SomeLists DEF TypeInv
    <3>2. Finished(u)' /\ sent' = sent
      BY <1>3, <3>1 DEF Finished
    <3>3. Taken(g, u)' = Len(sent[u])
      BY <1>5, <3>1
    <3>4. Len(sent[u]) <= Round(g)'
      BY <1>5, <2>7, <3>1
    <3> QED BY <3>2, <3>3, <3>4
  <2>10. ports'[g] = w /\ cur_port'[g] = d
    BY <1>2, <2>4, <2>d
  <2>11. PICK r : r = Round(g)'
    OBVIOUS
  <2>12. /\ \A i \in 1..Len(w) : w[i] \in PortsOf(g) /\ Taken(g, w[i])' = IF i < d THEN r ELSE r - 1
         /\ \A i, j \in 1..Len(w) : i < j => Place(g, w[i]) < Place(g, w[j])
    BY <1>2, <1>6, <1>7, <2>8, <2>11
  <2>13. \A u \in PortsOf(g) : u \notin Elems(w) => Finished(u)' /\ Taken(g, u)' = Len(sent'[u]) /\ Len(sent'[u]) <= r
    BY <2>9, <2>11
  <2> QED BY <2>10, <2>11, <2>12, <2>13, RoundMade
<1>13. PassedOn(g)'
  <2> SUFFICES ASSUME ~closed'[Res(g)]
               PROVE  Unfinished(g)' /\ (Elems(Stream(g)) \cup Pending(g) = {y \in Items(g) : y.no <= Taken(g, y.src)})'
    BY DEF PassedOn
  <2>1. Unfinished(g) /\ Elems(Stream(g)) = {y \in Items(g) : y.no <= Taken(g, y.src)}
    BY <1>3, <1>10, <1>11 DEF Res
  <2>2. Items(g)' = Items(g)
    BY <1>3, SentSame
  <2>3. Stream(g)' = Stream(g) /\ Elems(Stream(g))' = Elems(Stream(g)) /\ Pending(g)' = {x}
    <3>1. Stream(g)' = Stream(g)
      BY <1>5
    <3>2. Elems(Stream(g))' = Elems(Stream(g))
      BY <3>1 DEF Elems
    <3>3. Pending(g)' = Told(calls, g)
      BY <1>4 DEF Pending, Told, Res, Elems
    <3> QED BY <1>9, <3>1, <3>2, <3>3
  <2>4. Unfinished(g)'
    BY <2>1, <2>3 DEF Unfinished
  <2>5. ASSUME NEW y \in Items(g)
        PROVE  y.no <= Taken(g, y.src)' <=> y.no <= Taken(g, y.src) \/ y = x
    <3>1. y.src \in PortsOf(g) /\ y.no \in 1..Len(sent[y.src]) /\ y = sent[y.src][y.no]
      BY TheItems
    <3>2. CASE y.src = s
      <4>1. Taken(g, y.src)' = R /\ Taken(g, y.src) = R - 1 /\ (y = x <=> y.no = R)
        BY <1>5, <3>1, <3>2
      <4>2. y.no <= R <=> y.no <= R - 1 \/ y.no = R
        BY <1>5, <3>1
      <4> QED BY <4>1, <4>2
    <3>3. CASE y.src # s
      BY <1>5, <3>1, <3>3
    <3> QED BY <3>2, <3>3
  <2>6. {y \in Items(g) : y.no <= Taken(g, y.src)}' = {y \in Items(g) : y.no <= Taken(g, y.src)} \cup {x}
    BY <1>10, <2>2, <2>5
  <2> QED BY <2>1, <2>3, <2>4, <2>6
<1>14. TurnOK'
  <2>1. calls # <<>> /\ Len(calls) = 1 /\ calls[1] = Push(Res(g), x) /\ \A i \in 1..1 : i = 1
    BY DEF calls
  <2>2. g \notin complete_ports
    BY <1>5 DEF Running
  <2>3. ~closed[Res(g)] => Unfinished(g)' /\ Follows(g, x, Elems(Stream(g)))'
    <3> SUFFICES ASSUME ~closed[Res(g)] PROVE Unfinished(g)' /\ Follows(g, x, Elems(Stream(g)))'
      OBVIOUS
    <3>1. Follows(g, x, Elems(Stream(g)))
      BY <1>3, <1>10, <1>11 DEF Follows
    <3>2. Elems(Stream(g))' = Elems(Stream(g)) /\ (Unfinished(g) => Unfinished(g)')
      BY <1>5 DEF Elems, Unfinished
    <3>3. \A B : B = Elems(Stream(g)) => Follows(g, x, B)'
      BY <1>3, <3>1, SentSame
    <3> QED BY <1>11, <3>2, <3>3
  <2>4. Push(Res(g), x).op = "push" /\ Push(Res(g), x).edge = Res(g) /\ Push(Res(g), x).item = x
    BY CallParts
  <2> QED BY <1>3, <1>4, <2>1, <2>2, <2>3, <2>4 DEF TurnOK, Res
<1>15. \A h \in GroupSet : h # g /\ Running(h)' => RoundOK(h)' /\ PassedOn(h)'
  <2>1. \A h \in GroupSet : h # g => Pending(h)' = Pending(h)
    BY <1>4, <1>9, NonePending DEF Pending, Told, Res
  <2> QED BY <1>3, <1>5, <1>8, <2>1, OthersKept
<1>16. \A h \in GroupSet : Running(h)' => RoundOK(h)' /\ PassedOn(h)'
  BY <1>12, <1>13, <1>15
<1> QED
  BY <1>5, <1>14, <1>16 DEF OrderInv, PortsOf

(* The end of a port leaves its group in the same round.                   *)
LEMMA OrderTurnCompleteAll ==
  ASSUME TypeInv, OrderInv, TurnCompleteAll
  PROVE  OrderInv'
<1>1. PICK g \in GroupSet : g = Group
  BY NextGroup DEF TurnCompleteAll
<1>2. PICK s, x, R, w, c, n, rest :
        /\ s = Sender(g) /\ x = PortHead /\ R = Round(g)
        /\ w = ports[g] /\ c = cur_port[g] /\ n = Len(w) /\ rest = RemoveAt(w, c)
  OBVIOUS
<1> DEFINE calls == IF rest = <<>> THEN <<Push(Res(g), x)>> ELSE <<>>
<1>3. /\ MyTurn /\ policy = "all" /\ q[Port] # <<>> /\ x.type = "complete"
      /\ q' = [q EXCEPT ![Port] = Tail(@)] /\ GoOn(calls)
      /\ ports' = [ports EXCEPT ![g] = rest]
      /\ cur_port' = [cur_port EXCEPT ![g] = IF @ > Len(rest) THEN 1 ELSE @]
      /\ complete_ports' = IF rest = <<>> THEN complete_ports \cup {g} ELSE complete_ports
      /\ UNCHANGED <<policy, closed, groups, is_complete, out, sent, ended, left, got>>
  BY <1>1, <1>2 DEF TurnCompleteAll
<1>4. todo = <<>> /\ todo' = calls /\ (rest = <<>> => g = Group')
  BY <1>1, <1>3 DEF MyTurn, GoOn, Group
<1>5. /\ Running(g) /\ s \in PortsOf(g) /\ s \in Sources
      /\ x \in Item /\ x.src = s /\ x.no = R /\ R \in 1..Len(sent[s]) /\ x = sent[s][R]
      /\ Taken(g, s) = R - 1 /\ Len(sent[s]) \in Nat
      /\ \A u \in PortsOf(g) : Taken(g, u)' = IF u = s THEN R ELSE Taken(g, u)
      /\ \A u \in Sources : SourceOK(u)'
      /\ \A h \in GroupSet : StreamOK(h)' /\ Stream(h)' = Stream(h)
      /\ \A h \in GroupSet : \A u \in PortsOf(h) : ArrivalOK(h, u)'
      /\ \A h \in GroupSet : h # g => \A u \in PortsOf(h) : Taken(h, u)' = Taken(h, u)
  BY <1>1, <1>2, <1>3, TurnStart
<1>6. /\ w \in Seq(Sources) /\ n \in Nat /\ c \in 1..n /\ s = w[c]
      /\ \A i \in 1..n : w[i] \in Elems(w) /\ w[i] \in PortsOf(g)
  BY <1>2, <1>5, RoundPlaces DEF OrderInv, Sender
<1>7. /\ \A i, j \in 1..n : i < j => Place(g, w[i]) < Place(g, w[j])
      /\ \A i \in 1..n : Taken(g, w[i]) = IF i < c THEN R ELSE R - 1
      /\ \A u \in PortsOf(g) : u \notin Elems(w) => Finished(u) /\ Taken(g, u) = Len(sent[u]) /\ Len(sent[u]) <= R
      /\ PassedOn(g)
  <2>1. RoundOK(g) /\ PassedOn(g)
    BY <1>5 DEF OrderInv
  <2> QED BY <1>2, <2>1 DEF RoundOK
<1>8. /\ cur_port'[g] = (IF c > Len(rest) THEN 1 ELSE c) /\ ports'[g] = rest
      /\ \A h \in GroupSet : h # g => cur_port'[h] = cur_port[h] /\ ports'[h] = ports[h]
  BY <1>2, <1>3 DEF TypeInv, LoopInv
<1>9. /\ rest \in Seq(Sources) /\ Len(rest) = n - 1
      /\ \A j \in 1..(n - 1) : rest[j] = IF j < c THEN w[j] ELSE w[j + 1]
  BY <1>2, <1>6, Removed
<1>10. Finished(s) /\ R = Len(sent[s]) /\ \A u : Finished(u)' <=> Finished(u)
  <2>1. SourceOK(s)
    BY <1>5 DEF OrderInv
  <2>2. R = Len(sent[s])
    BY <1>3, <1>5, <2>1 DEF SourceOK
  <2>3. Finished(s)
    <3>1. sent[s] # <<>>
      BY <1>5
    <3> QED BY <1>3, <1>5, <2>2, <3>1 DEF Finished
  <2> QED BY <1>3, <2>2, <2>3 DEF Finished
<1>11. \A h \in GroupSet : h # g => Told(calls, h) = {}
  <2>1. CASE rest = <<>>
    <3>1. Push(Res(g), x) \in Calls /\ Push(Res(g), x).edge = Res(g)
      BY <1>5, TheEdges, CallParts
    <3>2. calls \in Seq(Calls) /\ calls # <<>> /\ Len(calls) = 1 /\ calls[1].edge = Res(g)
      BY <2>1, <3>1
    <3>3. \A i \in 1..1 : i = 1
      OBVIOUS
    <3> HIDE DEF calls
    <3> QED BY <3>2, <3>3, CallsPending
  <2>2. CASE rest # <<>>
    BY <2>2, NonePending
  <2> QED BY <2>1, <2>2
<1>12. ASSUME NEW y \in Items(g)
       PROVE  y.no <= Taken(g, y.src)' <=> y.no <= Taken(g, y.src)
  <2>1. y.src \in PortsOf(g) /\ y.no \in 1..Len(sent[y.src]) /\ y = sent[y.src][y.no] /\ y.type # "complete"
    BY TheItems
  <2>2. CASE y.src = s
    <3>1. y.no # R
      BY <1>3, <1>5, <2>1, <2>2
    <3> QED BY <1>5, <2>1, <2>2, <3>1
  <2>3. CASE y.src # s
    BY <1>5, <2>1, <2>3
  <2> QED BY <2>2, <2>3
<1>13. ASSUME rest # <<>> PROVE RoundOK(g)' /\ PassedOn(g)'
  <2>1. n - 1 \in Nat /\ n - 1 >= 1
    BY <1>9, <1>13, SomeLists
  <2>2. \A i \in 1..n : i # c => w[i] # s
    <3>1. \A i \in 1..n : Place(g, w[i]) \in Nat
      BY <1>1, <1>6, ThePorts
    <3>2. \A i \in 1..n : i < c \/ i = c \/ c < i
      BY <1>6
    <3> QED BY <1>6, <1>7, <3>1, <3>2
  <2>3. \A i \in 1..n : i # c => Taken(g, w[i])' = IF i < c THEN R ELSE R - 1
    BY <1>5, <1>6, <1>7, <2>2
  <2>4. \A j \in 1..(n - 1) : /\ j \in 1..n /\ j + 1 \in 1..n
                              /\ j < c => j # c
                              /\ ~(j < c) => ~(j + 1 < c) /\ j + 1 # c
    BY <1>6
  <2>5. \A j \in 1..(n - 1) : rest[j] \in PortsOf(g) /\ Taken(g, rest[j])' = IF j < c THEN R ELSE R - 1
    BY <1>6, <1>9, <2>3, <2>4
  <2>6. ASSUME NEW i \in 1..(n - 1), NEW j \in 1..(n - 1), i < j
        PROVE  Place(g, rest[i]) < Place(g, rest[j])
    <3>1. CASE j < c
      <4>1. i < c
        BY <1>6, <2>6, <3>1
      <4> QED BY <1>7, <1>9, <2>4, <2>6, <3>1, <4>1
    <3>2. CASE i < c /\ ~(j < c)
      <4>1. i < j + 1
        BY <1>6, <2>6
      <4> QED BY <1>7, <1>9, <2>4, <3>2, <4>1
    <3>3. CASE ~(i < c)
      <4>1. ~(j < c) /\ i + 1 < j + 1
        BY <1>6, <2>6, <3>3
      <4> QED BY <1>7, <1>9, <2>4, <3>3, <4>1
    <3> QED BY <3>1, <3>2, <3>3
  <2>7. PICK d, r : d = (IF c > n - 1 THEN 1 ELSE c) /\ r = IF c > n - 1 THEN R + 1 ELSE R
    OBVIOUS
  <2>8. d \in 1..(n - 1) /\ (c > n - 1 => c = n)
    BY <1>6, <2>1, <2>7
  <2>9. \A j \in 1..(n - 1) : Taken(g, rest[j])' = IF j < d THEN r ELSE r - 1
    <3>1. \A j \in 1..(n - 1) : (IF j < c THEN R ELSE R - 1) = (IF j < d THEN r ELSE r - 1)
      BY <1>5, <1>6, <2>1, <2>7, <2>8
    <3> QED BY <2>5, <3>1
  <2>10. Round(g)' = r
    <3>1. Round(g)' = Taken(g, rest[d])' + 1
      BY <1>8, <1>9, <2>7 DEF Round, Sender
    <3>2. Taken(g, rest[d])' = r - 1
      BY <1>6, <2>8, <2>9
    <3> QED BY <1>5, <2>7, <3>1, <3>2
  <2>11. ASSUME NEW u \in PortsOf(g), u \notin Elems(rest)
         PROVE  Finished(u)' /\ Taken(g, u)' = Len(sent'[u]) /\ Len(sent'[u]) <= r
    <3>1. R <= r /\ r \in Nat /\ R \in Nat
      BY <1>5, <2>7
    <3>2. CASE u = s
      BY <1>3, <1>5, <1>10, <3>1, <3>2
    <3>3. CASE u # s
      <4>1. u \notin Elems(w)
        <5>1. ASSUME NEW i \in 1..n, i # c PROVE w[i] \in Elems(rest)
          <6>1. CASE i < c
            <7>1. i \in 1..(n - 1) /\ rest[i] = w[i]
              BY <1>6, <1>9, <6>1
            <7> QED BY <1>9, <7>1 DEF Elems
          <6>2. CASE c < i
            <7>1. i - 1 \in 1..(n - 1) /\ ~(i - 1 < c) /\ (i - 1) + 1 = i
              BY <1>6, <6>2
            <7>2. rest[i - 1] = w[i]
              BY <1>9, <7>1
            <7> QED BY <1>9, <7>1, <7>2 DEF Elems
          <6> QED BY <1>6, <5>1, <6>1, <6>2
        <5>2. \A i \in 1..n : u # w[i]
          BY <1>6, <2>11, <3>3, <5>1
        <5> QED BY <1>2, <5>2 DEF Elems
      <4>2. Finished(u) /\ Taken(g, u) = Len(sent[u]) /\ Len(sent[u]) <= R /\ Len(sent[u]) \in Nat
        BY <1>6, <1>7, <4>1, ThePorts, SomeLists DEF TypeInv
      <4>3. Finished(u)' /\ sent' = sent /\ Taken(g, u)' = Len(sent[u])
        BY <1>3, <1>5, <1>10, <3>3, <4>2
      <4>4. Len(sent[u]) <= r
        BY <3>1, <4>2
      <4> QED BY <4>3, <4>4
    <3> QED BY <3>2, <3>3
  <2>12. RoundOK(g)'
    <3>1. ports'[g] = rest /\ cur_port'[g] = d
      BY <1>8, <1>9, <2>7
    <3>2. /\ \A i \in 1..Len(rest) : rest[i] \in PortsOf(g) /\ Taken(g, rest[i])' = IF i < d THEN r ELSE r - 1
          /\ \A i, j \in 1..Len(rest) : i < j => Place(g, rest[i]) < Place(g, rest[j])
      BY <1>9, <2>5, <2>6, <2>9
    <3> QED BY <2>10, <2>11, <3>1, <3>2, RoundMade
  <2>13. PassedOn(g)'
    <3>1. Items(g)' = Items(g)
      BY <1>3, SentSame
    <3>2. {y \in Items(g) : y.no <= Taken(g, y.src)}' = {y \in Items(g) : y.no <= Taken(g, y.src)}
      BY <1>12, <3>1
    <3>3. Pending(g)' = Pending(g)
      BY <1>4, <1>13, NonePending DEF Pending, Told, Res
    <3>4. closed'[Res(g)] = closed[Res(g)] /\ Stream(g)' = Stream(g)
      BY <1>3, <1>5
    <3> QED BY <1>7, <3>2, <3>3, <3>4, PassedOnFrame
  <2> QED BY <2>12, <2>13
<1>14. TurnOK'
  <2>1. CASE rest # <<>>
    BY <1>4, <2>1 DEF TurnOK
  <2>2. CASE rest = <<>>
    <3>1. calls # <<>> /\ Len(calls) = 1 /\ calls[1] = Push(Res(g), x) /\ \A i \in 1..1 : i = 1
      BY <2>2
    <3>2. Push(Res(g), x).op = "push" /\ Push(Res(g), x).edge = Res(g) /\ Push(Res(g), x).item = x
      BY CallParts
    <3>3. \A u \in PortsOf(g) : u # s => Finished(u) /\ Taken(g, u) = Len(sent[u])
      <4>1. n = 1 /\ c = 1
        BY <1>6, <1>9, <2>2
      <4>2. \A u \in Elems(w) : u = s
        BY <1>2, <1>6, <4>1 DEF Elems
      <4> QED BY <1>7, <4>2
    <3>4. \A y \in Items(g) : y.no <= Taken(g, y.src)
      <4> SUFFICES ASSUME NEW y \in Items(g) PROVE y.no <= Taken(g, y.src)
        OBVIOUS
      <4>1. y.src \in PortsOf(g) /\ y.no \in 1..Len(sent[y.src]) /\ y = sent[y.src][y.no] /\ y.type # "complete"
        BY TheItems
      <4>2. CASE y.src = s
        <5>1. y.no # R
          BY <1>3, <1>5, <4>1, <4>2
        <5> QED BY <1>5, <1>10, <4>1, <4>2, <5>1
      <4>3. CASE y.src # s
        BY <3>3, <4>1, <4>3
      <4> QED BY <4>2, <4>3
    <3>5. ~closed[Res(g)] => Unfinished(g) /\ Elems(Stream(g)) = Items(g)
      <4> SUFFICES ASSUME ~closed[Res(g)] PROVE Unfinished(g) /\ Elems(Stream(g)) = Items(g)
        OBVIOUS
      <4>1. Unfinished(g) /\ Elems(Stream(g)) \cup Pending(g) = {y \in Items(g) : y.no <= Taken(g, y.src)}
        BY <1>7 DEF PassedOn
      <4>2. Pending(g) = {}
        BY <1>4, NonePending DEF Pending
      <4> QED BY <3>4, <4>1, <4>2
    <3>6. ~closed[Res(g)] => Unfinished(g)' /\ Follows(g, x, Elems(Stream(g)))'
      <4> SUFFICES ASSUME ~closed[Res(g)] PROVE Unfinished(g)' /\ Follows(g, x, Elems(Stream(g)))'
        OBVIOUS
      <4>1. Follows(g, x, Elems(Stream(g)))
        BY <1>3, <1>10, <3>3, <3>5 DEF Follows
      <4>2. Elems(Stream(g))' = Elems(Stream(g)) /\ (Unfinished(g) => Unfinished(g)')
        BY <1>5 DEF Elems, Unfinished
      <4>3. \A B : B = Elems(Stream(g)) => Follows(g, x, B)'
        BY <1>3, <4>1, SentSame
      <4> QED BY <3>5, <4>2, <4>3
    <3>7. g \in complete_ports'
      BY <1>3, <2>2
    <3> HIDE DEF calls
    <3> QED BY <1>3, <1>4, <2>2, <3>1, <3>2, <3>6, <3>7 DEF TurnOK, Res
  <2> QED BY <2>1, <2>2
<1>15. \A h \in GroupSet : h # g /\ Running(h)' => RoundOK(h)' /\ PassedOn(h)'
  <2>1. \A h \in GroupSet : h # g => Pending(h)' = Pending(h)
    BY <1>4, <1>11, NonePending DEF Pending, Told, Res
  <2>2. complete_ports \subseteq complete_ports'
    BY <1>3
  <2> QED BY <1>3, <1>5, <1>8, <2>1, <2>2, OthersKept
<1>16. \A h \in GroupSet : Running(h)' => RoundOK(h)' /\ PassedOn(h)'
  <2>1. Running(g)' => rest # <<>>
    BY <1>3 DEF Running
  <2> QED BY <1>13, <1>15, <2>1
<1> QED
  BY <1>5, <1>14, <1>16 DEF OrderInv, PortsOf

(* Policy "any": the first source to end completes the group, which then   *)
(* reads one datum more of every port.                                     *)
LEMMA OrderTurnCompleteAny ==
  ASSUME TypeInv, OrderInv, TurnCompleteAny
  PROVE  OrderInv'
<1>1. PICK g \in GroupSet : g = Group
  BY NextGroup DEF TurnCompleteAny
<1>2. PICK s, x, R, w : s = Sender(g) /\ x = PortHead /\ R = Round(g) /\ w = ports[g]
  OBVIOUS
<1> DEFINE calls == [i \in DOMAIN w |-> Grab(In(g, w[i]), x)] \o <<Push(Res(g), x)>>
<1>3. /\ MyTurn /\ policy = "any" /\ q[Port] # <<>> /\ x.type = "complete"
      /\ q' = [q EXCEPT ![Port] = Tail(@)] /\ GoOn(calls) /\ complete_ports' = complete_ports \cup {g}
      /\ UNCHANGED <<policy, closed, groups, ports, cur_port, is_complete, out, sent, ended, left, got>>
  BY <1>1, <1>2 DEF TurnCompleteAny
<1>4. /\ Running(g) /\ x \in Item
      /\ \A u \in Sources : SourceOK(u)'
      /\ \A h \in GroupSet : StreamOK(h)' /\ Stream(h)' = Stream(h)
      /\ \A h \in GroupSet : \A u \in PortsOf(h) : ArrivalOK(h, u)'
      /\ \A h \in GroupSet : h # g => \A u \in PortsOf(h) : Taken(h, u)' = Taken(h, u)
  BY <1>1, <1>2, <1>3, TurnStart
<1>5. w \in Seq(Sources) /\ \A i \in 1..Len(w) : w[i] \in PortsOf(g)
  BY <1>2, <1>4, RoundPlaces DEF OrderInv, RoundOK
<1>6. /\ calls \in Seq(Calls) /\ Len(calls) = Len(w) + 1 /\ Len(w) \in Nat
      /\ \A i \in 1..Len(w) : calls[i] = Grab(In(g, w[i]), x)
      /\ calls[Len(w) + 1] = Push(Res(g), x)
  BY <1>4, <1>5, AnyCalls
<1> HIDE DEF calls
<1>7. calls # <<>>
  BY <1>6
<1>8. todo = <<>> /\ todo' = calls /\ pos' = pos /\ g = Group'
  BY <1>1, <1>3, <1>7 DEF MyTurn, GoOn, Group
<1>9. /\ \A i \in 1..Len(calls) : i # Len(calls) =>
           calls[i].op = "grab" /\ \E u \in PortsOf(g) : calls[i].edge = In(g, u)
      /\ calls[Len(calls)].op = "push" /\ calls[Len(calls)].edge = Res(g) /\ calls[Len(calls)].item = x
  <2>1. \A i \in 1..Len(calls) : i # Len(calls) => i \in 1..Len(w)
    BY <1>6
  <2> QED BY <1>5, <1>6, <2>1, CallParts
<1>10. ~closed[Res(g)] => Unfinished(g)' /\ Follows(g, x, Elems(Stream(g)))'
  <2> SUFFICES ASSUME ~closed[Res(g)] PROVE Unfinished(g)' /\ Follows(g, x, Elems(Stream(g)))'
    OBVIOUS
  <2>1. Unfinished(g)
    BY <1>4 DEF OrderInv, PassedOn
  <2>2. Unfinished(g)'
    BY <1>4, <2>1 DEF Unfinished, Elems
  <2>3. Follows(g, x, Elems(Stream(g)))'
    BY <1>3 DEF Follows
  <2> QED BY <2>2, <2>3
<1>11. TurnOK'
  <2>1. g \in complete_ports'
    BY <1>3
  <2> QED BY <1>3, <1>8, <1>9, <1>10, <2>1 DEF TurnOK, Res, PortsOf, In
<1>12. \A h \in GroupSet : h # g /\ Running(h)' => RoundOK(h)' /\ PassedOn(h)'
  <2>1. \A h \in GroupSet : h # g => Told(calls, h) = {}
    BY <1>6, <1>7, <1>9, CallsPending
  <2>2. \A h \in GroupSet : h # g => Pending(h)' = Pending(h)
    BY <1>8, <2>1, NonePending DEF Pending, Told, Res
  <2> QED BY <1>3, <1>4, <2>2, OthersKept
<1>13. \A h \in GroupSet : Running(h)' => RoundOK(h)' /\ PassedOn(h)'
  BY <1>3, <1>12 DEF Running
<1> QED
  BY <1>4, <1>11, <1>13 DEF OrderInv, PortsOf

(* The calls that remain of a turn.                                        *)
LEMMA TurnCalls ==
  ASSUME TypeInv, OrderInv, todo # <<>>, NEW g, g = Group, NEW n, n = Len(todo)
  PROVE  /\ g \in GroupSet /\ g \in Elems(groups) /\ n \in Nat \ {0} /\ ~is_complete
         /\ todo \in Seq(Calls) /\ Head(todo) = todo[1] /\ Tail(todo) \in Seq(Calls)
         /\ Len(Tail(todo)) = n - 1 /\ \A i \in 1..(n - 1) : Tail(todo)[i] = todo[i + 1]
         /\ todo[n].op = "push" /\ todo[n].edge = Res(g) /\ todo[n].item \in Item
         /\ \A i \in 1..n : i # n => todo[i].op = "grab" /\ \E s \in PortsOf(g) : todo[i].edge = In(g, s)
         /\ g \in complete_ports <=> todo[n].item.type = "complete"
         /\ g \notin complete_ports => n = 1
         /\ ~closed[Res(g)] => Unfinished(g) /\ Follows(g, todo[n].item, Elems(Stream(g)))
         /\ \A h \in GroupSet : Pending(h) = IF h = g THEN {todo[n].item} ELSE {}
<1>1. todo \in Seq(Calls) /\ pos \in 1..Len(groups) /\ ~is_complete
  BY SomeLists DEF TypeInv, LoopInv
<1>2. g \in GroupSet /\ g \in Elems(groups)
  BY <1>1, SomeLists DEF TypeInv, LoopInv, Group, Elems
<1>3. /\ n \in Nat \ {0} /\ n \in 1..n /\ Head(todo) = todo[1] /\ Tail(todo) \in Seq(Calls)
      /\ Len(Tail(todo)) = n - 1 /\ \A i \in 1..(n - 1) : Tail(todo)[i] = todo[i + 1]
  BY <1>1, SomeLists
<1>4. todo[n].item \in Item
  BY <1>1, <1>3, SomeLists, CallParts
<1>5. /\ todo[n].op = "push" /\ todo[n].edge = Res(g)
      /\ \A i \in 1..n : i # n => todo[i].op = "grab" /\ \E s \in PortsOf(g) : todo[i].edge = In(g, s)
      /\ (g \in complete_ports) = (todo[n].item.type = "complete")
      /\ g \notin complete_ports => n = 1
      /\ ~closed[Res(g)] => Unfinished(g) /\ Follows(g, todo[n].item, Elems(Stream(g)))
  BY DEF OrderInv, TurnOK
<1>6. \A h \in GroupSet : Told(todo, h) = IF h = g THEN {todo[n].item} ELSE {}
  BY <1>1, <1>2, <1>5, CallsPending
<1> QED
  BY <1>1, <1>2, <1>3, <1>4, <1>5, <1>6 DEF Pending

LEMMA OrderMuxGrab ==
  ASSUME TypeInv, OrderInv, MuxGrab
  PROVE  OrderInv'
<1>1. /\ todo # <<>> /\ Head(todo).op = "grab" /\ q[Head(todo).edge] # <<>>
      /\ q' = [q EXCEPT ![Head(todo).edge] = Tail(@)] /\ GoOn(Tail(todo))
      /\ UNCHANGED <<policy, closed, groups, ports, cur_port, complete_ports, is_complete, out, sent, ended, left, got>>
  BY DEF MuxGrab
<1>2. PICK g, n : g = Group /\ n = Len(todo)
  OBVIOUS
<1>3. /\ g \in GroupSet /\ g \in Elems(groups) /\ n \in Nat \ {0} /\ ~is_complete
      /\ todo \in Seq(Calls) /\ Head(todo) = todo[1] /\ Tail(todo) \in Seq(Calls)
      /\ Len(Tail(todo)) = n - 1 /\ \A i \in 1..(n - 1) : Tail(todo)[i] = todo[i + 1]
      /\ todo[n].op = "push" /\ todo[n].edge = Res(g) /\ todo[n].item \in Item
      /\ \A i \in 1..n : i # n => todo[i].op = "grab" /\ \E s \in PortsOf(g) : todo[i].edge = In(g, s)
      /\ g \in complete_ports <=> todo[n].item.type = "complete"
      /\ g \notin complete_ports => n = 1
      /\ ~closed[Res(g)] => Unfinished(g) /\ Follows(g, todo[n].item, Elems(Stream(g)))
      /\ \A h \in GroupSet : Pending(h) = IF h = g THEN {todo[n].item} ELSE {}
  BY <1>1, <1>2, TurnCalls
<1>4. n # 1 /\ n - 1 \in Nat \ {0} /\ 1 \in 1..n
  BY <1>1, <1>3
<1>5. PICK s \in PortsOf(g) : todo[1].edge = In(g, s)
  BY <1>3, <1>4
<1>6. PICK t : t = Tail(todo)
  OBVIOUS
<1>7. t # <<>> /\ todo' = t /\ pos' = pos /\ g = Group'
  <2>1. t # <<>>
    BY <1>3, <1>4, <1>6
  <2> QED BY <1>1, <1>2, <1>6, <2>1 DEF GoOn, Group
<1>8. /\ \A u \in Sources : SourceOK(u)'
      /\ \A h \in GroupSet : StreamOK(h)' /\ Stream(h)' = Stream(h)
      /\ \A h \in GroupSet : \A u \in PortsOf(h) :
           ArrivalOK(h, u)' /\ (h # g \/ u # s => Taken(h, u)' = Taken(h, u))
  <2>1. q[In(g, s)] # <<>> /\ q' = [q EXCEPT ![In(g, s)] = Tail(@)]
    BY <1>1, <1>3, <1>5
  <2>2. UNCHANGED <<policy, closed, out, sent, ended, got>>
    BY <1>1
  <2> QED BY <1>3, <2>1, <2>2, Fetched
<1>9. /\ Len(t) = n - 1 /\ t[n - 1] = todo[n]
      /\ \A i \in 1..(n - 1) : i # n - 1 => t[i].op = "grab" /\ \E u \in PortsOf(g) : t[i].edge = In(g, u)
  <2>1. \A i \in 1..(n - 1) : i + 1 \in 1..n /\ (i # n - 1 => i + 1 # n)
    BY <1>3
  <2>2. n - 1 \in 1..(n - 1) /\ (n - 1) + 1 = n
    BY <1>3, <1>4
  <2> QED BY <1>3, <1>6, <2>1, <2>2
<1>10. g \in complete_ports
  BY <1>3, <1>4
<1>11. ~closed[Res(g)] => Unfinished(g)' /\ Follows(g, t[n - 1].item, Elems(Stream(g)))'
  <2> SUFFICES ASSUME ~closed[Res(g)] PROVE Unfinished(g)' /\ Follows(g, t[n - 1].item, Elems(Stream(g)))'
    OBVIOUS
  <2>1. Unfinished(g)'
    BY <1>3, <1>8 DEF Unfinished, Elems
  <2>2. Elems(Stream(g))' = Elems(Stream(g))
    BY <1>3, <1>8 DEF Elems
  <2>3. \A B : B = Elems(Stream(g)) => Follows(g, t[n - 1].item, B)'
    <3>1. Follows(g, t[n - 1].item, Elems(Stream(g)))
      BY <1>3, <1>9
    <3> QED BY <1>1, <3>1, SentSame
  <2> QED BY <2>1, <2>2, <2>3
<1>12. TurnOK'
  <2>1. Len(todo') = n - 1 /\ todo' = t
    BY <1>7, <1>9
  <2>2. t[n - 1].op = "push" /\ t[n - 1].edge = Res(g) /\ t[n - 1].item.type = "complete"
    BY <1>3, <1>9, <1>10
  <2> QED BY <1>1, <1>7, <1>9, <1>10, <1>11, <2>1, <2>2 DEF TurnOK, Res, PortsOf, In
<1>13. \A h \in GroupSet : h # g /\ Running(h)' => RoundOK(h)' /\ PassedOn(h)'
  <2>1. t \in Seq(Calls) /\ t[Len(t)].edge = Res(g)
    BY <1>3, <1>6, <1>9
  <2>2. \A h \in GroupSet : h # g => Told(t, h) = {}
    <3>1. \A i \in 1..Len(t) : i # Len(t) => \E u \in PortsOf(g) : t[i].edge = In(g, u)
      BY <1>9
    <3> QED BY <1>3, <1>7, <2>1, <3>1, CallsPending
  <2>3. \A h \in GroupSet : h # g => Pending(h)' = Pending(h)
    BY <1>3, <1>7, <2>2 DEF Pending, Told, Res
  <2> QED BY <1>1, <1>3, <1>8, <2>3, OthersKept
<1>14. \A h \in GroupSet : Running(h)' => RoundOK(h)' /\ PassedOn(h)'
  BY <1>1, <1>10, <1>13 DEF Running
<1> QED
  BY <1>8, <1>12, <1>14 DEF OrderInv, PortsOf

LEMMA OrderMuxPush ==
  ASSUME TypeInv, OrderInv, MuxPush
  PROVE  OrderInv'
<1>1. /\ todo # <<>> /\ Head(todo).op = "push" /\ q' = Pushed(Head(todo).edge, Head(todo).item) /\ GoOn(Tail(todo))
      /\ UNCHANGED <<policy, closed, groups, ports, cur_port, complete_ports, is_complete, out, sent, ended, left, got>>
  BY DEF MuxPush
<1>2. PICK g, n, x : g = Group /\ n = Len(todo) /\ x = todo[n].item
  OBVIOUS
<1>3. /\ g \in GroupSet /\ g \in Elems(groups) /\ n \in Nat \ {0} /\ ~is_complete
      /\ todo \in Seq(Calls) /\ Head(todo) = todo[1] /\ Tail(todo) \in Seq(Calls)
      /\ Len(Tail(todo)) = n - 1
      /\ todo[n].op = "push" /\ todo[n].edge = Res(g) /\ x \in Item
      /\ \A i \in 1..n : i # n => todo[i].op = "grab"
      /\ g \in complete_ports <=> x.type = "complete"
      /\ ~closed[Res(g)] => Unfinished(g) /\ Follows(g, x, Elems(Stream(g)))
      /\ \A h \in GroupSet : Pending(h) = IF h = g THEN {x} ELSE {}
  BY <1>1, <1>2, TurnCalls
<1>4. n = 1
  <2>1. 1 \in 1..n /\ "push" # "grab"
    BY <1>3
  <2> QED BY <1>1, <1>3, <2>1
<1>5. Tail(todo) = <<>>
  <2>1. Tail(todo) \in Seq(Calls) /\ Len(Tail(todo)) = 0
    BY <1>3, <1>4
  <2> QED BY <2>1, EmptySeq
<1>6. todo' = <<>> /\ q' = IF closed[Res(g)] THEN q ELSE [q EXCEPT ![Res(g)] = Append(@, x)]
  BY <1>1, <1>2, <1>3, <1>4, <1>5 DEF GoOn, Pushed
<1>7. q \in [Edges -> Seq(Item)] /\ Res(g) \in Edges
  BY <1>3, TheEdges DEF TypeInv, Queues
<1>8. \A e \in Edges : e # Res(g) => q'[e] = q[e]
  BY <1>6, <1>7
<1>9. /\ \A u \in Sources : SourceOK(u)'
      /\ \A h \in GroupSet : \A u \in PortsOf(h) : ArrivalOK(h, u)' /\ Taken(h, u)' = Taken(h, u)
  <2>1. \A u \in Sources : SourceOK(u)'
    BY <1>1, SourceFrame DEF OrderInv
  <2>2. ASSUME NEW h \in GroupSet, NEW u \in PortsOf(h) PROVE ArrivalOK(h, u)' /\ Taken(h, u)' = Taken(h, u)
    <3>1. u \in Sources /\ In(h, u) \in Edges /\ In(h, u) # Res(g) /\ ArrivalOK(h, u)
      BY <1>3, ThePorts, TheEdges DEF OrderInv
    <3>2. q'[In(h, u)] = q[In(h, u)] /\ closed'[In(h, u)] = closed[In(h, u)] /\ sent'[u] = sent[u] /\ out'[u] = out[u]
      BY <1>1, <1>8, <3>1
    <3> QED BY <3>1, <3>2, TakenFrame, ArrivalFrame
  <2> QED BY <2>1, <2>2
<1>10. \A h \in GroupSet : h # g => Stream(h)' = Stream(h)
  <2>1. \A h \in GroupSet : h # g => q'[Res(h)] = q[Res(h)]
    BY <1>3, <1>8, TheEdges
  <2> QED BY <1>1, <2>1 DEF Stream, Res
<1>11. StreamOK(g)
  BY <1>3 DEF OrderInv
<1>12. ASSUME closed[Res(g)] PROVE Stream(g)' = Stream(g) /\ StreamOK(g)'
  <2>1. Stream(g)' = Stream(g)
    BY <1>1, <1>6, <1>12 DEF Stream, Res
  <2> QED BY <1>1, <1>3, <1>11, <2>1, SentSame, StreamSame
<1>13. ASSUME ~closed[Res(g)]
       PROVE  StreamOK(g)' /\ Elems(Stream(g))' = Elems(Stream(g)) \cup {x}
  <2>1. Stream(g)' = Append(Stream(g), x)
    <3>1. got[g] \in Seq(Item) /\ q[Res(g)] \in Seq(Item) /\ x \in Item
      BY <1>3, TheStream
    <3>2. q'[Res(g)] = Append(q[Res(g)], x)
      BY <1>6, <1>7, <1>13
    <3>3. got[g] \o Append(q[Res(g)], x) = Append(got[g] \o q[Res(g)], x)
      <4> DEFINE a == got[g]
                 b == q[Res(g)]
      <4>1. a \in Seq(Item) /\ b \in Seq(Item) /\ x \in Item
        BY <3>1
      <4> HIDE DEF a, b
      <4>2. a \o Append(b, x) = Append(a \o b, x)
        BY <4>1, OneAdded
      <4> QED BY <4>2 DEF a, b
    <3>4. Stream(g)' = got[g] \o Append(q[Res(g)], x)
      BY <1>1, <3>2 DEF Stream, Res
    <3> QED BY <3>3, <3>4 DEF Stream
  <2> QED BY <1>1, <1>3, <1>11, <1>13, <2>1, StreamGrows
<1>14. \A h \in GroupSet : StreamOK(h)'
  <2>1. \A h \in GroupSet : h # g => StreamOK(h)'
    BY <1>1, <1>10, SentSame, StreamSame DEF OrderInv
  <2> QED BY <1>12, <1>13, <2>1
<1>15. \A h \in GroupSet : Pending(h)' = {}
  BY <1>6, NonePending DEF Pending, Told, Res
<1>16. \A h \in GroupSet : h # g /\ Running(h)' => RoundOK(h)' /\ PassedOn(h)'
  BY <1>1, <1>3, <1>9, <1>10, <1>15, OthersKept
<1>17. ASSUME Running(g)' PROVE RoundOK(g)' /\ PassedOn(g)'
  <2>1. Running(g) /\ g \notin complete_ports
    BY <1>1, <1>17, RunningSame DEF Running
  <2>2. RoundOK(g)'
    BY <1>1, <1>3, <1>9, <2>1, RoundFrame DEF OrderInv
  <2>3. ASSUME ~closed[Res(g)]
        PROVE  Unfinished(g)' /\ (Elems(Stream(g)) \cup Pending(g) = {y \in Items(g) : y.no <= Taken(g, y.src)})'
    <3>1. Unfinished(g) /\ Elems(Stream(g)) \cup {x} = {y \in Items(g) : y.no <= Taken(g, y.src)}
      BY <1>3, <2>1, <2>3 DEF OrderInv, PassedOn
    <3>2. x.type # "complete"
      BY <1>3, <2>1
    <3>3. Elems(Stream(g))' = Elems(Stream(g)) \cup {x}
      BY <1>13, <2>3
    <3>4. Unfinished(g)'
      BY <3>1, <3>2, <3>3 DEF Unfinished
    <3>5. Items(g)' = Items(g) /\ \A y \in Items(g) : y.src \in PortsOf(g)
      BY <1>1, <1>3, SentSame, TheItems
    <3>6. {y \in Items(g) : y.no <= Taken(g, y.src)}' = {y \in Items(g) : y.no <= Taken(g, y.src)}
      BY <1>3, <1>9, <3>5
    <3> QED BY <1>3, <1>15, <3>1, <3>3, <3>4, <3>6
  <2> QED BY <1>1, <2>2, <2>3 DEF PassedOn, Res
<1> QED
  BY <1>6, <1>9, <1>14, <1>16, <1>17 DEF OrderInv, PortsOf, TurnOK

(* The end of the step.                                                    *)
LEMMA OrderMuxEndStep ==
  ASSUME TypeInv, OrderInv, MuxEndStep
  PROVE  OrderInv'
<1>1. /\ todo = <<>> /\ groups' = Left /\ is_complete' = IsDone
      /\ IF IsDone THEN Close(Inputs) ELSE UNCHANGED <<q, closed>>
      /\ UNCHANGED <<policy, ports, cur_port, todo, out, sent, ended, left, got>>
  BY DEF MuxEndStep, StepDone
<1>2. ~is_complete
  BY DEF MuxEndStep, StepDone
<1>3. \A g \in GroupSet : q'[Res(g)] = q[Res(g)] /\ closed'[Res(g)] = closed[Res(g)]
  <2>1. CASE IsDone
    <3>1. q \in Queues /\ closed \in [Edges -> BOOLEAN]
      BY DEF TypeInv
    <3> QED BY <1>1, <2>1, <3>1, ClosedEdges, TheEdges
  <2>2. CASE ~IsDone
    BY <1>1, <2>2
  <2> QED BY <2>1, <2>2
<1>4. \A g \in GroupSet : Stream(g)' = Stream(g) /\ StreamOK(g)'
  <2>1. \A g \in GroupSet : Stream(g)' = Stream(g)
    BY <1>1, <1>3 DEF Stream, Res
  <2> QED BY <1>1, <2>1, SentSame, StreamSame DEF OrderInv
<1>5. \A s \in Sources : SourceOK(s)'
  BY <1>1, SourceFrame DEF OrderInv
<1>6. ASSUME ~is_complete', NEW g \in GroupSet, NEW s \in PortsOf(g)
      PROVE  ArrivalOK(g, s)' /\ Taken(g, s)' = Taken(g, s)
  <2>1. UNCHANGED <<q, closed>> /\ ArrivalOK(g, s)
    BY <1>1, <1>2, <1>6 DEF OrderInv
  <2> QED BY <1>1, <2>1, TakenFrame, ArrivalFrame
<1>7. ASSUME NEW g \in GroupSet, Running(g)' PROVE RoundOK(g)' /\ PassedOn(g)'
  <2>1. ~is_complete'
    BY <1>7 DEF Running
  <2>2. UNCHANGED <<q, closed>>
    BY <1>1, <2>1
  <2>3. g \in Elems(Left)
    BY <1>1, <1>7 DEF Running, Elems
  <2>4. Running(g)
    BY <1>2, <2>3, TheLeft DEF TypeInv, Running
  <2>5. Pending(g)' = Pending(g)
    BY <1>1, PendingSame
  <2> QED BY <1>1, <1>4, <1>6, <2>1, <2>2, <2>4, <2>5, OtherGroup
<1>8. TurnOK'
  BY <1>1 DEF TurnOK
<1> QED
  BY <1>4, <1>5, <1>6, <1>7, <1>8 DEF OrderInv, PortsOf

-----------------------------------------------------------------------------
(* The order of the streams.                                               *)

LEMMA OrderAtFirst == Init => OrderInv
<1> SUFFICES ASSUME Init PROVE OrderInv
  OBVIOUS
<1>0. TypeInv
  BY TypesAtFirst
<1>1. /\ q = [e \in Edges |-> <<>>] /\ closed = [e \in Edges |-> FALSE]
      /\ groups = Groups /\ ports = Ports /\ cur_port = [g \in GroupSet |-> 1]
      /\ todo = <<>> /\ out = [s \in Sources |-> <<>>] /\ sent = [s \in Sources |-> <<>>]
      /\ got = [g \in GroupSet |-> <<>>]
  BY DEF Init
<1>2. \A s \in Sources : sent[s] = <<>> /\ out[s] = <<>> /\ Len(sent[s]) = 0 /\ Len(out[s]) = 0
  BY <1>1
<1>3. \A s \in Sources : SourceOK(s)
  <2>1. \A i : i \notin 1..0
    OBVIOUS
  <2> QED BY <1>2, <2>1 DEF SourceOK, Finished
<1>4. \A g \in GroupSet : got[g] = <<>> /\ q[Res(g)] = <<>>
  BY <1>1, TheEdges
<1>5. \A g \in GroupSet : Stream(g) = <<>> /\ Len(Stream(g)) = 0
  <2>1. <<>> \o <<>> = <<>> /\ Len(<<>>) = 0
    BY ConcatEmptySeq, EmptySeq
  <2> QED BY <1>4, <2>1 DEF Stream
<1>6. \A g \in GroupSet : StreamOK(g)
  <2>1. \A i : i \notin 1..0
    OBVIOUS
  <2> QED BY <1>5, <2>1 DEF StreamOK
<1>7. ASSUME NEW g \in GroupSet, NEW s \in PortsOf(g) PROVE ArrivalOK(g, s) /\ Taken(g, s) = 0
  <2>1. s \in Sources /\ q[In(g, s)] = <<>> /\ ~closed[In(g, s)]
    BY <1>1, <1>7, ThePorts, TheEdges
  <2>2. ~Waits(g, s)
    <3>1. \A i : i \notin 1..0
      OBVIOUS
    <3> QED BY <1>2, <2>1, <3>1 DEF Waits
  <2>3. Arrived(g, s) = 0 /\ Len(q[In(g, s)]) = 0
    BY <1>2, <2>1, <2>2 DEF Arrived
  <2>4. Taken(g, s) = 0
    BY <2>3 DEF Taken
  <2>5. \A i : i \notin 1..0
    OBVIOUS
  <2> QED BY <2>1, <2>3, <2>4, <2>5 DEF ArrivalOK
<1>8. ASSUME NEW g \in GroupSet PROVE RoundOK(g) /\ PassedOn(g)
  <2>1. ports[g] = Ports[g] /\ cur_port[g] = 1
    BY <1>1
  <2>2. /\ Ports[g] \in Seq(Sources) /\ Len(Ports[g]) \in Nat /\ Len(Ports[g]) >= 2
        /\ \A i \in 1..Len(Ports[g]) : Ports[g][i] \in PortsOf(g) /\ Place(g, Ports[g][i]) = i
        /\ \A s \in PortsOf(g) : s \in Elems(Ports[g])
    BY ThePorts
  <2>3. Taken(g, Ports[g][1]) = 0
    BY <1>7, <2>2
  <2>4. Round(g) = 1
    BY <2>1, <2>3 DEF Round, Sender
  <2>5. \A i \in 1..Len(Ports[g]) : ~(i < 1) /\ Taken(g, Ports[g][i]) = 0
    BY <1>7, <2>2
  <2>6. RoundOK(g)
    <3>1. \A i \in 1..Len(ports[g]) : Taken(g, ports[g][i]) = IF i < cur_port[g] THEN Round(g) ELSE Round(g) - 1
      BY <2>1, <2>4, <2>5
    <3> QED BY <2>1, <2>2, <3>1 DEF RoundOK
  <2>7. Items(g) = {}
    <3>1. \A s \in PortsOf(g) : sent[s] = <<>>
      BY <1>2, ThePorts
    <3>2. ToSet(<<>>) = {}
      BY DEF ToSet
    <3>3. \A s \in PortsOf(g) : ToSet(sent[s]) = {}
      BY <3>1, <3>2
    <3> QED BY <3>3 DEF Items, PortsOf
  <2>8. Elems(Stream(g)) = {} /\ Pending(g) = {}
    <3>1. \A i : i \notin 1..0
      OBVIOUS
    <3> QED BY <1>1, <1>5, <3>1, NonePending DEF Elems, Pending
  <2>9. PassedOn(g)
    BY <2>7, <2>8 DEF PassedOn, Unfinished
  <2> QED BY <2>6, <2>9
<1>9. TurnOK
  BY <1>1 DEF TurnOK
<1> QED
  BY <1>3, <1>6, <1>7, <1>8, <1>9 DEF OrderInv

LEMMA OrderKept == TypeInv /\ OrderInv /\ [Next]_vars => OrderInv'
<1> SUFFICES ASSUME TypeInv, OrderInv, [Next]_vars PROVE OrderInv'
  OBVIOUS
<1>1. CASE UNCHANGED vars
  <2>1. UNCHANGED <<q, closed, muxVars, policy, is_complete, out, sent, ended, left, got>>
    BY <1>1 DEF vars, muxVars
  <2>2. \A u \in Sources : SourceOK(u)' /\ (Finished(u) => sent'[u] = sent[u])
    BY <2>1, SourceFrame DEF OrderInv
  <2>3. \A g \in GroupSet : Stream(g)' = Stream(g) /\ closed'[Res(g)] = closed[Res(g)]
    BY <2>1 DEF Stream, Res
  <2>4. \A g \in GroupSet : \A y \in Item : \A B : Follows(g, y, B) => Follows(g, y, B)'
    BY <2>1, SentSame
  <2>5. ASSUME ~is_complete, NEW g \in GroupSet, NEW u \in PortsOf(g)
        PROVE  Taken(g, u)' = Taken(g, u) /\ ArrivalOK(g, u)'
    BY <2>1, <2>5, TakenFrame, ArrivalFrame DEF OrderInv
  <2>6. ASSUME ~is_complete, NEW g \in GroupSet
        PROVE  {y \in Items(g) : y.no <= Taken(g, y.src)}' = {y \in Items(g) : y.no <= Taken(g, y.src)}
    <3>1. Items(g)' = Items(g) /\ \A y \in Items(g) : y.src \in PortsOf(g)
      BY <2>1, SentSame, TheItems
    <3> QED BY <2>5, <2>6, <3>1
  <2> QED BY <2>1, <2>2, <2>3, <2>4, <2>5, <2>6, MuxFrame
<1>2. CASE MuxNext
  BY <1>2, OrderTurnData, OrderTurnCompleteAll, OrderTurnCompleteAny, OrderMuxGrab, OrderMuxPush,
     OrderMuxEndStep DEF MuxNext
<1>3. CASE \E s \in Sources : SourceStep(s) \/ SourcePush(s)
  BY <1>3, OrderSourceStep, OrderSourcePush
<1>4. CASE \E g \in GroupSet : Read(g)
  BY <1>4, OrderRead
<1> QED
  BY <1>1, <1>2, <1>3, <1>4 DEF Next, Progress, Joined

LEMMA OrderHolds == Spec => [](TypeInv /\ OrderInv)
<1>1. Init => TypeInv /\ OrderInv
  BY TypesAtFirst, OrderAtFirst
<1>2. TypeInv /\ OrderInv /\ [Next]_vars => (TypeInv /\ OrderInv)'
  BY TypesKept, OrderKept
<1> QED
  BY <1>1, <1>2, PTL DEF Spec

LEMMA StreamsInOrder == TypeInv /\ OrderInv => MuxedInOrder
<1> SUFFICES ASSUME TypeInv, OrderInv, NEW g \in GroupSet, NEW i \in DOMAIN got[g]
             PROVE  LET x == got[g][i]
                    IN  IF x.type = "complete"
                        THEN i = Len(got[g]) /\ (policy = "all" => ToSet(got[g]) \ {x} = Items(g))
                        ELSE {got[g][j] : j \in 1..(i - 1)} = {y \in Items(g) : Before(g, y, x)}
  BY DEF MuxedInOrder
<1> DEFINE a == got[g]
           b == q[Res(g)]
           w == a \o b
           x == a[i]
<1>1. a \in Seq(Item) /\ b \in Seq(Item)
  BY TheStream
<1>2. DOMAIN a = 1..Len(a) /\ Len(a) \in Nat /\ Len(b) \in Nat
  BY <1>1, SomeLists
<1>3. Len(w) = Len(a) + Len(b) /\ \A j \in 1..Len(a) : w[j] = a[j]
  <2> HIDE DEF a, b
  <2> QED BY ONLY <1>1, JoinedPlaces DEF w
<1>4. \A j \in 1..Len(w) : Follows(g, w[j], Firsts(w, j)) /\ (w[j].type = "complete" => j = Len(w))
  BY DEF OrderInv, StreamOK, Stream
<1>i. i \in 1..Len(a)
  BY <1>2
<1> HIDE DEF w, a, b
<1>5. i \in 1..Len(w) /\ w[i] = x
  BY <1>2, <1>3, <1>i
<1>6. {a[j] : j \in 1..(i - 1)} = Firsts(w, i)
  <2>1. \A j \in 1..(i - 1) : w[j] = a[j]
    BY <1>2, <1>3, <1>i
  <2> QED BY <2>1 DEF Firsts
<1>7. CASE x.type # "complete"
  <2>1. {a[j] : j \in 1..(i - 1)} = {y \in Items(g) : Before(g, y, x)}
    BY <1>4, <1>5, <1>6, <1>7 DEF Follows, Earlier
  <2> QED BY <1>7, <2>1 DEF a
<1>8. CASE x.type = "complete"
  <2>1. i = Len(a)
    BY <1>2, <1>3, <1>4, <1>5, <1>8, <1>i
  <2>2. ASSUME policy = "all" PROVE ToSet(a) \ {x} = Items(g)
    <3>1. {a[j] : j \in 1..(i - 1)} = Items(g)
      BY <1>4, <1>5, <1>6, <1>8, <2>2 DEF Follows
    <3>2. \A j \in 1..Len(a) : j \in 1..(i - 1) \/ j = i
      <4>1. Len(a) \in Nat
        BY <1>2
      <4>2. \A j \in 1..Len(a) : j \in 1..(Len(a) - 1) \/ j = Len(a)
        BY ONLY <4>1
      <4> QED BY ONLY <2>1, <4>2
    <3>3. ToSet(a) = {a[j] : j \in 1..(i - 1)} \cup {x}
      <4>1. \A j \in 1..(i - 1) : j \in 1..Len(a)
        BY <1>2, <2>1
      <4> QED BY <1>2, <1>i, <3>2, <4>1 DEF ToSet
    <3>4. x \notin Items(g)
      BY <1>8 DEF Items
    <3> QED BY <3>1, <3>3, <3>4
  <2> QED BY <1>8, <2>1, <2>2 DEF a
<1> QED
  BY <1>7, <1>8 DEF a

(* What comes out of each group are the rounds of its ports, in their      *)
(* order, with nothing missing but the sources that have ended; with the   *)
(* policy "all" the complete comes after everything that was sent.         *)
THEOREM RoundsInOrder == Spec => []MuxedInOrder
  BY OrderHolds, StreamsInOrder, PTL
=============================================================================
