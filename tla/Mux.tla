---------------------------------- MODULE Mux ----------------------------------
(***************************************************************************)
(* mux_process (sprokit/processes/flow): the inputs of each group are read *)
(* in turns and written to the one output of the group.  All the groups    *)
(* share a loop, one input per group in a _step, and a source may feed     *)
(* several groups: a call on an edge that blocks holds all of them.  The   *)
(* process checks no data (check_none), so it sees every control datum.    *)
(* A step of the model is one call on an edge.                             *)
(***************************************************************************)
EXTENDS Naturals, Sequences, SequencesExt, Lists

CONSTANTS
  Groups,    \* the groups in the order of group_data, a std::map
  Ports,     \* per group, the sources of its ports in the order _init sorts them
  Policies,  \* the values of termination_policy, some of "any" and "all"
  Capacity,  \* the capacity of every edge
  Kinds,     \* what a source may send before "complete"
  MaxItems,  \* bound: per source, the items before "complete"
  MayStop    \* the groups whose reader may end before its input does

GroupSet == ToSet(Groups)
Sources  == UNION {ToSet(Ports[g]) : g \in GroupSet}

(* _init wants two ports in each group.  Each port of a group of n ports   *)
(* gets the frequency 1/n, so that pipeline set-up rejects a source that   *)
(* feeds groups of different sizes.                                        *)
ASSUME MuxAssumption ==
  /\ Groups \in Seq(GroupSet) /\ IsInjective(Groups) /\ Ports \in [GroupSet -> Seq(Sources)]
  /\ \A g \in GroupSet : IsInjective(Ports[g]) /\ Len(Ports[g]) >= 2
  /\ \A s \in Sources : \A g, h \in GroupSet :
       (s \in ToSet(Ports[g]) /\ s \in ToSet(Ports[h])) => Len(Ports[g]) = Len(Ports[h])
  /\ Policies \subseteq {"any", "all"} /\ Capacity \in Nat \ {0}

In(g, s) == <<"in", g, s>>
Res(g)   == <<"res", g>>
Inputs   == {<<"in", g, s>> : g \in GroupSet, s \in Sources}
Edges    == Inputs \cup {Res(g) : g \in GroupSet}

(* The groups a source feeds, in the order of their edges.                 *)
Fed(s) == Chosen(Groups, {g \in GroupSet : s \in ToSet(Ports[g])})

VARIABLES
  policy,  \* m_config_term_policy
  q,       \* per edge, its queue
  closed,  \* per edge, whether its reader is complete
  groups,  \* group_data: the groups left
  pos,     \* the place in the loop over them
  ports,   \* per group, the ports left
  cur_port, \* per group, the place of the port whose turn it is
  todo,    \* the calls on edges that remain of this turn
  complete_ports, \* the groups found complete in this _step
  is_complete,    \* whether mux is complete
  out,     \* per source, its pushes that remain of this step
  sent,    \* per source, the items it has begun to send
  ended,   \* the sources that are complete
  left,    \* the groups whose readers are complete
  got      \* history: per group, the items its reader has seen

muxVars == <<policy, groups, pos, ports, cur_port, todo, complete_ports, is_complete>>
vars    == <<q, closed, muxVars, out, sent, ended, left, got>>

Init ==
  /\ policy \in Policies
  /\ q = [e \in Edges |-> <<>>] /\ closed = [e \in Edges |-> FALSE]
  /\ groups = Groups /\ pos = 1 /\ ports = Ports
  /\ cur_port = [g \in GroupSet |-> 1]
  /\ todo = <<>> /\ complete_ports = {} /\ is_complete = FALSE
  /\ out = [s \in Sources |-> <<>>] /\ sent = [s \in Sources |-> <<>>]
  /\ ended = {} /\ left = {}
  /\ got = [g \in GroupSet |-> <<>>]

-----------------------------------------------------------------------------
CanPush(e)   == closed[e] \/ Len(q[e]) < Capacity
Pushed(e, x) == IF closed[e] THEN q ELSE [q EXCEPT ![e] = Append(@, x)]
Close(es) ==
  /\ closed' = [e \in Edges |-> closed[e] \/ e \in es]
  /\ q' = [e \in Edges |-> IF e \in es THEN <<>> ELSE q[e]]

Push(e, x) == [op |-> "push", edge |-> e, item |-> x]
Grab(e, x) == [op |-> "grab", edge |-> e, item |-> x]

(* The turn of a group goes on with these calls, then that of the next.    *)
GoOn(calls) == todo' = calls /\ pos' = IF calls = <<>> THEN pos + 1 ELSE pos

MyTurn   == ~is_complete /\ todo = <<>> /\ pos <= Len(groups)
Group    == groups[pos]
Port     == In(Group, ports[Group][cur_port[Group]])
PortHead == Head(q[Port])
Advance(k, n) == (k % n) + 1

(* Data, and any control datum but complete, are passed on.                *)
TurnData ==
  /\ MyTurn /\ q[Port] # <<>> /\ PortHead.type # "complete"
  /\ q' = [q EXCEPT ![Port] = Tail(@)]
  /\ GoOn(<<Push(Res(Group), PortHead)>>)
  /\ cur_port' = [cur_port EXCEPT ![Group] = Advance(@, Len(ports[Group]))]
  /\ UNCHANGED <<policy, closed, groups, ports, complete_ports, is_complete, out, sent, ended, left, got>>

(* Mistake: the place is moved although the port is erased.                *)
TurnCompleteAll_Skips ==
  /\ MyTurn /\ policy = "all" /\ q[Port] # <<>> /\ PortHead.type = "complete"
  /\ q' = [q EXCEPT ![Port] = Tail(@)]
  /\ LET rest == RemoveAt(ports[Group], cur_port[Group])
     IN  /\ ports' = [ports EXCEPT ![Group] = rest]
         /\ cur_port' = [cur_port EXCEPT ![Group] = IF @ < Len(rest) THEN @ + 1 ELSE 1]
         /\ IF rest = <<>>
            THEN /\ complete_ports' = complete_ports \cup {Group}
                 /\ GoOn(<<Push(Res(Group), PortHead)>>)
            ELSE UNCHANGED complete_ports /\ GoOn(<<>>)
  /\ UNCHANGED <<policy, closed, groups, is_complete, out, sent, ended, left, got>>

(* Mistake: the output of the group is not told.                           *)
TurnCompleteAll_Silent ==
  /\ MyTurn /\ policy = "all" /\ q[Port] # <<>> /\ PortHead.type = "complete"
  /\ q' = [q EXCEPT ![Port] = Tail(@)]
  /\ LET rest == RemoveAt(ports[Group], cur_port[Group])
     IN  /\ ports' = [ports EXCEPT ![Group] = rest]
         /\ cur_port' = [cur_port EXCEPT ![Group] = IF @ > Len(rest) THEN 1 ELSE @]
         /\ complete_ports' = IF rest = <<>> THEN complete_ports \cup {Group} ELSE complete_ports
         /\ GoOn(<<>>)
  /\ UNCHANGED <<policy, closed, groups, is_complete, out, sent, ended, left, got>>

(* Policy "all": the port is erased; the group is complete with its last.  *)
TurnCompleteAll ==
  /\ MyTurn /\ policy = "all" /\ q[Port] # <<>> /\ PortHead.type = "complete"
  /\ q' = [q EXCEPT ![Port] = Tail(@)]
  /\ LET rest == RemoveAt(ports[Group], cur_port[Group])
     IN  /\ ports' = [ports EXCEPT ![Group] = rest]
         /\ cur_port' = [cur_port EXCEPT ![Group] = IF @ > Len(rest) THEN 1 ELSE @]
         /\ IF rest = <<>>
            THEN /\ complete_ports' = complete_ports \cup {Group}
                 /\ GoOn(<<Push(Res(Group), PortHead)>>)
            ELSE UNCHANGED complete_ports /\ GoOn(<<>>)
  /\ UNCHANGED <<policy, closed, groups, is_complete, out, sent, ended, left, got>>

(* Policy "any": one datum is taken from every port of the group, also     *)
(* from the one that has just ended.                                       *)
TurnCompleteAny ==
  /\ MyTurn /\ policy = "any" /\ q[Port] # <<>> /\ PortHead.type = "complete"
  /\ q' = [q EXCEPT ![Port] = Tail(@)]
  /\ complete_ports' = complete_ports \cup {Group}
  /\ GoOn([i \in DOMAIN ports[Group] |-> Grab(In(Group, ports[Group][i]), PortHead)]
            \o <<Push(Res(Group), PortHead)>>)
  /\ UNCHANGED <<policy, closed, groups, ports, cur_port, is_complete, out, sent, ended, left, got>>

MuxGrab ==
  /\ todo # <<>> /\ Head(todo).op = "grab" /\ q[Head(todo).edge] # <<>>
  /\ q' = [q EXCEPT ![Head(todo).edge] = Tail(@)]
  /\ GoOn(Tail(todo))
  /\ UNCHANGED <<policy, closed, groups, ports, cur_port, complete_ports, is_complete, out, sent, ended, left, got>>

MuxPush ==
  /\ todo # <<>> /\ Head(todo).op = "push" /\ CanPush(Head(todo).edge)
  /\ q' = Pushed(Head(todo).edge, Head(todo).item)
  /\ GoOn(Tail(todo))
  /\ UNCHANGED <<policy, closed, groups, ports, cur_port, complete_ports, is_complete, out, sent, ended, left, got>>

(* The end of _step and of process::step: without a group left mux is      *)
(* complete, and so it is when all its readers are.                        *)
StepDone == ~is_complete /\ todo = <<>> /\ pos > Len(groups)
Left     == Chosen(groups, ToSet(groups) \ complete_ports)

IsDone == Left = <<>> \/ \A g \in GroupSet : closed[Res(g)]

MuxEndStep ==
  /\ StepDone
  /\ groups' = Left /\ pos' = 1 /\ complete_ports' = {}
  /\ is_complete' = IsDone
  /\ IF IsDone THEN Close(Inputs) ELSE UNCHANGED <<q, closed>>
  /\ UNCHANGED <<policy, ports, cur_port, todo, out, sent, ended, left, got>>

-----------------------------------------------------------------------------
(* The processes around it, driven by process::step.                       *)

SourceStep(s) ==
  /\ s \notin ended /\ out[s] = <<>>
  /\ \E k \in (IF Len(sent[s]) < MaxItems[s] THEN Kinds ELSE {}) \cup {"complete"} :
       LET x == [type |-> k, src |-> s, no |-> Len(sent[s]) + 1]
       IN  /\ sent' = [sent EXCEPT ![s] = Append(@, x)]
           /\ out' = [out EXCEPT ![s] = [i \in DOMAIN Fed(s) |-> Push(In(Fed(s)[i], s), x)]]
  /\ UNCHANGED <<q, closed, muxVars, ended, left, got>>

SourcePush(s) ==
  /\ out[s] # <<>> /\ CanPush(Head(out[s]).edge)
  /\ q' = Pushed(Head(out[s]).edge, Head(out[s]).item)
  /\ out' = [out EXCEPT ![s] = Tail(@)]
  /\ ended' = IF Len(out[s]) = 1
                 /\ (Head(out[s]).item.type = "complete" \/ closed[Head(out[s]).edge])
              THEN ended \cup {s} ELSE ended
  /\ UNCHANGED <<closed, muxVars, sent, left, got>>

(* A reader ends with its stream, or in a _step that decides so.           *)
Read(g) ==
  /\ g \notin left /\ q[Res(g)] # <<>>
  /\ got' = [got EXCEPT ![g] = Append(@, Head(q[Res(g)]))]
  /\ \/ /\ Head(q[Res(g)]).type = "complete" \/ g \in MayStop
        /\ left' = left \cup {g}
        /\ Close({Res(g)})
     \/ /\ Head(q[Res(g)]).type # "complete"
        /\ q' = [q EXCEPT ![Res(g)] = Tail(@)]
        /\ UNCHANGED <<left, closed>>
  /\ UNCHANGED <<muxVars, out, sent, ended>>

AllEnded == is_complete /\ ended = Sources /\ left = GroupSet
Joined   == AllEnded /\ UNCHANGED vars

MuxNext == TurnData \/ TurnCompleteAll \/ TurnCompleteAny \/ MuxGrab \/ MuxPush \/ MuxEndStep

Progress ==
  \/ MuxNext
  \/ \E s \in Sources : SourceStep(s) \/ SourcePush(s)
  \/ \E g \in GroupSet : Read(g)

Next == Progress \/ Joined

Spec == Init /\ [][Next]_vars

(* Each process has its thread; one of those that can go on does.          *)
FairSpec == Spec /\ WF_vars(Progress)

-----------------------------------------------------------------------------
Place(g, s) == CHOOSE i \in DOMAIN Ports[g] : Ports[g][i] = s

(* x belongs before y in the stream of g: an earlier round, or a port that *)
(* comes first in the same round.                                          *)
Before(g, x, y) ==
  x.no < y.no \/ (x.no = y.no /\ Place(g, x.src) < Place(g, y.src))

Items(g) == {x \in UNION {ToSet(sent[s]) : s \in ToSet(Ports[g])} : x.type # "complete"}

(* Each group comes out as its reader expects it: in rounds, the ports in  *)
(* their order, where a source that has ended is left out from then on and *)
(* nothing is missing; the groups do not mix although they share sources.  *)
(* The complete comes when all the sources have ended.                     *)
MuxedInOrder ==
  \A g \in GroupSet : \A i \in DOMAIN got[g] :
    LET x == got[g][i]
    IN  IF x.type = "complete"
        THEN i = Len(got[g]) /\ (policy = "all" => ToSet(got[g]) \ {x} = Items(g))
        ELSE {got[g][j] : j \in 1..(i - 1)} = {y \in Items(g) : Before(g, y, x)}

(* When the sources end, mux and the readers do, also when a reader ends   *)
(* before, and for sources of different lengths that feed several groups   *)
(* in different orders, over edges of one datum.                           *)
Terminates == policy = "all" => <>AllEnded

(* "When any is specified, the output port for the group will complete     *)
(* when any of the inputs completes" (mux_process.cxx:164): each reader    *)
(* comes to the end of its stream.                                         *)
AnyCompletes == policy = "any" => <>(left = GroupSet)
=============================================================================
