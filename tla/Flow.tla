--------------------------------- MODULE Flow ---------------------------------
(***************************************************************************)
(* The streams that distribute_process splits over several workers and     *)
(* that collate_process puts together again (sprokit/processes/flow).      *)
(* Both serve any number of tags, one stream each, in one loop: a call on  *)
(* an edge of one tag blocks all of them.  Neither looks at stamps or      *)
(* counters: the streams stay in order only because both turn through      *)
(* their ports in the same way, told by the status edge from one to the    *)
(* other.  A step of the model is one call on an edge.                     *)
(***************************************************************************)
EXTENDS Naturals, Sequences, SequencesExt, Lists

CONSTANTS
  Tags,      \* the tags in the order of tag_data, a std::map
  Groups,    \* per tag, its dist ports and its coll ports, in order of connection
  Capacity,  \* the capacity of every edge
  MayStop,   \* the tags whose final reader may end before its input does
  Kinds,     \* per tag, what its source may send before "complete"
  MaxItems   \* bound: per tag, the items a source sends before "complete"

TagSet == {Tags[i] : i \in DOMAIN Tags}

(* _init wants two ports at least.  The ports are used in the order they   *)
(* were connected in, whatever their names, so the two processes must have *)
(* been connected alike.                                                   *)
ASSUME FlowAssumption ==
  /\ Tags \in Seq(TagSet) /\ Tags # <<>> /\ IsInjective(Tags)
  /\ \A t \in TagSet : /\ Groups[t] \in Seq(ToSet(Groups[t])) /\ Len(Groups[t]) >= 2
                       /\ IsInjective(Groups[t])
  /\ Capacity \in Nat \ {0} /\ MaxItems \in [TagSet -> Nat]
  /\ Kinds \in [TagSet -> SUBSET {"data", "flush"}]

Branches     == {b \in TagSet \X UNION {ToSet(Groups[t]) : t \in TagSet} :
                   b[2] \in ToSet(Groups[b[1]])}
Src(t)       == <<"src", t>>
Status(t)    == <<"status", t>>
Dist(b)      == <<"dist", b[1], b[2]>>
Coll(b)      == <<"coll", b[1], b[2]>>
Res(t)       == <<"res", t>>
OfTag(t)     == [i \in DOMAIN Groups[t] |-> <<t, Groups[t][i]>>]
DistInputs   == {Src(t) : t \in TagSet}
DistOutputs  == {Status(t) : t \in TagSet} \cup {Dist(b) : b \in Branches}
CollInputs   == {Status(t) : t \in TagSet} \cup {Coll(b) : b \in Branches}
CollOutputs  == {Res(t) : t \in TagSet}
Edges        == DistInputs \cup DistOutputs \cup CollInputs \cup CollOutputs

None == [type |-> "none", no |-> 0]

VARIABLES
  q,        \* per edge, its queue
  closed,   \* per edge, whether its reader is complete
  distrib,  \* distribute_process: see Loop
  collate,  \* collate_process: see Loop
  held,     \* per branch, the item its worker works on, or None
  ended,    \* the sources, workers and final readers that are complete
  sent,     \* history: per tag, the items of its source
  got       \* history: per tag, the items its final reader has seen

vars == <<q, closed, distrib, collate, held, ended, sent, got>>

(* The loop of _step over the tags: the tags left, the one whose turn it   *)
(* is, its calls that remain, the port each tag uses next, and the tags    *)
(* that were found complete in this _step.                                 *)
Loop == [tags |-> Tags, pos |-> 1, todo |-> <<>>, cur_port |-> [t \in TagSet |-> 1],
         complete_ports |-> {}, is_complete |-> FALSE]

Init ==
  /\ q = [e \in Edges |-> <<>>] /\ closed = [e \in Edges |-> FALSE]
  /\ distrib = Loop /\ collate = Loop
  /\ held = [b \in Branches |-> None]
  /\ ended = {}
  /\ sent = [t \in TagSet |-> <<>>] /\ got = [t \in TagSet |-> <<>>]

-----------------------------------------------------------------------------
Control(x) == x.type \in {"flush", "complete"}

(* edge::push_datum of x: ignored if the reader is complete.               *)
CanPush(e) == closed[e] \/ Len(q[e]) < Capacity
Pushed(e, x) == IF closed[e] THEN q ELSE [q EXCEPT ![e] = Append(@, x)]

(* mark_process_as_complete with these input edges.                        *)
Close(es) ==
  /\ closed' = [e \in Edges |-> closed[e] \/ e \in es]
  /\ q' = [e \in Edges |-> IF e \in es THEN <<>> ELSE q[e]]

Push(e, x)   == [op |-> "push", edge |-> e, item |-> x]
Grab(e)      == [op |-> "grab", edge |-> e, item |-> None]
Forward(e)   == [op |-> "forward", edge |-> e, item |-> None]

Turn(l)  == l.tags[l.pos]
Idle(l)  == ~l.is_complete /\ l.pos <= Len(l.tags) /\ l.todo = <<>>
Due(l)   == IF l.todo = <<>> THEN None.type ELSE Head(l.todo).op

(* The port of the next turn of the tag, if there is one.                  *)
Next_port(l, t, x) ==
  IF x.type = "complete" THEN l.cur_port[t] ELSE (l.cur_port[t] % Len(Groups[t])) + 1

(* What a turn does first: the datum x tells which calls follow.           *)
Started(l, x, calls) ==
  LET t == Turn(l)
  IN  [l EXCEPT !.todo = calls,
                !.cur_port[t] = Next_port(l, t, x),
                !.complete_ports = IF x.type = "complete" THEN @ \cup {t} ELSE @]

(* What follows a call: the rest of the turn, or the turn of the next tag. *)
Called(l, rest) ==
  [l EXCEPT !.todo = rest, !.pos = IF rest = <<>> THEN @ + 1 ELSE @]

-----------------------------------------------------------------------------
(* distribute_process::_step                                               *)

(* Mistake: complete goes to the status edge only.                         *)
DistributeCalls_Status(t, x) ==
  LET port == OfTag(t)[distrib.cur_port[t]]
  IN  IF x.type = "complete" THEN <<Push(Status(t), x)>>
      ELSE IF x.type = "flush"
      THEN <<Push(Status(t), x)>> \o [i \in DOMAIN OfTag(t) |-> Push(Dist(OfTag(t)[i]), x)]
      ELSE <<Push(Status(t), [x EXCEPT !.type = "empty"]), Push(Dist(port), x)>>

DistributeCalls(t, x) ==
  <<Push(Status(t), IF Control(x) THEN x ELSE [x EXCEPT !.type = "empty"])>> \o
  IF Control(x)
  THEN [i \in DOMAIN OfTag(t) |-> Push(Dist(OfTag(t)[i]), x)]
  ELSE <<Push(Dist(OfTag(t)[distrib.cur_port[t]]), x)>>

DistributeTurn ==
  /\ Idle(distrib)
  /\ LET t == Turn(distrib)
     IN  /\ q[Src(t)] # <<>>
         /\ q' = [q EXCEPT ![Src(t)] = Tail(@)]
         /\ distrib' = Started(distrib, Head(q[Src(t)]), DistributeCalls(t, Head(q[Src(t)])))
  /\ UNCHANGED <<closed, collate, held, ended, sent, got>>

(* Mistake: no room is waited for.                                         *)
DistributePush_NoWait ==
  /\ Due(distrib) = "push"
  /\ q' = Pushed(Head(distrib.todo).edge, Head(distrib.todo).item)
  /\ distrib' = Called(distrib, Tail(distrib.todo))
  /\ UNCHANGED <<closed, collate, held, ended, sent, got>>

DistributePush ==
  /\ Due(distrib) = "push"
  /\ CanPush(Head(distrib.todo).edge)
  /\ q' = Pushed(Head(distrib.todo).edge, Head(distrib.todo).item)
  /\ distrib' = Called(distrib, Tail(distrib.todo))
  /\ UNCHANGED <<closed, collate, held, ended, sent, got>>

(* The end of a _step and of process::step: the complete tags are erased;  *)
(* the process is complete when none is left, or when its readers all are. *)
Rest(l)      == Chosen(l.tags, ToSet(l.tags) \ l.complete_ports)
StepDone(l)  == ~l.is_complete /\ l.todo = <<>> /\ l.pos > Len(l.tags)
IsDone(l, outputs) == Rest(l) = <<>> \/ \A e \in outputs : closed[e]
NextStep(l, outputs) ==
  [l EXCEPT !.tags = Rest(l), !.pos = 1, !.complete_ports = {},
            !.is_complete = IsDone(l, outputs)]

DistributeEndStep ==
  /\ StepDone(distrib)
  /\ distrib' = NextStep(distrib, DistOutputs)
  /\ IF IsDone(distrib, DistOutputs) THEN Close(DistInputs) ELSE UNCHANGED <<q, closed>>
  /\ UNCHANGED <<collate, held, ended, sent, got>>

-----------------------------------------------------------------------------
(* collate_process::_step                                                  *)

(* Mistake: a flush is not taken from the coll ports.                      *)
CollateCalls_NoDrain(t, x) ==
  IF Control(x) THEN <<Push(Res(t), x)>> ELSE <<Forward(Coll(OfTag(t)[collate.cur_port[t]]))>>

CollateCalls(t, x) ==
  IF Control(x)
  THEN <<Push(Res(t), x)>> \o [i \in DOMAIN OfTag(t) |-> Grab(Coll(OfTag(t)[i]))]
  ELSE <<Forward(Coll(OfTag(t)[collate.cur_port[t]]))>>

(* Mistake: a flush starts again with the first coll port.                 *)
CollateTurn_Rewinds ==
  /\ Idle(collate)
  /\ LET t == Turn(collate)
         x == Head(q[Status(t)])
         l == Started(collate, x, CollateCalls(t, x))
     IN  /\ q[Status(t)] # <<>>
         /\ q' = [q EXCEPT ![Status(t)] = Tail(@)]
         /\ collate' = IF x.type = "flush" THEN [l EXCEPT !.cur_port[t] = 1] ELSE l
  /\ UNCHANGED <<closed, distrib, held, ended, sent, got>>

CollateTurn ==
  /\ Idle(collate)
  /\ LET t == Turn(collate)
     IN  /\ q[Status(t)] # <<>>
         /\ q' = [q EXCEPT ![Status(t)] = Tail(@)]
         /\ collate' = Started(collate, Head(q[Status(t)]), CollateCalls(t, Head(q[Status(t)])))
  /\ UNCHANGED <<closed, distrib, held, ended, sent, got>>

CollatePush ==
  /\ Due(collate) = "push"
  /\ CanPush(Head(collate.todo).edge)
  /\ q' = Pushed(Head(collate.todo).edge, Head(collate.todo).item)
  /\ collate' = Called(collate, Tail(collate.todo))
  /\ UNCHANGED <<closed, distrib, held, ended, sent, got>>

(* A datum of a coll port: dropped with a flush, else pushed on.  Its type *)
(* is not looked at.                                                       *)
CollateGrab ==
  /\ Due(collate) \in {"grab", "forward"}
  /\ LET e == Head(collate.todo).edge
     IN  /\ q[e] # <<>>
         /\ q' = [q EXCEPT ![e] = Tail(@)]
         /\ collate' =
              IF Due(collate) = "grab" THEN Called(collate, Tail(collate.todo))
              ELSE [collate EXCEPT !.todo = <<Push(Res(Turn(collate)), Head(q[e]))>>]
  /\ UNCHANGED <<closed, distrib, held, ended, sent, got>>

CollateEndStep ==
  /\ StepDone(collate)
  /\ collate' = NextStep(collate, CollOutputs)
  /\ IF IsDone(collate, CollOutputs) THEN Close(CollInputs) ELSE UNCHANGED <<q, closed>>
  /\ UNCHANGED <<distrib, held, ended, sent, got>>

-----------------------------------------------------------------------------
(* The processes around them: one source and one final reader for a tag,   *)
(* one worker for a branch, all driven by process::step.                   *)

SourcePush(t) ==
  /\ Src(t) \notin ended
  /\ \E k \in IF Len(sent[t]) < MaxItems[t] THEN Kinds[t] \cup {"complete"} ELSE {"complete"} :
       LET x == [type |-> k, no |-> Len(sent[t]) + 1]
       IN  /\ CanPush(Src(t))
           /\ q' = Pushed(Src(t), x)
           /\ sent' = [sent EXCEPT ![t] = Append(@, x)]
           /\ ended' = IF k = "complete" \/ closed[Src(t)] THEN ended \cup {Src(t)} ELSE ended
  /\ UNCHANGED <<closed, distrib, collate, held, got>>

WorkerGrab(b) ==
  /\ Dist(b) \notin ended /\ held[b] = None /\ q[Dist(b)] # <<>>
  /\ held' = [held EXCEPT ![b] = Head(q[Dist(b)])]
  /\ q' = [q EXCEPT ![Dist(b)] = Tail(@)]
  /\ UNCHANGED <<closed, distrib, collate, ended, sent, got>>

WorkerPush(b) ==
  /\ held[b] # None
  /\ CanPush(Coll(b))
  /\ held' = [held EXCEPT ![b] = None]
  /\ IF held[b].type = "complete" \/ closed[Coll(b)]
     THEN /\ ended' = ended \cup {Dist(b)}
          /\ closed' = [closed EXCEPT ![Dist(b)] = TRUE]
          /\ q' = [Pushed(Coll(b), held[b]) EXCEPT ![Dist(b)] = <<>>]
     ELSE /\ q' = Pushed(Coll(b), held[b])
          /\ UNCHANGED <<ended, closed>>
  /\ UNCHANGED <<distrib, collate, sent, got>>

(* A reader ends with its stream, or in a _step that decides so.           *)
Read(t, ends) ==
  /\ Res(t) \notin ended /\ q[Res(t)] # <<>>
  /\ got' = [got EXCEPT ![t] = Append(@, Head(q[Res(t)]))]
  /\ IF ends
     THEN ended' = ended \cup {Res(t)} /\ Close({Res(t)})
     ELSE q' = [q EXCEPT ![Res(t)] = Tail(@)] /\ UNCHANGED <<ended, closed>>
  /\ UNCHANGED <<distrib, collate, held, sent>>

ReaderGrab(t) == q[Res(t)] # <<>> /\ Read(t, Head(q[Res(t)]).type = "complete")
ReaderStop(t) == t \in MayStop /\ Read(t, TRUE)

AllEnded ==
  /\ distrib.is_complete /\ collate.is_complete
  /\ ended = DistInputs \cup CollOutputs \cup {Dist(b) : b \in Branches}

Joined == AllEnded /\ UNCHANGED vars

Distribute == DistributeTurn \/ DistributePush \/ DistributeEndStep
Collate    == CollateTurn \/ CollatePush \/ CollateGrab \/ CollateEndStep
Worker(b)  == WorkerGrab(b) \/ WorkerPush(b)

Progress ==
  \/ Distribute \/ Collate
  \/ \E t \in TagSet : SourcePush(t) \/ ReaderGrab(t)
  \/ \E b \in Branches : Worker(b)

Next == Progress \/ (\E t \in TagSet : ReaderStop(t)) \/ Joined

Spec == Init /\ [][Next]_vars

(* Each process has its thread.  All that is assumed is that one of those  *)
(* that can go on does; a final reader need not end early.                 *)
FairSpec == Spec /\ WF_vars(Progress)

-----------------------------------------------------------------------------
Items == [type : {"data", "empty", "flush", "complete"}, no : Nat \ {0}]

(* The types, the bound of the edges and the ranges of the iterators.      *)
TypeOK ==
  /\ \A e \in Edges : q[e] \in Seq(Items) /\ Len(q[e]) <= Capacity /\ closed[e] \in BOOLEAN
  /\ held \in [Branches -> Items \cup {None}]
  /\ ended \subseteq DistInputs \cup CollOutputs \cup {Dist(b) : b \in Branches}
  /\ \A l \in {distrib, collate} :
       /\ l.pos \in 1..(Len(l.tags) + 1)
       /\ l.complete_ports \subseteq ToSet(l.tags)
       /\ \A t \in TagSet : l.cur_port[t] \in DOMAIN Groups[t]

(* What comes out of collate is what went into distribute, in its order:   *)
(* no worker, however slow, makes a datum pass another, a flush or the     *)
(* complete of its stream; none is lost or doubled, nor comes out under    *)
(* another tag.                                                            *)
OrderRestored == \A t \in TagSet : IsPrefix(got[t], sent[t])

OnItsWay(b) ==
  LET onBranch == q[Coll(b)] \o (IF held[b] = None THEN <<>> ELSE <<held[b]>>) \o q[Dist(b)]
      coming   == Chosen(distrib.todo, {c \in ToSet(distrib.todo) : c.edge = Dist(b)})
  IN  onBranch \o [i \in DOMAIN coming |-> coming[i].item]

(* When collate waits on a coll port for the datum that the status edge    *)
(* announced, a datum is the next item of that very branch, or distribute  *)
(* is about to push it there; when it drains the port, a control datum is. *)
(* If the iterators of the two processes ever disagreed it would wait for  *)
(* a worker that has nothing to do.                                        *)
NeverWaitsInVain ==
  \A b \in Branches :
    (Due(collate) \in {"grab", "forward"} /\ Head(collate.todo).edge = Coll(b)) =>
      /\ OnItsWay(b) # <<>>
      /\ Control(Head(OnItsWay(b))) <=> Due(collate) = "grab"

(* Every process ends when the sources do, though one slow tag or one slow *)
(* worker blocks all the tags of distribute and collate for a while, and   *)
(* though the reader of a tag may end before its stream does.              *)
Terminates == <>AllEnded
=============================================================================
