------------------------------ MODULE Dataflow ------------------------------
(***************************************************************************)
(* A running pipeline: process::step (sprokit/pipeline/process.cxx) in one *)
(* thread per process, as thread_per_process_scheduler::run_process drives *)
(* it, over edges that behave as EdgeSpec says.  The topology, the port    *)
(* frequencies and the core frequencies are those that setup_pipeline has  *)
(* checked.                                                                *)
(*                                                                         *)
(* A step of the model is one call on an edge that may block, or the       *)
(* decision at the start or at the end of process::step.  Reading all the  *)
(* required inputs is one step, because what has been peeked stays at the  *)
(* head of its edge (EdgeProofs, PeekTheorem); a push is one step, because *)
(* what reaches an edge after its completion is never read.                *)
(***************************************************************************)
EXTENDS Naturals, Sequences, FiniteSets, Lists

CONSTANTS
  Procs,       \* the processes of the pipeline
  Edges,       \* the edges
  Inputs,      \* per process, the edges of its input ports, in port order
  Outputs,     \* per process, its output ports: [edges, freq, required]
  InFreq,      \* per edge, the frequency of the input port it feeds
  Required,    \* the edges whose input port has flag_required
  Core,        \* per process, its core frequency
  Capacity,    \* per edge, its capacity
  MayStop,     \* the processes whose _step may end the process by itself
  SourceKinds, \* what a process without inputs may push besides data
  MaxSteps     \* bound: the steps of a process without inputs

InputSet(p)  == {Inputs[p][i] : i \in DOMAIN Inputs[p]}
PortEdges(o) == {o.edges[i] : i \in DOMAIN o.edges}
OutputSet(p) == UNION {PortEdges(Outputs[p][i]) : i \in DOMAIN Outputs[p]}
Up(e)        == CHOOSE p \in Procs : e \in OutputSet(p)
Down(e)      == CHOOSE p \in Procs : e \in InputSet(p)

(* The ports, and edges that each lead from one port to one port.           *)
ASSUME TopologyAssumption ==
  /\ Procs # {} /\ Core \in [Procs -> Nat \ {0}]
  /\ Inputs \in [Procs -> Seq(Edges)]
  /\ Outputs \in [Procs -> Seq([edges : Seq(Edges), freq : Nat \ {0}, required : BOOLEAN])]
  /\ \A p \in Procs : \A i, j \in DOMAIN Inputs[p] : Inputs[p][i] = Inputs[p][j] => i = j
  /\ \A p \in Procs : \A i \in DOMAIN Outputs[p] : \A j, l \in DOMAIN Outputs[p][i].edges :
       Outputs[p][i].edges[j] = Outputs[p][i].edges[l] => j = l
  /\ \A p \in Procs : \A i, h \in DOMAIN Outputs[p] :
       i # h => PortEdges(Outputs[p][i]) \cap PortEdges(Outputs[p][h]) = {}
  /\ \A p, r \in Procs :
       p # r => InputSet(p) \cap InputSet(r) = {} /\ OutputSet(p) \cap OutputSet(r) = {}
  /\ \A e \in Edges : \E p, r \in Procs : e \in OutputSet(p) /\ e \in InputSet(r)

(* What setup_pipeline has established.  An edge that cannot hold what one *)
(* step of its reader needs would block it for ever.                       *)
ASSUME DataflowAssumption ==
  /\ InFreq \in [Edges -> Nat \ {0}] /\ Capacity \in [Edges -> Nat]
  /\ \A e \in Edges : Capacity[e] > 0 => InFreq[e] <= Capacity[e]
  /\ \A p \in Procs : \A i \in DOMAIN Outputs[p] : \A e \in PortEdges(Outputs[p][i]) :
        Core[p] * Outputs[p][i].freq = Core[Down(e)] * InFreq[e]
  /\ SourceKinds \subseteq {"empty", "flush"} /\ MaxSteps \in Nat

VARIABLES
  q,            \* per edge, its queue
  closed,       \* per edge, edge::priv::downstream_complete
  pc,           \* per process: "top", "busy" in a step, "exited"
  todo,         \* per process, the calls on edges that remain in this step
  verdict,      \* per process, what check_required_input returned
  is_complete,  \* per process, process::priv::is_complete
  stamp,        \* per process and output port, the next stamp
  steps,        \* per process, how often _step was called
  sent,         \* history: per edge, the data stored in it
  processed,    \* history: per edge, the data handed to _step
  wasted        \* history: per process, its _step calls that nobody reads

vars == <<q, closed, pc, todo, verdict, is_complete, stamp, steps, sent,
          processed, wasted>>

(* The order of datum::type_t; "none" stands for the null datum of a check *)
(* that found real data everywhere.                                        *)
Types == {"data", "empty", "error", "flush", "complete"}
Rank  == [data |-> 0, empty |-> 1, error |-> 2, flush |-> 3, complete |-> 4]

Data     == [type : Types, stamp : Nat]
Calls(p) == [op : {"grab"}, edge : InputSet(p)]
              \cup [op : {"push"}, edge : OutputSet(p), datum : Data]

(* The processes of P run; any others of Procs have ended.                 *)
InitOf(P) ==
  /\ q = [e \in Edges |-> <<>>] /\ closed = [e \in Edges |-> Down(e) \notin P]
  /\ pc = [p \in Procs |-> IF p \in P THEN "top" ELSE "exited"]
  /\ todo = [p \in Procs |-> <<>>]
  /\ verdict = [p \in Procs |-> "none"]
  /\ is_complete = [p \in Procs |-> p \notin P]
  /\ stamp = [p \in Procs |-> [i \in DOMAIN Outputs[p] |-> 0]]
  /\ steps = [p \in Procs |-> 0]
  /\ sent = [e \in Edges |-> 0] /\ processed = [e \in Edges |-> 0]
  /\ wasted = [p \in Procs |-> 0]

Init == InitOf(Procs)

-----------------------------------------------------------------------------
(* check_required_input.                                                   *)

RequiredInputs(p) == InputSet(p) \cap Required

(* All that a step takes from an edge is there: its frequency of data, or  *)
(* a flush or complete in front.                                           *)
Available(e) ==
  /\ q[e] # <<>>
  /\ Rank[Head(q[e]).type] >= Rank["flush"] \/ Len(q[e]) >= InFreq[e]

(* Mistake: the frequency is read even after a flush or a complete.        *)
Taken_NoBreak(e) == IF Len(q[e]) < InFreq[e] THEN Len(q[e]) ELSE InFreq[e]

Taken(e) == IF Rank[Head(q[e]).type] >= Rank["flush"] THEN 1 ELSE InFreq[e]

(* edge_data_info over what is taken, at check_valid.                      *)
check_required_input(p) ==
  LET seen == UNION {{q[e][i].type : i \in 1..Taken(e)} : e \in RequiredInputs(p)}
      max  == CHOOSE t \in seen : \A u \in seen : Rank[u] <= Rank[t]
  IN  IF RequiredInputs(p) = {} THEN "none"
      ELSE IF \E e, f \in RequiredInputs(p) : Head(q[e]).stamp # Head(q[f]).stamp
      THEN "error"
      ELSE IF max = "data" THEN "none" ELSE max

(* The calls of grab_from_input_edges, one for each input port.            *)
Grabs(p) == [i \in DOMAIN Inputs[p] |-> [op |-> "grab", edge |-> Inputs[p][i]]]

(* Mistake: the core frequency of the process is left out.                 *)
Increment_NoCore(p, i) == Outputs[p][i].freq

(* make_output_stamps gives a port's stamp this increment.                 *)
Increment(p, i) == Core[p] * Outputs[p][i].freq

(* push_to_output_edges: a flush or complete once, anything else as often  *)
(* as the frequency of the port says, each datum to every edge of the port.*)
(* Mistake: a control datum is repeated like the others.                   *)
Times_Repeated(p, i, t) == Outputs[p][i].freq

Times(p, i, t) == IF Rank[t] >= Rank["flush"] THEN 1 ELSE Outputs[p][i].freq

PortPushes(p, i, t) ==
  LET es == Outputs[p][i].edges
  IN  Concat([r \in 1..Times(p, i, t) |->
        [j \in DOMAIN es |->
          [op |-> "push", edge |-> es[j],
           datum |-> [type |-> t, stamp |-> stamp[p][i] + (r - 1) * Increment(p, i)]]]])

Pushes(p, t) == Concat([i \in DOMAIN Outputs[p] |-> PortPushes(p, i, t)])

StampsAfter(p, t) ==
  [stamp EXCEPT ![p] = [i \in DOMAIN Outputs[p] |-> @[i] + Times(p, i, t) * Increment(p, i)]]

(* mark_process_as_complete: no input of the process takes data any more.  *)
(* Mistake: the input edges are not told.                                  *)
ClosedBy_None(p) == closed

ClosedBy(p)     == [e \in Edges |-> closed[e] \/ e \in InputSet(p)]
Emptied(p)      == [e \in Edges |-> IF e \in InputSet(p) THEN <<>> ELSE q[e]]

(* All edges of all output ports with flag_required are complete, and      *)
(* there is such a port.                                                   *)
OutputsDone(p) ==
  LET ports == {i \in DOMAIN Outputs[p] : Outputs[p][i].required}
  IN  /\ ports # {}
      /\ \A i \in ports : \A e \in PortEdges(Outputs[p][i]) : closed[e]

(* A mistake the run with an early end must notice: nobody tells the       *)
(* upstream process that it works for no one.                              *)
required_outputs_done_Never(p) == FALSE

required_outputs_done(p) == OutputsDone(p)

-----------------------------------------------------------------------------
Begin(p) == pc[p] = "top" /\ pc' = [pc EXCEPT ![p] = "busy"]

(* Mistake: the last of the data is not forwarded.                         *)
Propagate_Silently(p) ==
  /\ Begin(p) /\ ~is_complete[p]
  /\ \A e \in RequiredInputs(p) : Available(e)
  /\ check_required_input(p) # "none"
  /\ verdict' = [verdict EXCEPT ![p] = check_required_input(p)]
  /\ todo' = [todo EXCEPT ![p] = Grabs(p)]
  /\ UNCHANGED <<q, closed, is_complete, stamp, steps, sent, processed, wasted>>

(* A control datum on the required inputs: absorb it from all the inputs   *)
(* and force it on all the outputs.                                        *)
Propagate(p) ==
  /\ Begin(p) /\ ~is_complete[p]
  /\ \A e \in RequiredInputs(p) : Available(e)
  /\ check_required_input(p) # "none"
  /\ LET t == check_required_input(p)
     IN  /\ verdict' = [verdict EXCEPT ![p] = t]
         /\ todo' = [todo EXCEPT ![p] = Grabs(p) \o Pushes(p, t)]
         /\ stamp' = StampsAfter(p, t)
  /\ UNCHANGED <<q, closed, is_complete, steps, sent, processed, wasted>>

(* The _step of a subclass: one datum set in, one out.                     *)
Step(p) ==
  /\ Begin(p) /\ ~is_complete[p]
  /\ \A e \in RequiredInputs(p) : Available(e)
  /\ check_required_input(p) = "none"
  /\ Inputs[p] = <<>> => steps[p] < MaxSteps
  /\ steps' = [steps EXCEPT ![p] = IF Inputs[p] = <<>> THEN @ + 1 ELSE @]
  /\ verdict' = [verdict EXCEPT ![p] = "none"]
  /\ \E t \in {"data"} \cup (IF Inputs[p] = <<>> THEN SourceKinds ELSE {}) :
       /\ todo' = [todo EXCEPT ![p] = Grabs(p) \o Pushes(p, t)]
       /\ stamp' = StampsAfter(p, t)
  /\ wasted' = [wasted EXCEPT ![p] = IF OutputsDone(p) THEN @ + 1 ELSE @]
  /\ UNCHANGED <<q, closed, is_complete, sent, processed>>

(* A _step that decides that the process is at its end: it marks it as     *)
(* complete and pushes complete on each output port (number_process).      *)
StepAndStop(p) ==
  /\ Begin(p) /\ ~is_complete[p]
  /\ \A e \in RequiredInputs(p) : Available(e)
  /\ check_required_input(p) = "none"
  /\ p \in MayStop \/ (Inputs[p] = <<>> /\ steps[p] = MaxSteps)
  /\ is_complete' = [is_complete EXCEPT ![p] = TRUE]
  /\ closed' = ClosedBy(p)
  /\ q' = Emptied(p)
  /\ verdict' = [verdict EXCEPT ![p] = "none"]
  /\ todo' = [todo EXCEPT ![p] = Pushes(p, "complete")]
  /\ stamp' = StampsAfter(p, "complete")
  /\ UNCHANGED <<steps, sent, processed, wasted>>

(* "Process ... is being stepped after completion".                        *)
StepAfterCompletion(p) ==
  /\ Begin(p) /\ is_complete[p]
  /\ verdict' = [verdict EXCEPT ![p] = "none"]
  /\ UNCHANGED <<q, closed, todo, is_complete, stamp, steps, sent, processed, wasted>>

Grab(p) ==
  /\ pc[p] = "busy" /\ todo[p] # <<>> /\ Head(todo[p]).op = "grab"
  /\ LET e == Head(todo[p]).edge
     IN  /\ Available(e)
         /\ q' = [q EXCEPT ![e] = SubSeq(@, Taken(e) + 1, Len(@))]
         /\ processed' = [processed EXCEPT ![e] =
              IF verdict[p] = "none" THEN @ + Taken(e) ELSE @]
  /\ todo' = [todo EXCEPT ![p] = Tail(@)]
  /\ UNCHANGED <<closed, pc, verdict, is_complete, stamp, steps, sent, wasted>>

(* Mistake: the space of the edge is not waited for.                       *)
Push_NoWait(p) ==
  /\ pc[p] = "busy" /\ todo[p] # <<>> /\ Head(todo[p]).op = "push"
  /\ q' = [q EXCEPT ![Head(todo[p]).edge] = Append(@, Head(todo[p]).datum)]
  /\ todo' = [todo EXCEPT ![p] = Tail(@)]
  /\ UNCHANGED <<closed, pc, verdict, is_complete, stamp, steps, sent, processed, wasted>>

(* Mistake: a complete datum takes the place of the data that wait.        *)
Push_CompleteFlushes(p) ==
  /\ pc[p] = "busy" /\ todo[p] # <<>> /\ Head(todo[p]).op = "push"
  /\ LET e == Head(todo[p]).edge
         d == Head(todo[p]).datum
         kept == IF d.type = "complete" THEN <<>> ELSE q[e]
     IN  /\ closed[e] \/ Capacity[e] = 0 \/ Len(kept) < Capacity[e]
         /\ q' = [q EXCEPT ![e] = IF closed[e] THEN @ ELSE Append(kept, d)]
         /\ sent' = [sent EXCEPT ![e] = IF ~closed[e] /\ d.type = "data" THEN @ + 1 ELSE @]
  /\ todo' = [todo EXCEPT ![p] = Tail(@)]
  /\ UNCHANGED <<closed, pc, verdict, is_complete, stamp, steps, processed, wasted>>

(* edge::push_datum: ignored on a complete edge, else it waits for space.  *)
Push(p) ==
  /\ pc[p] = "busy" /\ todo[p] # <<>> /\ Head(todo[p]).op = "push"
  /\ LET e == Head(todo[p]).edge
         d == Head(todo[p]).datum
     IN  IF closed[e]
         THEN UNCHANGED <<q, sent>>
         ELSE /\ Capacity[e] = 0 \/ Len(q[e]) < Capacity[e]
              /\ q' = [q EXCEPT ![e] = Append(@, d)]
              /\ sent' = [sent EXCEPT ![e] = IF d.type = "data" THEN @ + 1 ELSE @]
  /\ todo' = [todo EXCEPT ![p] = Tail(@)]
  /\ UNCHANGED <<closed, pc, verdict, is_complete, stamp, steps, processed, wasted>>

(* The end of process::step.  The heartbeat says complete if the process   *)
(* was marked before it, and so does the complete datum that Propagate     *)
(* forces on every output port; run_process then leaves its loop.          *)
EndStep(p) ==
  /\ pc[p] = "busy" /\ todo[p] = <<>>
  /\ pc' = [pc EXCEPT ![p] = IF is_complete[p] \/ verdict[p] = "complete" THEN "exited" ELSE "top"]
  /\ IF verdict[p] = "complete" \/ required_outputs_done(p)
     THEN /\ is_complete' = [is_complete EXCEPT ![p] = TRUE]
          /\ closed' = ClosedBy(p)
          /\ q' = Emptied(p)
     ELSE UNCHANGED <<is_complete, closed, q>>
  /\ UNCHANGED <<todo, verdict, stamp, steps, sent, processed, wasted>>

AllExited == \A p \in Procs : pc[p] = "exited"

(* The scheduler's wait returns when all threads have ended.               *)
Joined == AllExited /\ UNCHANGED vars

ProcNext(p) ==
  \/ Propagate(p) \/ Step(p) \/ StepAndStop(p) \/ StepAfterCompletion(p)
  \/ Grab(p) \/ Push(p) \/ EndStep(p)

Next == (\E p \in Procs : ProcNext(p)) \/ Joined

Spec == Init /\ [][Next]_vars

(* Every process has a thread of its own, which runs whenever it is not    *)
(* blocked on an edge.                                                     *)
FairSpec == Spec /\ \A p \in Procs : WF_vars(ProcNext(p))

-----------------------------------------------------------------------------
(* The types of the data and of what each process is doing; no queue is    *)
(* longer than the capacity of its edge.                                   *)
TypeOK ==
  /\ q \in [Edges -> Seq(Data)] /\ closed \in [Edges -> BOOLEAN]
  /\ \A e \in Edges : Capacity[e] > 0 => Len(q[e]) <= Capacity[e]
  /\ pc \in [Procs -> {"top", "busy", "exited"}]
  /\ DOMAIN todo = Procs /\ \A p \in Procs : todo[p] \in Seq(Calls(p))
  /\ verdict \in [Procs -> Types \cup {"none"}] /\ is_complete \in [Procs -> BOOLEAN]
  /\ DOMAIN stamp = Procs /\ \A p \in Procs : stamp[p] \in [DOMAIN Outputs[p] -> Nat]
  /\ steps \in [Procs -> 0..MaxSteps] /\ wasted \in [Procs -> Nat]
  /\ sent \in [Edges -> Nat] /\ processed \in [Edges -> Nat]

Sent(e, t) == \E i \in DOMAIN q[e] : q[e][i].type = t

(* The complete datum is the last of an edge, and the only one: a process  *)
(* steps no more after it pushed it (the "complete" of the heartbeat and   *)
(* of the outputs go together), and it is not repeated.                    *)
CompleteIsLast ==
  \A e \in Edges : \A i \in DOMAIN q[e] : q[e][i].type = "complete" => i = Len(q[e])

(* The data that meet on the required inputs of a process carry the same   *)
(* stamp, whatever path they took and whatever control data came between,  *)
(* so check_required_input never answers with an error of its own.         *)
Synchronized == \A p \in Procs : verdict[p] # "error"

(* A process whose thread has ended has told each of its readers so: the   *)
(* reader has complete ahead of it, is absorbing it, or has left itself.   *)
CompletePushed ==
  \A p \in Procs : pc[p] = "exited" =>
    \A e \in OutputSet(p) : closed[e] \/ Sent(e, "complete") \/ verdict[Down(e)] = "complete"

(* A process that ends because its inputs do has been handed everything    *)
(* that came on the input that ended first, and as many data, for their    *)
(* frequencies, on the others.                                             *)
NothingLeftBehind ==
  \A p \in Procs : (pc[p] = "exited" /\ verdict[p] = "complete") =>
    /\ \E e \in RequiredInputs(p) : processed[e] = sent[e]
    /\ \A e, f \in RequiredInputs(p) : processed[e] * InFreq[f] = processed[f] * InFreq[e]

(* After all the readers of a process have ended, it computes at most one  *)
(* more result (the readers may have ended after the check of a step).     *)
NoWorkForNobody == \A p \in Procs : wasted[p] <= 1

(* Every thread ends, when the sources do: no cycle of full and empty      *)
(* edges holds a process for ever, and the end of a reader frees those     *)
(* that wait to write to it.                                               *)
Terminates == <>AllExited
=============================================================================
