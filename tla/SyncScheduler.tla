---------------------------- MODULE SyncScheduler ----------------------------
(***************************************************************************)
(* Dataflow under the scheduler that the configuration names: a thread for *)
(* each process (thread_per_process_scheduler), or one thread that steps   *)
(* them in turns (sync_scheduler).  The one thread must never block on an  *)
(* edge, for nobody else would read it or write to it.                     *)
(*                                                                         *)
(* Procs and Edges hold several pipelines, one of which is run.            *)
(***************************************************************************)
EXTENDS Dataflow

CONSTANT Pipelines   \* the sets of processes, one for each pipeline

ASSUME PipelinesAssumption ==
  /\ UNION Pipelines = Procs /\ \A P \in Pipelines : IsFiniteSet(P)
  /\ \A P \in Pipelines : \A e \in Edges : Up(e) \in P <=> Down(e) \in P

VARIABLES
  type,       \* the scheduler: "sync" or "thread_per_process"
  processes   \* sync_scheduler: the processes that take turns, a queue

allVars == <<vars, type, processes>>

(* The orders of the names of a pipeline.                                  *)
Orders(P) ==
  {order \in [1..Cardinality(P) -> P] : \A i, j \in DOMAIN order : order[i] = order[j] => i = j}

(* Mistake: the processes take turns in the order of process_names.        *)
Sorted_AsNamed(order) == TRUE

(* sorted_names: every process comes after those that it reads from.       *)
Sorted(order) ==
  \A e \in Edges : \A i, j \in DOMAIN order :
    (order[i] = Up(e) /\ order[j] = Down(e)) => i < j

(* sync_scheduler takes a pipeline of any frequencies, but it steps each   *)
(* process once in a round: if some must run more often than others, it    *)
(* fills or empties an edge in the long run and waits there for ever.      *)
EvenlyStepped(P) == \A p, r \in P : Core[p] = Core[r]

SyncInit ==
  \E P \in Pipelines :
    /\ InitOf(P)
    /\ \/ /\ type = "thread_per_process" /\ processes = <<>>
       \/ /\ type = "sync" /\ EvenlyStepped(P)
          /\ processes \in {order \in Orders(P) : Sorted(order)}

(* A process takes part in the next round unless its heartbeat said        *)
(* complete.                                                               *)
Turn(p) ==
  /\ type = "sync" /\ processes # <<>> /\ Head(processes) = p
  /\ ProcNext(p)
  /\ processes' = CASE pc'[p] = "busy"   -> processes
                    [] pc'[p] = "top"    -> Append(Tail(processes), p)
                    [] pc'[p] = "exited" -> Tail(processes)
  /\ UNCHANGED type

OwnThread(p) ==
  /\ type = "thread_per_process"
  /\ ProcNext(p)
  /\ UNCHANGED <<type, processes>>

SyncNext ==
  \/ \E p \in Procs : Turn(p) \/ OwnThread(p)
  \/ Joined /\ UNCHANGED <<type, processes>>

(* The one thread, or each of the threads, goes on unless it is blocked.   *)
SyncSpec ==
  /\ SyncInit /\ [][SyncNext]_allVars
  /\ WF_allVars(\E p \in Procs : Turn(p))
  /\ \A p \in Procs : WF_allVars(OwnThread(p))

-----------------------------------------------------------------------------
(* The one thread of sync_scheduler never waits on an edge: at its turn a  *)
(* process finds all it reads and room for all it writes, also over edges  *)
(* of one datum, with flush and empty data on the way, and in the rounds   *)
(* in which processes end.                                                 *)
TurnNeverBlocks ==
  (type = "sync" /\ processes # <<>>) =>
    LET p == Head(processes)
    IN  /\ (pc[p] = "top" /\ ~is_complete[p]) => \A e \in RequiredInputs(p) : Available(e)
        /\ (pc[p] = "busy" /\ todo[p] # <<>>) =>
             LET c == Head(todo[p])
             IN  IF c.op = "grab" THEN Available(c.edge)
                 ELSE closed[c.edge] \/ Capacity[c.edge] = 0
                        \/ Len(q[c.edge]) < Capacity[c.edge]
=============================================================================
