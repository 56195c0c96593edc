------------------------------- MODULE Embedded -------------------------------
(***************************************************************************)
(* A pipeline inside an application (sprokit/processes/adapters,           *)
(* embedded_pipeline): the application sends data sets, the input adapter  *)
(* receives them and pushes them into the pipeline, the output adapter     *)
(* collects what comes out and sends it to the application, which receives *)
(* it.  The pipeline is Dataflow, the two interface queues between the     *)
(* threads of the application and those of the adapters are BoundedBuffer. *)
(*                                                                         *)
(* A data set is the number of its turn; 0 is the end of input.  Each data *)
(* set has a datum for each port of the input adapter: one that has not    *)
(* makes the adapter throw, which ends the program.                        *)
(***************************************************************************)
EXTENDS Dataflow, BoundedBuffer

CONSTANTS
  Ia, Oa,     \* the input adapter and the output adapter, two of Procs
  MaxSets     \* bound: the data sets the application sends

ASSUME EmbeddedAssumption ==
  /\ Ia \in Procs /\ Oa \in Procs /\ Inputs[Ia] = <<>> /\ Outputs[Oa] = <<>>
  /\ Ia \in MayStop /\ Oa \notin MayStop /\ SourceKinds = {}
  /\ Queues = {"in", "out"} /\ Elements = 0..MaxSets /\ MaxSteps = MaxSets
  /\ MaxSets \in Nat

end_of_input == 0
Others       == Procs \ {Ia, Oa}

VARIABLES
  call,         \* per adapter, what it does with its queue: [op, set]
  fed,          \* history: the data sets that the input adapter has received
  usage,        \* the application sends and receives in two "threads", or in one "loop"
  wait_on_queue_full, \* the configuration of the output adapter
  supply,       \* how many data sets the application has
  handed,       \* how many of its supply + 1 calls of send have returned
  received,     \* what receive has returned
  m_stop_flag,  \* stop was called
  interrupted,  \* the processes whose threads will end at an interruption point
  past_point    \* those that had passed the one of run_process before

appVars == <<usage, wait_on_queue_full, supply, handed, received>>
stopVars == <<m_stop_flag, interrupted, past_point>>
embeddedVars == <<vars, buf, call, fed, appVars, stopVars>>

None == [op |-> "none", set |-> end_of_input]

EmbeddedInit ==
  /\ Init /\ BufferInit
  /\ call = [p \in {Ia, Oa} |-> None]
  /\ fed = <<>> /\ received = <<>> /\ handed = 0
  /\ usage \in {"threads", "loop"} /\ wait_on_queue_full \in BOOLEAN
  /\ supply \in 0..MaxSets
  /\ m_stop_flag = FALSE /\ interrupted = {} /\ past_point = {}

-----------------------------------------------------------------------------
(* The application.  In the loop of the documentation it receives one data *)
(* set for each that it sent.                                              *)

m_at_end == received # <<>> /\ received[Len(received)] = end_of_input

WantsToSend ==
  /\ handed <= supply
  /\ usage = "loop" => ~m_at_end /\ Len(received) = handed

WantsToReceive ==
  /\ ~m_at_end
  /\ usage = "loop" => Len(received) < handed

(* send of the next data set, or send_end_of_input after the last.         *)
AppSend ==
  /\ WantsToSend
  /\ \/ /\ SendWait("sender", "in") /\ UNCHANGED handed
     \/ /\ Send("sender", "in", IF handed < supply THEN handed + 1 ELSE end_of_input)
        /\ handed' = handed + 1
  /\ UNCHANGED <<vars, call, fed, usage, wait_on_queue_full, supply, received, stopVars>>

AppReceive ==
  /\ WantsToReceive
  /\ \/ /\ ReceiveWait("receiver", "out") /\ UNCHANGED received
     \/ /\ Receive("receiver", "out")
        /\ received' = Append(received, Oldest("out"))
  /\ UNCHANGED <<vars, call, fed, usage, wait_on_queue_full, supply, handed, stopVars>>

(* embedded_pipeline::stop: the scheduler interrupts the threads and does  *)
(* not wait for them.                                                      *)
Stop ==
  /\ ~m_stop_flag
  /\ m_stop_flag' = TRUE
  /\ interrupted' = Procs
  /\ past_point' \in SUBSET {p \in Procs : pc[p] = "top"}
  /\ UNCHANGED <<vars, buf, call, fed, appVars>>

-----------------------------------------------------------------------------
(* The processes.                                                          *)

MayBegin(p) == p \in interrupted => p \in past_point
Began(p)    == past_point' = past_point \ {p} /\ UNCHANGED <<m_stop_flag, interrupted>>

(* input_adapter_process::_step, up to the call of Receive.                *)
IaBegin ==
  /\ pc[Ia] = "top" /\ ~is_complete[Ia] /\ call[Ia] = None /\ MayBegin(Ia)
  /\ call' = [call EXCEPT ![Ia].op = "receive"]
  /\ Began(Ia)
  /\ UNCHANGED <<vars, buf, fed, appVars>>

IaWait ==
  /\ call[Ia].op = "receive"
  /\ ReceiveWait(Ia, "in")
  /\ UNCHANGED <<vars, call, fed, appVars, stopVars>>

(* ... and what it does with the data set.                                 *)
IaReceive ==
  /\ call[Ia].op = "receive"
  /\ Receive(Ia, "in")
  /\ call' = [call EXCEPT ![Ia] = None]
  /\ fed' = Append(fed, Oldest("in"))
  /\ IF Oldest("in") = end_of_input THEN StepAndStop(Ia) ELSE Step(Ia)
  /\ UNCHANGED <<appVars, stopVars>>

(* The data that meet in a step of the output adapter come from the same   *)
(* data set; their stamp tells which.                                      *)
SetOf(p) == fed[q[Inputs[p][1]][1].stamp + 1]

(* The output adapter either collects a data set, or absorbs the complete  *)
(* datum and is finalized.                                                 *)
OaBegin ==
  /\ MayBegin(Oa)
  /\ \/ Step(Oa) /\ call' = [call EXCEPT ![Oa] = [op |-> "offer", set |-> SetOf(Oa)]]
     \/ Propagate(Oa) /\ call' = [call EXCEPT ![Oa].op = "send"]
  /\ Began(Oa)
  /\ UNCHANGED <<buf, fed, appVars>>

OaReady(op) == call[Oa].op = op /\ pc[Oa] = "busy" /\ todo[Oa] = <<>>

(* Mistake: wait_on_queue_full is not looked at.                           *)
OaOffer_NeverWaits ==
  /\ OaReady("offer")
  /\ call' = [call EXCEPT ![Oa] = IF ~Full("out") THEN [@ EXCEPT !.op = "send"] ELSE None]
  /\ UNCHANGED <<vars, buf, fed, appVars, stopVars>>

(* Mistake: the configuration is read the wrong way round.                 *)
OaOffer_Inverted ==
  /\ OaReady("offer")
  /\ call' = [call EXCEPT ![Oa] = IF ~wait_on_queue_full \/ ~Full("out") THEN [@ EXCEPT !.op = "send"]
                                  ELSE None]
  /\ UNCHANGED <<vars, buf, fed, appVars, stopVars>>

(* Without wait_on_queue_full, a data set that finds the queue full is     *)
(* dropped.  Full() is asked without the mutex, before Send takes it.      *)
OaOffer ==
  /\ OaReady("offer")
  /\ call' = [call EXCEPT ![Oa] = IF wait_on_queue_full \/ ~Full("out") THEN [@ EXCEPT !.op = "send"]
                                  ELSE None]
  /\ UNCHANGED <<vars, buf, fed, appVars, stopVars>>

OaWait ==
  /\ OaReady("send")
  /\ SendWait(Oa, "out")
  /\ UNCHANGED <<vars, call, fed, appVars, stopVars>>

OaSend ==
  /\ OaReady("send")
  /\ Send(Oa, "out", call[Oa].set)
  /\ call' = [call EXCEPT ![Oa] = None]
  /\ UNCHANGED <<vars, fed, appVars, stopVars>>

(* What the adapters do as any process does.                               *)
AdapterStep ==
  /\ \/ MayBegin(Ia) /\ StepAfterCompletion(Ia) /\ Began(Ia)
     \/ /\ \/ Push(Ia) \/ EndStep(Ia)
           \/ Grab(Oa)
           \/ EndStep(Oa) /\ call[Oa] = None
        /\ UNCHANGED stopVars
  /\ UNCHANGED <<buf, call, fed, appVars>>

OtherStep(p) ==
  /\ ProcNext(p)
  /\ IF pc[p] = "top" THEN MayBegin(p) /\ Began(p) ELSE UNCHANGED stopVars
  /\ UNCHANGED <<buf, call, fed, appVars>>

AtPoint(p) == pc[p] = "top" /\ (p = Ia => call[Ia] = None) /\ p \notin past_point

(* Mistake: a wait for an edge is not an interruption point.               *)
Interruptible_AtPoint(p) == AtPoint(p)

(* A thread ends at the interruption point of run_process or where it      *)
(* waits for an edge; a wait for an interface queue is not one.            *)
Interruptible(p) ==
  \/ AtPoint(p)
  \/ pc[p] = "top" /\ ~is_complete[p] /\ \E e \in RequiredInputs(p) : ~Available(e)
  \/ /\ pc[p] = "busy" /\ todo[p] # <<>> /\ Head(todo[p]).op = "push"
     /\ LET e == Head(todo[p]).edge
        IN  ~closed[e] /\ Capacity[e] > 0 /\ Len(q[e]) = Capacity[e]

Interrupted(p) ==
  /\ p \in interrupted /\ Interruptible(p)
  /\ pc' = [pc EXCEPT ![p] = "exited"]
  /\ UNCHANGED <<q, closed, todo, verdict, is_complete, stamp, steps, sent, processed, wasted>>
  /\ UNCHANGED <<buf, call, fed, appVars, stopVars>>

IaNext == IaBegin \/ IaWait \/ IaReceive \/ Interrupted(Ia)
OaNext == OaBegin \/ OaOffer \/ OaWait \/ OaSend \/ Interrupted(Oa)

EmbeddedNext ==
  \/ AppSend \/ AppReceive \/ Stop
  \/ IaNext \/ OaNext \/ AdapterStep
  \/ \E p \in Others : OtherStep(p) \/ Interrupted(p)

(* Every thread goes on unless it is blocked; nobody need call stop.       *)
EmbeddedSpec ==
  /\ EmbeddedInit /\ [][EmbeddedNext]_embeddedVars
  /\ WF_embeddedVars(AppSend) /\ WF_embeddedVars(AppReceive)
  /\ WF_embeddedVars(IaNext) /\ WF_embeddedVars(OaNext) /\ WF_embeddedVars(AdapterStep)
  /\ \A p \in Others : WF_embeddedVars(OtherStep(p) \/ Interrupted(p))

-----------------------------------------------------------------------------
(* The data sets that receive returned, without the end.                   *)
Sets == IF m_at_end THEN SubSeq(received, 1, Len(received) - 1) ELSE received

(* No process has ended before its input did.                              *)
RanToItsEnd == \A p \in Procs \ {Ia} : verdict[p] = "complete"

(* The application receives the data sets in the order in which it sent    *)
(* them, each at most once, and after them the end, once.  If the output   *)
(* adapter waits when its queue is full none is missing between two that   *)
(* arrive; when the end came through the whole pipeline, none at all.      *)
DeliveredInOrder ==
  /\ \A i, j \in DOMAIN Sets : i < j => Sets[i] < Sets[j]
  /\ \A i \in DOMAIN Sets : Sets[i] \in 1..handed
  /\ wait_on_queue_full =>
       /\ \A i \in DOMAIN Sets : Sets[i] = i
       /\ m_at_end /\ RanToItsEnd => Len(Sets) = supply

(* With wait_on_queue_full set to false a slow application never makes the *)
(* output adapter wait, though it asks Full() before it sends: only for    *)
(* the end of the data is there no other way.                              *)
NeverWaitsToDrop ==
  (~wait_on_queue_full /\ Oa \in buf["out"].not_full) => call[Oa].set = end_of_input

(* The loop of the documentation gives up when it is told of the end; if a *)
(* process ended by itself, the input adapter waits for ever for an end of *)
(* input that nobody sends, and so does embedded_pipeline::wait.           *)
GaveUp == usage = "loop" /\ m_at_end /\ handed <= supply

(* Unless the pipeline is stopped, receive returns the end of the data,    *)
(* and all the threads end, so that embedded_pipeline::wait returns.       *)
Ends == <>(m_stop_flag \/ (m_at_end /\ (AllExited \/ GaveUp)))

(* After stop every thread ends, except an adapter that waits for the      *)
(* application: its wait is not an interruption point.                     *)
StopReaches ==
  m_stop_flag ~> \A p \in Procs : \/ pc[p] = "exited"
                                  \/ p = Ia /\ call[Ia].op = "receive" /\ Empty("in")
                                  \/ p = Oa /\ call[Oa].op = "send" /\ Full("out")
=============================================================================
