----------------------------- MODULE Scheduler -----------------------------
(***************************************************************************)
(* The life cycle of a run: sprokit::scheduler (sprokit/pipeline/          *)
(* scheduler.cxx) called by several client threads, and                    *)
(* thread_per_process_scheduler, which runs each process in a thread and   *)
(* pauses them with a reader-writer lock.                                  *)
(*                                                                         *)
(* The processes are abstracted to a chain 1 -> 2 -> ... -> Length over    *)
(* edges that hold one datum: what matters here is that a step may wait    *)
(* for another process (Dataflow has the steps themselves).                *)
(*                                                                         *)
(* boost::shared_mutex is modelled from its use, with the preference it    *)
(* gives to a waiting writer: new readers wait until the last of the old   *)
(* ones has left.  pause takes scheduler::mut in upgrade mode first; all   *)
(* other users take it exclusively, so it is a plain mutex here.  Only     *)
(* pause can block while it holds it: the other calls are one step each,   *)
(* wait two, because it gives the mutex up while it joins.                 *)
(***************************************************************************)
EXTENDS Naturals

CONSTANTS
  Clients,   \* the threads that use the scheduler
  NoClient,  \* not a client
  Calls,     \* the methods the clients call
  Length,    \* how many processes the chain has
  MaxRuns    \* bound: how often start succeeds

ASSUME SchedulerAssumption ==
  /\ NoClient \notin Clients
  /\ Calls \subseteq {"start", "wait", "pause", "resume", "stop"}
  /\ Length \in Nat \ {0} /\ MaxRuns \in Nat

Chain   == 1..Length
Threads == (1..MaxRuns) \X Chain

VARIABLES
  running,          \* scheduler::priv::running
  paused,           \* scheduler::priv::paused
  mut,              \* scheduler::priv::mut, its holder
  pipeline_running, \* pipeline::priv::running
  call,             \* per client, the call it is in: "none", "pausing", "joining"
  joins,            \* per client in wait, the run whose threads it joins
  thrown,           \* per client, the exception of its last call
  run,              \* number of the last run started
  exclusive,        \* m_pause_mutex: held by a writer
  blocked,          \* m_pause_mutex: a writer waits, readers must not enter
  readers,          \* m_pause_mutex: the threads that share it
  tpc,              \* per thread, where run_process is
  interrupted,      \* the threads interrupt_all was called for
  holds,            \* the processes whose output edge holds a datum
  ended             \* the processes that are complete

clientVars == <<running, paused, mut, pipeline_running, call, joins, thrown, run>>
lockVars   == <<exclusive, blocked, readers>>
threadVars == <<tpc, interrupted, holds, ended>>
vars       == <<clientVars, lockVars, threadVars>>

Init ==
  /\ running = FALSE /\ paused = FALSE /\ mut = NoClient /\ pipeline_running = FALSE
  /\ call = [c \in Clients |-> "none"] /\ joins = [c \in Clients |-> 0]
  /\ thrown = [c \in Clients |-> "none"]
  /\ run = 0
  /\ exclusive = FALSE /\ blocked = FALSE /\ readers = {}
  /\ tpc = [t \in Threads |-> "none"] /\ interrupted = {}
  /\ holds = {} /\ ended = {}

Of(r) == {t \in Threads : t[1] = r}

-----------------------------------------------------------------------------
(* The calls of the clients.                                               *)

Enter(c, m) == m \in Calls /\ call[c] = "none" /\ mut = NoClient

Throw(c, e) ==
  /\ thrown' = [thrown EXCEPT ![c] = e]
  /\ UNCHANGED <<running, paused, mut, pipeline_running, call, joins, run, lockVars, threadVars>>

Returns(c) == thrown' = [thrown EXCEPT ![c] = "none"]

(* scheduler::start, with pipeline::start and _start: the thread group is  *)
(* replaced, whatever its threads are doing.                               *)
Start(c) ==
  /\ Enter(c, "start") /\ ~running /\ run < MaxRuns
  /\ Returns(c)
  /\ running' = TRUE /\ pipeline_running' = TRUE
  /\ run' = run + 1
  /\ tpc' = [t \in Threads |-> IF t \in Of(run') THEN "top" ELSE tpc[t]]
  /\ UNCHANGED <<paused, mut, call, joins, lockVars, interrupted, holds, ended>>

(* _resume unlocks the pause mutex.                                        *)
Unlock == exclusive' = FALSE /\ blocked' = FALSE

(* Mistake: a paused scheduler stays paused when it is stopped.            *)
PrivStop_StillPaused ==
  /\ interrupted' = interrupted \cup {t \in Of(run) : tpc[t] # "exited"}
  /\ paused' = FALSE
  /\ running' = FALSE /\ pipeline_running' = FALSE
  /\ UNCHANGED <<exclusive, blocked>>

(* scheduler::priv::stop: interrupt_all, _resume, pipeline::stop.          *)
PrivStop ==
  /\ interrupted' = interrupted \cup {t \in Of(run) : tpc[t] # "exited"}
  /\ paused' = FALSE
  /\ IF paused THEN Unlock ELSE UNCHANGED <<exclusive, blocked>>
  /\ running' = FALSE /\ pipeline_running' = FALSE

Stop(c) ==
  /\ Enter(c, "stop") /\ running
  /\ Returns(c)
  /\ PrivStop
  /\ UNCHANGED <<mut, call, joins, run, readers, tpc, holds, ended>>

(* scheduler::wait up to _wait, where it has given up the mutex.           *)
Wait(c) ==
  /\ Enter(c, "wait") /\ running
  /\ call' = [call EXCEPT ![c] = "joining"]
  /\ joins' = [joins EXCEPT ![c] = run]
  /\ Returns(c)
  /\ UNCHANGED <<running, paused, mut, pipeline_running, run, lockVars, threadVars>>

(* join_all has returned and the mutex is taken again.                     *)
Joined(c) ==
  /\ call[c] = "joining" /\ mut = NoClient
  /\ \A t \in Of(joins[c]) : tpc[t] = "exited"

(* Mistake: every waiter stops the pipeline.                               *)
WaitReturns_Unchecked(c) ==
  /\ Joined(c)
  /\ call' = [call EXCEPT ![c] = "none"]
  /\ thrown' = [thrown EXCEPT ![c] = IF pipeline_running THEN "none" ELSE "logic_error"]
  /\ PrivStop
  /\ UNCHANGED <<mut, joins, run, readers, tpc, holds, ended>>

(* The rest of wait: "After each thread, only one should call stop".       *)
WaitReturns(c) ==
  /\ Joined(c)
  /\ call' = [call EXCEPT ![c] = "none"]
  /\ IF running
     THEN /\ PrivStop
          /\ thrown' = [thrown EXCEPT ![c] = IF pipeline_running THEN "none" ELSE "logic_error"]
     ELSE UNCHANGED <<running, paused, pipeline_running, exclusive, blocked, interrupted, thrown>>
  /\ UNCHANGED <<mut, joins, run, readers, tpc, holds, ended>>

(* scheduler::pause waits for the pause mutex, with scheduler::mut held.   *)
Pause(c) ==
  /\ Enter(c, "pause") /\ running /\ ~paused
  /\ mut' = c
  /\ call' = [call EXCEPT ![c] = "pausing"]
  /\ blocked' = TRUE
  /\ Returns(c)
  /\ UNCHANGED <<running, paused, pipeline_running, joins, run, exclusive, readers, threadVars>>

(* A writer that finds readers bars the entry (again) and waits on.        *)
PauseWaits(c) ==
  /\ call[c] = "pausing" /\ readers # {} /\ ~blocked
  /\ blocked' = TRUE
  /\ UNCHANGED <<clientVars, exclusive, readers, threadVars>>

(* Mistake: an early return keeps the mutex of the scheduler.              *)
PauseReturns_KeepsMutex(c) ==
  /\ call[c] = "pausing" /\ readers = {} /\ ~exclusive
  /\ exclusive' = TRUE /\ paused' = TRUE
  /\ call' = [call EXCEPT ![c] = "none"]
  /\ UNCHANGED <<running, mut, pipeline_running, joins, thrown, run, blocked, readers, threadVars>>

(* Mistake: the writer does not wait for the readers.                      *)
PauseReturns_AtOnce(c) ==
  /\ call[c] = "pausing"
  /\ exclusive' = TRUE /\ paused' = TRUE
  /\ mut' = NoClient
  /\ call' = [call EXCEPT ![c] = "none"]
  /\ UNCHANGED <<running, pipeline_running, joins, thrown, run, blocked, readers, threadVars>>

PauseReturns(c) ==
  /\ call[c] = "pausing" /\ readers = {} /\ ~exclusive
  /\ exclusive' = TRUE /\ paused' = TRUE
  /\ mut' = NoClient
  /\ call' = [call EXCEPT ![c] = "none"]
  /\ UNCHANGED <<running, pipeline_running, joins, thrown, run, blocked, readers, threadVars>>

Resume(c) ==
  /\ Enter(c, "resume") /\ running /\ paused
  /\ Returns(c)
  /\ Unlock /\ paused' = FALSE
  /\ UNCHANGED <<running, mut, pipeline_running, call, joins, run, readers, threadVars>>

(* The calls that are refused.                                             *)
WaitRefused(c) == Enter(c, "wait") /\ ~running /\ Throw(c, "wait_before_start_exception")

Refused(c) ==
  \/ Enter(c, "start") /\ running /\ Throw(c, "restart_scheduler_exception")
  \/ WaitRefused(c)
  \/ Enter(c, "pause") /\ ~running /\ Throw(c, "pause_before_start_exception")
  \/ Enter(c, "pause") /\ running /\ paused /\ Throw(c, "repause_scheduler_exception")
  \/ Enter(c, "resume") /\ ~running /\ Throw(c, "resume_before_start_exception")
  \/ Enter(c, "resume") /\ running /\ ~paused /\ Throw(c, "resume_unpaused_scheduler_exception")
  \/ Enter(c, "stop") /\ ~running /\ Throw(c, "stop_before_start_exception")

-----------------------------------------------------------------------------
(* run_process in thread t = <<run, process>>.                             *)

Goto(t, l) == tpc' = [tpc EXCEPT ![t] = l]

(* The shared lock, held for one turn of the loop.                         *)
LockShared(t) ==
  /\ tpc[t] = "top" /\ ~exclusive /\ ~blocked
  /\ readers' = readers \cup {t}
  /\ Goto(t, "locked")
  /\ UNCHANGED <<clientVars, exclusive, blocked, interrupted, holds, ended>>

(* The last reader to leave opens the entry, and a waiting writer has to   *)
(* compete with the new readers.                                           *)
UnlockShared(t) ==
  /\ readers' = readers \ {t}
  /\ blocked' = IF readers = {t} THEN FALSE ELSE blocked
  /\ UNCHANGED exclusive

NeedsInput(p) == p > 1 /\ p - 1 \notin holds
NeedsRoom(p)  == p \in holds

(* Mistake: the waits on edges are not interruption points.                *)
Interrupted_OnlyAtTop(t) ==
  /\ t \in interrupted /\ tpc[t] = "locked"
  /\ UnlockShared(t)
  /\ Goto(t, "exited")
  /\ UNCHANGED <<clientVars, interrupted, holds, ended>>

(* interruption_point, and the waits inside a step: boost's condition      *)
(* variables are interruption points, its locks are not.                   *)
Interrupted(t) ==
  /\ t \in interrupted
  /\ \/ tpc[t] = "locked"
     \/ tpc[t] = "step" /\ NeedsInput(t[2]) /\ t[2] - 1 \notin ended
     \/ tpc[t] = "push" /\ NeedsRoom(t[2])
  /\ UnlockShared(t)
  /\ Goto(t, "exited")
  /\ UNCHANGED <<clientVars, interrupted, holds, ended>>

BeginStep(t) ==
  /\ tpc[t] = "locked" /\ t \notin interrupted
  /\ Goto(t, "step")
  /\ UNCHANGED <<clientVars, lockVars, interrupted, holds, ended>>

(* The step reads its input.                                               *)
Take(t) ==
  /\ tpc[t] = "step" /\ t[2] \notin ended /\ ~NeedsInput(t[2])
  /\ holds' = holds \ {t[2] - 1}
  /\ Goto(t, "push")
  /\ UNCHANGED <<clientVars, lockVars, interrupted, ended>>

(* The step writes its output and returns; the lock is released.           *)
Push(t) ==
  /\ tpc[t] = "push" /\ ~NeedsRoom(t[2])
  /\ holds' = IF t[2] = Length THEN holds ELSE holds \cup {t[2]}
  /\ UnlockShared(t)
  /\ Goto(t, "top")
  /\ UNCHANGED <<clientVars, interrupted, ended>>

(* The step completes the process (the first one when it decides to, the   *)
(* others when their input has ended), or finds it completed: the monitor  *)
(* edge says so and run_process returns.                                   *)
Complete(t) ==
  /\ tpc[t] = "step"
  /\ t[2] \in ended \/ t[2] = 1 \/ (NeedsInput(t[2]) /\ t[2] - 1 \in ended)
  /\ ended' = ended \cup {t[2]}
  /\ UnlockShared(t)
  /\ Goto(t, "exited")
  /\ UNCHANGED <<clientVars, interrupted, holds>>

-----------------------------------------------------------------------------
ClientNext(c) ==
  \/ Start(c) \/ Stop(c) \/ Wait(c) \/ WaitReturns(c)
  \/ Pause(c) \/ PauseWaits(c) \/ PauseReturns(c) \/ Resume(c) \/ Refused(c)

ThreadNext(t) ==
  LockShared(t) \/ Interrupted(t) \/ BeginStep(t) \/ Take(t) \/ Push(t) \/ Complete(t)

Next == (\E c \in Clients : ClientNext(c)) \/ (\E t \in Threads : ThreadNext(t))

Spec == Init /\ [][Next]_vars

(* Threads run when they can, and a thread that waits for a boost lock     *)
(* gets it if it is free again and again; nobody has to make a call.       *)
FairSpec ==
  /\ Spec
  /\ \A t \in Threads : SF_vars(LockShared(t)) /\ WF_vars(ThreadNext(t))
  /\ \A c \in Clients : SF_vars(PauseReturns(c)) /\ SF_vars(WaitReturns(c))

-----------------------------------------------------------------------------
Exceptions ==
  {"none", "restart_scheduler_exception", "wait_before_start_exception",
   "pause_before_start_exception", "repause_scheduler_exception",
   "resume_before_start_exception", "resume_unpaused_scheduler_exception",
   "stop_before_start_exception", "logic_error"}

(* The types; the mutex of the scheduler is held between two steps only by *)
(* the client that waits in pause.                                         *)
TypeOK ==
  /\ running \in BOOLEAN /\ paused \in BOOLEAN /\ pipeline_running \in BOOLEAN
  /\ mut \in Clients \cup {NoClient}
  /\ call \in [Clients -> {"none", "pausing", "joining"}]
  /\ \A c \in Clients : call[c] = "pausing" <=> mut = c
  /\ thrown \in [Clients -> Exceptions]
  /\ joins \in [Clients -> 0..MaxRuns] /\ run \in 0..MaxRuns
  /\ exclusive \in BOOLEAN /\ blocked \in BOOLEAN
  /\ readers \subseteq Threads /\ interrupted \subseteq Threads
  /\ tpc \in [Threads -> {"none", "top", "locked", "step", "push", "exited"}]
  /\ holds \subseteq Chain /\ ended \subseteq Chain

(* When pause has returned, no process is in a step, not even one of an    *)
(* earlier run, and none begins one before resume or stop.                 *)
PausedMeansStill ==
  paused => \A t \in Threads : tpc[t] \notin {"locked", "step", "push"}

(* The pause mutex is held by a writer exactly while the scheduler counts  *)
(* as paused, whatever the order of pause, resume, stop and wait: nobody   *)
(* unlocks it twice, or leaves it locked for the next run.                 *)
PauseLockOwned == exclusive = paused

(* "Start/stop pipeline state tracking failed" (pipeline.cxx) is never     *)
(* thrown: a run is stopped once, by stop or by one of the waiters.        *)
TrackingNeverFails == \A c \in Clients : thrown[c] # "logic_error"

(* The threads of a run that was stopped end, those that wait for a datum  *)
(* or for space included, unless a later run is paused for ever: stop      *)
(* releases the pause lock, and interrupts reach the waits on edges.       *)
PauseInForce    == paused \/ \E c \in Clients : call[c] = "pausing"
StopTakesEffect ==
  \A t \in Threads : t \in interrupted ~> (tpc[t] = "exited" \/ PauseInForce)

(* pause returns.                                                          *)
PauseTakesEffect == \A c \in Clients : call[c] = "pausing" ~> call[c] # "pausing"
=============================================================================
