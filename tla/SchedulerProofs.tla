-------------------------- MODULE SchedulerProofs --------------------------
(***************************************************************************)
(* The safety properties of Scheduler for any number of clients, processes *)
(* and runs.  They need one invariant that ties the two flags of the base  *)
(* class to the pipeline's flag and to the two locks.                      *)
(***************************************************************************)
EXTENDS Scheduler, TLAPS

InStep == {"locked", "step", "push"}

(* Every reader of the pause mutex is a thread between the top and the end *)
(* of its loop, and the other way round.                                   *)
ReadersInStep == \A t \in Threads : t \in readers <=> tpc[t] \in InStep

(* While a writer holds the pause mutex nobody reads, and the scheduler is *)
(* paused, which it is only while it runs.                                 *)
LockExcludes == (exclusive => readers = {}) /\ (paused => running)

(* The two records of a running pipeline agree.                            *)
Tracking == running = pipeline_running

(* A client that pauses has the mutex, so the scheduler stays as it was    *)
(* when the client tested it.                                              *)
PausingHolds == \A c \in Clients : call[c] = "pausing" => (running /\ ~paused)

(* The threads of a run exist from its start on.                           *)
Unstarted == \A t \in Threads : t[1] > run => tpc[t] = "none"

SchedInv ==
  /\ TypeOK /\ ReadersInStep /\ Unstarted /\ PauseLockOwned /\ LockExcludes
  /\ Tracking /\ PausingHolds /\ TrackingNeverFails

LEMMA InitSchedInv == Init => SchedInv
<1> SUFFICES ASSUME Init PROVE SchedInv
  OBVIOUS
<1>1. TypeOK
  <2>1. call \in [Clients -> {"none", "pausing", "joining"}] /\ thrown \in [Clients -> Exceptions]
    BY DEF Init, Exceptions
  <2>2. \A c \in Clients : call[c] = "pausing" <=> mut = c
    BY SchedulerAssumption DEF Init
  <2>3. joins \in [Clients -> 0..MaxRuns] /\ run \in 0..MaxRuns
    BY SchedulerAssumption DEF Init
  <2>4. tpc \in [Threads -> {"none", "top", "locked", "step", "push", "exited"}]
    BY DEF Init
  <2>5. /\ running \in BOOLEAN /\ paused \in BOOLEAN /\ pipeline_running \in BOOLEAN
        /\ exclusive \in BOOLEAN /\ blocked \in BOOLEAN /\ mut = NoClient
    BY DEF Init
  <2>6. readers = {} /\ interrupted = {} /\ holds = {} /\ ended = {}
    BY DEF Init
  <2> QED BY <2>1, <2>2, <2>3, <2>4, <2>5, <2>6 DEF TypeOK
<1>2. ReadersInStep /\ Unstarted
  BY DEF Init, ReadersInStep, Unstarted, InStep
<1>3. PauseLockOwned /\ LockExcludes /\ Tracking
  BY DEF Init, PauseLockOwned, LockExcludes, Tracking
<1>4. PausingHolds /\ TrackingNeverFails
  BY DEF Init, PausingHolds, TrackingNeverFails
<1> QED BY <1>1, <1>2, <1>3, <1>4 DEF SchedInv

(* scheduler::priv::stop keeps it when the mutex is free before the call.  *)
LEMMA StopStep ==
  ASSUME SchedInv, PrivStop, UNCHANGED <<mut, run, readers, tpc, holds, ended>>,
         mut = NoClient,
         call' \in [Clients -> {"none", "pausing", "joining"}],
         \A c \in Clients : call'[c] # "pausing",
         joins' \in [Clients -> 0..MaxRuns],
         thrown' \in [Clients -> Exceptions], \A c \in Clients : thrown'[c] # "logic_error"
  PROVE  SchedInv'
<1>1. exclusive' \in BOOLEAN /\ blocked' \in BOOLEAN /\ exclusive' = FALSE
  BY DEF SchedInv, TypeOK, PrivStop, Unlock, PauseLockOwned
<1>2. interrupted' \subseteq Threads
  BY DEF SchedInv, TypeOK, PrivStop, Of
<1>3. TypeOK'
  BY <1>1, <1>2, SchedulerAssumption DEF SchedInv, TypeOK, PrivStop
<1>4. (ReadersInStep /\ Unstarted)'
  BY DEF SchedInv, ReadersInStep, Unstarted
<1>5. (PauseLockOwned /\ LockExcludes /\ Tracking)'
  BY <1>1 DEF SchedInv, PauseLockOwned, LockExcludes, Tracking, PrivStop
<1>6. (PausingHolds /\ TrackingNeverFails)'
  BY DEF PausingHolds, TrackingNeverFails
<1> QED BY <1>3, <1>4, <1>5, <1>6 DEF SchedInv

(* A call that is refused.                                                 *)
LEMMA ThrowStep ==
  ASSUME SchedInv, NEW c \in Clients, NEW e \in Exceptions \ {"logic_error"}, Throw(c, e)
  PROVE  SchedInv'
<1>1. TypeOK'
  BY DEF SchedInv, TypeOK, Throw, lockVars, threadVars
<1>2. (ReadersInStep /\ Unstarted)'
  BY DEF SchedInv, ReadersInStep, Unstarted, Throw, lockVars, threadVars
<1>3. (PauseLockOwned /\ LockExcludes /\ Tracking /\ PausingHolds)'
  BY DEF SchedInv, PauseLockOwned, LockExcludes, Tracking, PausingHolds, Throw, lockVars, threadVars
<1>4. TrackingNeverFails'
  BY DEF SchedInv, TypeOK, TrackingNeverFails, Throw
<1> QED BY <1>1, <1>2, <1>3, <1>4 DEF SchedInv

LEMMA StartStep == ASSUME SchedInv, NEW c \in Clients, Start(c) PROVE SchedInv'
<1> USE DEF SchedInv
<1>1. TypeOK'
  <2>1. run' \in 0..MaxRuns
    BY SchedulerAssumption DEF Start, TypeOK
  <2>2. thrown' \in [Clients -> Exceptions]
    BY DEF Start, Returns, TypeOK, Exceptions
  <2>3. tpc' \in [Threads -> {"none", "top", "locked", "step", "push", "exited"}]
    BY DEF Start, TypeOK
  <2> QED BY <2>1, <2>2, <2>3 DEF Start, TypeOK, lockVars
<1>2. ReadersInStep'
  <2> SUFFICES ASSUME NEW t \in Threads PROVE t \in readers <=> tpc'[t] \in InStep
    BY DEF Start, ReadersInStep, lockVars
  <2>1. CASE t \in Of(run')
    <3>1. t[1] > run
      BY <2>1 DEF Start, Of, TypeOK
    <3>2. tpc[t] = "none" /\ tpc'[t] = "top"
      BY <2>1, <3>1 DEF Start, Unstarted
    <3> QED BY <3>2 DEF ReadersInStep, InStep
  <2>2. CASE t \notin Of(run')
    BY <2>2 DEF Start, ReadersInStep
  <2> QED BY <2>1, <2>2
<1>3. Unstarted'
  <2> SUFFICES ASSUME NEW t \in Threads, t[1] > run' PROVE tpc'[t] = "none"
    BY DEF Unstarted
  <2>1. t \notin Of(run') /\ t[1] > run
    BY DEF Start, Of, TypeOK, Threads
  <2> QED BY <2>1 DEF Start, Unstarted
<1>4. (PauseLockOwned /\ LockExcludes /\ Tracking)'
  BY DEF Start, PauseLockOwned, LockExcludes, Tracking, lockVars
<1>5. (PausingHolds /\ TrackingNeverFails)'
  BY SchedulerAssumption DEF Start, Enter, Returns, TypeOK, PausingHolds, TrackingNeverFails
<1> QED BY <1>1, <1>2, <1>3, <1>4, <1>5

LEMMA StopCallStep == ASSUME SchedInv, NEW c \in Clients, Stop(c) PROVE SchedInv'
<1>1. PrivStop /\ UNCHANGED <<mut, run, readers, tpc, holds, ended>> /\ mut = NoClient
  BY DEF Stop, Enter
<1>2. call' \in [Clients -> {"none", "pausing", "joining"}] /\ joins' \in [Clients -> 0..MaxRuns]
  BY DEF SchedInv, TypeOK, Stop
<1>3. \A d \in Clients : call'[d] # "pausing"
  BY <1>1, SchedulerAssumption DEF SchedInv, TypeOK, Stop
<1>4. thrown' \in [Clients -> Exceptions] /\ \A d \in Clients : thrown'[d] # "logic_error"
  BY DEF SchedInv, TypeOK, TrackingNeverFails, Stop, Returns, Exceptions
<1> QED BY <1>1, <1>2, <1>3, <1>4, StopStep

LEMMA WaitStep == ASSUME SchedInv, NEW c \in Clients, Wait(c) PROVE SchedInv'
<1> USE DEF SchedInv, Wait, lockVars, threadVars
<1>1. TypeOK'
  <2>1. thrown' \in [Clients -> Exceptions] /\ joins' \in [Clients -> 0..MaxRuns]
    BY DEF TypeOK, Returns, Exceptions
  <2>2. \A d \in Clients : call'[d] = "pausing" <=> mut' = d
    BY SchedulerAssumption DEF TypeOK, Enter
  <2> QED BY <2>1, <2>2 DEF TypeOK
<1>2. (ReadersInStep /\ Unstarted)'
  BY DEF ReadersInStep, Unstarted
<1>3. (PauseLockOwned /\ LockExcludes /\ Tracking)'
  BY DEF PauseLockOwned, LockExcludes, Tracking
<1>4. (PausingHolds /\ TrackingNeverFails)'
  BY DEF TypeOK, PausingHolds, TrackingNeverFails, Returns
<1> QED BY <1>1, <1>2, <1>3, <1>4

LEMMA WaitReturnsStep == ASSUME SchedInv, NEW c \in Clients, WaitReturns(c) PROVE SchedInv'
<1>1. mut = NoClient /\ UNCHANGED <<mut, joins, run, readers, tpc, holds, ended>>
  BY DEF WaitReturns, Joined
<1>2. /\ call' \in [Clients -> {"none", "pausing", "joining"}]
      /\ \A d \in Clients : call'[d] # "pausing"
  BY <1>1, SchedulerAssumption DEF SchedInv, TypeOK, WaitReturns
<1>3. CASE running
  <2>1. thrown' \in [Clients -> Exceptions] /\ \A d \in Clients : thrown'[d] # "logic_error"
    BY <1>3 DEF SchedInv, TypeOK, Tracking, TrackingNeverFails, WaitReturns, Exceptions
  <2>2. PrivStop /\ joins' \in [Clients -> 0..MaxRuns]
    BY <1>1, <1>3 DEF SchedInv, TypeOK, WaitReturns
  <2> QED BY <1>1, <1>2, <2>1, <2>2, StopStep
<1>4. CASE ~running
  <2>1. UNCHANGED <<running, paused, pipeline_running, exclusive, blocked, interrupted, thrown>>
    BY <1>4 DEF WaitReturns
  <2>2. TypeOK'
    BY <1>1, <1>2, <2>1, SchedulerAssumption DEF SchedInv, TypeOK
  <2>3. (ReadersInStep /\ Unstarted)'
    BY <1>1 DEF SchedInv, ReadersInStep, Unstarted
  <2>4. (PauseLockOwned /\ LockExcludes /\ Tracking)'
    BY <1>1, <2>1 DEF SchedInv, PauseLockOwned, LockExcludes, Tracking
  <2>5. (PausingHolds /\ TrackingNeverFails)'
    BY <1>2, <2>1 DEF SchedInv, PausingHolds, TrackingNeverFails
  <2> QED BY <2>2, <2>3, <2>4, <2>5 DEF SchedInv
<1> QED BY <1>3, <1>4

LEMMA PauseStep == ASSUME SchedInv, NEW c \in Clients, Pause(c) PROVE SchedInv'
<1> USE DEF SchedInv, Pause, threadVars
<1>1. TypeOK'
  <2>1. thrown' \in [Clients -> Exceptions] /\ blocked' \in BOOLEAN /\ mut' \in Clients \cup {NoClient}
    BY DEF TypeOK, Returns, Exceptions
  <2>2. \A d \in Clients : call'[d] = "pausing" <=> mut' = d
    BY SchedulerAssumption DEF TypeOK, Enter
  <2> QED BY <2>1, <2>2 DEF TypeOK
<1>2. (ReadersInStep /\ Unstarted)'
  BY DEF ReadersInStep, Unstarted
<1>3. (PauseLockOwned /\ LockExcludes /\ Tracking)'
  BY DEF PauseLockOwned, LockExcludes, Tracking
<1>4. (PausingHolds /\ TrackingNeverFails)'
  BY DEF TypeOK, PausingHolds, TrackingNeverFails, Returns
<1> QED BY <1>1, <1>2, <1>3, <1>4

LEMMA PauseReturnsStep == ASSUME SchedInv, NEW c \in Clients, PauseReturns(c) PROVE SchedInv'
<1> USE DEF SchedInv, PauseReturns, threadVars
<1>1. mut = c /\ running
  BY DEF TypeOK, PausingHolds
<1>2. TypeOK'
  <2>1. \A d \in Clients : call'[d] = "pausing" <=> mut' = d
    BY <1>1, SchedulerAssumption DEF TypeOK
  <2> QED BY <2>1 DEF TypeOK
<1>3. (ReadersInStep /\ Unstarted)'
  BY DEF ReadersInStep, Unstarted
<1>4. (PauseLockOwned /\ LockExcludes /\ Tracking)'
  BY <1>1 DEF PauseLockOwned, LockExcludes, Tracking
<1>5. PausingHolds'
  BY <1>1, SchedulerAssumption DEF TypeOK, PausingHolds
<1>6. TrackingNeverFails'
  BY DEF TrackingNeverFails
<1> QED BY <1>2, <1>3, <1>4, <1>5, <1>6

LEMMA ResumeStep == ASSUME SchedInv, NEW c \in Clients, Resume(c) PROVE SchedInv'
<1> USE DEF SchedInv, Resume, threadVars, Unlock
<1>1. TypeOK'
  BY DEF TypeOK, Returns, Exceptions
<1>2. (ReadersInStep /\ Unstarted)'
  BY DEF ReadersInStep, Unstarted
<1>3. (PauseLockOwned /\ LockExcludes /\ Tracking)'
  BY DEF PauseLockOwned, LockExcludes, Tracking
<1>4. (PausingHolds /\ TrackingNeverFails)'
  BY DEF TypeOK, PausingHolds, TrackingNeverFails, Returns
<1> QED BY <1>1, <1>2, <1>3, <1>4

LEMMA ClientStep == ASSUME SchedInv, NEW c \in Clients, ClientNext(c) PROVE SchedInv'
<1>1. CASE Start(c)         BY <1>1, StartStep
<1>2. CASE Stop(c)          BY <1>2, StopCallStep
<1>3. CASE Wait(c)          BY <1>3, WaitStep
<1>4. CASE WaitReturns(c)   BY <1>4, WaitReturnsStep
<1>5. CASE Pause(c)         BY <1>5, PauseStep
<1>6. CASE PauseWaits(c)
  <2> USE <1>6 DEF PauseWaits, SchedInv, clientVars, threadVars
  <2>1. TypeOK'
    BY DEF TypeOK
  <2>2. (ReadersInStep /\ Unstarted)'
    BY DEF ReadersInStep, Unstarted
  <2>3. (PauseLockOwned /\ LockExcludes /\ Tracking /\ PausingHolds /\ TrackingNeverFails)'
    BY DEF PauseLockOwned, LockExcludes, Tracking, PausingHolds, TrackingNeverFails
  <2> QED BY <2>1, <2>2, <2>3
<1>7. CASE PauseReturns(c)  BY <1>7, PauseReturnsStep
<1>8. CASE Resume(c)        BY <1>8, ResumeStep
<1>9. CASE Refused(c)
  <2>1. PICK e \in Exceptions \ {"logic_error"} : Throw(c, e)
    BY <1>9 DEF Refused, WaitRefused, Exceptions
  <2> QED BY <2>1, ThrowStep
<1> QED BY <1>1, <1>2, <1>3, <1>4, <1>5, <1>6, <1>7, <1>8, <1>9 DEF ClientNext

-----------------------------------------------------------------------------
(* A thread that moves within its turn of the loop.                        *)
LEMMA MoveStep ==
  ASSUME SchedInv, NEW t \in Threads, NEW l \in InStep, tpc[t] \in InStep, Goto(t, l),
         UNCHANGED <<clientVars, lockVars, interrupted, ended>>, holds' \subseteq Chain
  PROVE  SchedInv'
<1> USE DEF SchedInv, clientVars, lockVars, Goto
<1>1. TypeOK'
  BY DEF TypeOK, InStep
<1>2. ReadersInStep'
  BY DEF ReadersInStep, TypeOK
<1>3. Unstarted'
  BY DEF Unstarted, TypeOK, InStep
<1>4. (PauseLockOwned /\ LockExcludes /\ Tracking /\ PausingHolds /\ TrackingNeverFails)'
  BY DEF PauseLockOwned, LockExcludes, Tracking, PausingHolds, TrackingNeverFails
<1> QED BY <1>1, <1>2, <1>3, <1>4

(* A thread that ends its turn and gives the shared lock back.             *)
LEMMA LeaveStep ==
  ASSUME SchedInv, NEW t \in Threads, NEW l \in {"top", "exited"}, tpc[t] \in InStep, Goto(t, l),
         UnlockShared(t), UNCHANGED <<clientVars, interrupted>>,
         holds' \subseteq Chain, ended' \subseteq Chain
  PROVE  SchedInv'
<1> USE DEF SchedInv, clientVars, UnlockShared, Goto
<1>1. TypeOK'
  BY DEF TypeOK
<1>2. ReadersInStep'
  BY DEF ReadersInStep, TypeOK, InStep
<1>3. Unstarted'
  BY DEF Unstarted, TypeOK, InStep
<1>4. (PauseLockOwned /\ LockExcludes /\ Tracking /\ PausingHolds /\ TrackingNeverFails)'
  BY DEF PauseLockOwned, LockExcludes, Tracking, PausingHolds, TrackingNeverFails
<1> QED BY <1>1, <1>2, <1>3, <1>4

LEMMA ThreadStep == ASSUME SchedInv, NEW t \in Threads, ThreadNext(t) PROVE SchedInv'
<1>1. CASE LockShared(t)
  <2> USE <1>1 DEF LockShared, SchedInv, clientVars, Goto
  <2>1. TypeOK'
    BY DEF TypeOK
  <2>2. ReadersInStep'
    BY DEF ReadersInStep, TypeOK, InStep
  <2>3. Unstarted'
    BY DEF Unstarted, TypeOK
  <2>4. (PauseLockOwned /\ LockExcludes /\ Tracking /\ PausingHolds /\ TrackingNeverFails)'
    BY DEF PauseLockOwned, LockExcludes, Tracking, PausingHolds, TrackingNeverFails
  <2> QED BY <2>1, <2>2, <2>3, <2>4
<1>2. CASE Interrupted(t)
  <2>1. tpc[t] \in InStep /\ holds' \subseteq Chain /\ ended' \subseteq Chain
    BY <1>2 DEF Interrupted, InStep, SchedInv, TypeOK
  <2>2. Goto(t, "exited") /\ UnlockShared(t) /\ UNCHANGED <<clientVars, interrupted>>
    BY <1>2 DEF Interrupted
  <2> QED BY <2>1, <2>2, LeaveStep
<1>3. CASE BeginStep(t)
  <2>1. tpc[t] \in InStep /\ "step" \in InStep /\ holds' \subseteq Chain
    BY <1>3 DEF BeginStep, InStep, SchedInv, TypeOK
  <2>2. Goto(t, "step") /\ UNCHANGED <<clientVars, lockVars, interrupted, ended>>
    BY <1>3 DEF BeginStep
  <2> QED BY <2>1, <2>2, MoveStep
<1>4. CASE Take(t)
  <2>1. tpc[t] \in InStep /\ "push" \in InStep /\ holds' \subseteq Chain
    BY <1>4 DEF Take, InStep, SchedInv, TypeOK
  <2>2. Goto(t, "push") /\ UNCHANGED <<clientVars, lockVars, interrupted, ended>>
    BY <1>4 DEF Take
  <2> QED BY <2>1, <2>2, MoveStep
<1>5. CASE Push(t)
  <2>1. tpc[t] \in InStep /\ t[2] \in Chain
    BY <1>5 DEF Push, InStep, Threads
  <2>2. holds' \subseteq Chain /\ ended' \subseteq Chain
    BY <1>5, <2>1 DEF Push, SchedInv, TypeOK
  <2>3. Goto(t, "top") /\ UnlockShared(t) /\ UNCHANGED <<clientVars, interrupted>>
    BY <1>5 DEF Push
  <2> QED BY <2>1, <2>2, <2>3, LeaveStep
<1>6. CASE Complete(t)
  <2>1. tpc[t] \in InStep /\ t[2] \in Chain
    BY <1>6 DEF Complete, InStep, Threads
  <2>2. holds' \subseteq Chain /\ ended' \subseteq Chain
    BY <1>6, <2>1 DEF Complete, SchedInv, TypeOK
  <2>3. Goto(t, "exited") /\ UnlockShared(t) /\ UNCHANGED <<clientVars, interrupted>>
    BY <1>6 DEF Complete
  <2> QED BY <2>1, <2>2, <2>3, LeaveStep
<1> QED BY <1>1, <1>2, <1>3, <1>4, <1>5, <1>6 DEF ThreadNext

LEMMA StutterStep == ASSUME SchedInv, UNCHANGED vars PROVE SchedInv'
<1> USE DEF SchedInv, vars, clientVars, lockVars, threadVars
<1>1. TypeOK'
  BY DEF TypeOK
<1>2. (ReadersInStep /\ Unstarted)'
  BY DEF ReadersInStep, Unstarted
<1>3. (PauseLockOwned /\ LockExcludes /\ Tracking /\ PausingHolds /\ TrackingNeverFails)'
  BY DEF PauseLockOwned, LockExcludes, Tracking, PausingHolds, TrackingNeverFails
<1> QED BY <1>1, <1>2, <1>3

(* The invariant of the scheduler and its threads.                         *)
THEOREM SchedulerInvariant == Spec => []SchedInv
<1>1. SchedInv /\ [Next]_vars => SchedInv'
  BY ClientStep, ThreadStep, StutterStep DEF Next
<1> QED BY <1>1, InitSchedInv, PTL DEF Spec

(* Type correctness, and the mutex is held by the client that pauses.      *)
THEOREM TypeCorrect == Spec => []TypeOK
<1>1. SchedInv => TypeOK
  BY DEF SchedInv
<1> QED BY <1>1, SchedulerInvariant, PTL

(* A paused scheduler has no process in a step, for any number of          *)
(* processes and runs.                                                     *)
THEOREM PauseTheorem == Spec => []PausedMeansStill
<1>1. SchedInv => PausedMeansStill
  <2> SUFFICES ASSUME SchedInv, paused, NEW t \in Threads PROVE tpc[t] \notin {"locked", "step", "push"}
    BY DEF PausedMeansStill
  <2>1. readers = {}
    BY DEF SchedInv, PauseLockOwned, LockExcludes
  <2> QED BY <2>1 DEF SchedInv, ReadersInStep, InStep
<1> QED BY <1>1, SchedulerInvariant, PTL

(* The pause lock is held exactly while the scheduler is paused.           *)
THEOREM PauseLockTheorem == Spec => []PauseLockOwned
<1>1. SchedInv => PauseLockOwned
  BY DEF SchedInv
<1> QED BY <1>1, SchedulerInvariant, PTL

(* Any number of clients may wait and stop: the pipeline is stopped once.  *)
THEOREM TrackingTheorem == Spec => []TrackingNeverFails
<1>1. SchedInv => TrackingNeverFails
  BY DEF SchedInv
<1> QED BY <1>1, SchedulerInvariant, PTL
=============================================================================
