------------------------------ MODULE WorkerGate ------------------------------
(***************************************************************************)
(* The gate that pauses, resumes and shuts down one renderer worker thread *)
(* (qcommon/sys_worker_gate.cpp), driven as qcommon/threads.cpp drives it  *)
(* (Sys_SetWorkerThreadActive, Sys_ShutdownWorkerThread) and observed by   *)
(* the worker's loop (R_WorkerThread in gfx_d3d/r_workercmds.cpp).         *)
(*                                                                         *)
(* One step is one access to the gate: a load, a compare-and-swap, a store *)
(* or an operation on one of its two auto-reset events.  All of them are   *)
(* sequentially consistent.  The event that wakes an idle worker for a     *)
(* command is waited for at most one millisecond, so it is no step's guard.*)
(***************************************************************************)
CONSTANTS
  CasMayFail,     \* compare_exchange_weak may fail although the value matches
  ConcurrentStop  \* shutdown may be requested while another thread waits for
                  \* the worker to pause; the engine does both on one thread

ASSUME WorkerGateAssumption == CasMayFail \in BOOLEAN /\ ConcurrentStop \in BOOLEAN

VARIABLES
  \* the gate
  state,
  shutdownRequested,
  resumeEvent,
  parkedEvent,
  \* the controlling thread: what it does next, and the state it loaded
  controller,
  controllerSaw,
  \* the thread that shuts the worker down
  stopper,
  \* the worker: what it does next, from which of its two pause points, and
  \* the state it loaded
  worker,
  atSecondPoint,
  workerSaw,
  failed       \* Sys_WorkerGateFailFast was called

gate == <<state, shutdownRequested, resumeEvent, parkedEvent>>
controllerVars == <<controller, controllerSaw>>
workerVars == <<worker, atSecondPoint, workerSaw>>
vars == <<gate, controllerVars, stopper, workerVars, failed>>

-----------------------------------------------------------------------------

States == {"Created", "Running", "PauseRequested", "Parked"}

Init ==
  /\ state = "Created"
  /\ shutdownRequested = FALSE
  /\ resumeEvent = FALSE
  /\ parkedEvent = FALSE
  /\ controller = "idle"
  /\ controllerSaw = "Created"
  /\ stopper = "none"
  /\ worker = "suspended"
  /\ atSecondPoint = FALSE
  /\ workerSaw = "Created"
  /\ failed = FALSE

\* compare_exchange_weak of the state, expecting saw.
CasSucceeds(saw, new) == state = saw /\ state' = new
CasFails(saw) == (state # saw \/ CasMayFail) /\ state' = state

FailFast == failed' = TRUE

-----------------------------------------------------------------------------
(* The controller: Sys_SetWorkerThreadActive. *)

ControllerGoes(from, to) ==
  /\ controller = from
  /\ controller' = to
  /\ UNCHANGED <<stopper, workerVars>>

\* Shutdown is terminal: nothing is activated or paused after it.
BeginActivate ==
  /\ stopper = "none"
  /\ ControllerGoes("idle", "activateLoad")
  /\ UNCHANGED <<gate, controllerSaw, failed>>

\* Sys_WorkerGateActivate
ActivateLoad ==
  /\ controllerSaw' = state
  /\ \/ state = "Running" /\ ControllerGoes("activateLoad", "idle")
     \/ state = "PauseRequested" /\ ControllerGoes("activateLoad", "aborted")
     \/ state \in {"Created", "Parked"}
          /\ ControllerGoes("activateLoad", "activateCas")
  /\ IF state = "PauseRequested" THEN FailFast ELSE UNCHANGED failed
  /\ UNCHANGED gate

ActivateCas ==
  /\ \/ /\ CasSucceeds(controllerSaw, "Running")
        /\ ControllerGoes("activateCas",
             IF controllerSaw = "Created" THEN "startThread" ELSE "signal")
     \/ /\ CasFails(controllerSaw)
        /\ ControllerGoes("activateCas", "activateLoad")
  /\ UNCHANGED <<shutdownRequested, resumeEvent, parkedEvent, controllerSaw,
                 failed>>

\* The first activation starts the thread.
StartThread ==
  /\ controller = "startThread"
  /\ controller' = "idle"
  /\ worker = "suspended"
  /\ worker' = "top"
  /\ UNCHANGED <<gate, controllerSaw, stopper, atSecondPoint, workerSaw,
                 failed>>

\* A faulty activation that does not wake the worker.
ForgetResume ==
  /\ ControllerGoes("signal", "idle")
  /\ UNCHANGED <<gate, controllerSaw, failed>>

SignalResume ==
  /\ ControllerGoes("signal", "idle")
  /\ resumeEvent' = TRUE
  /\ UNCHANGED <<state, shutdownRequested, parkedEvent, controllerSaw, failed>>

BeginPause ==
  /\ stopper = "none"
  /\ ControllerGoes("idle", "pauseLoad")
  /\ UNCHANGED <<gate, controllerSaw, failed>>

\* Sys_WorkerGateRequestPause
PauseLoad ==
  /\ controllerSaw' = state
  /\ \/ state \in {"Created", "Parked"} /\ ControllerGoes("pauseLoad", "idle")
     \/ state = "Running" /\ ControllerGoes("pauseLoad", "pauseCas")
     \/ state = "PauseRequested" /\ ControllerGoes("pauseLoad", "waitLoad")
  /\ UNCHANGED <<gate, failed>>

\* A faulty pause that returns without waiting.
PauseWithoutWaiting ==
  /\ \/ /\ CasSucceeds(controllerSaw, "PauseRequested")
        /\ ControllerGoes("pauseCas", "idle")
     \/ /\ CasFails(controllerSaw)
        /\ ControllerGoes("pauseCas", "pauseLoad")
  /\ UNCHANGED <<shutdownRequested, resumeEvent, parkedEvent, controllerSaw,
                 failed>>

PauseCas ==
  /\ \/ /\ CasSucceeds(controllerSaw, "PauseRequested")
        /\ ControllerGoes("pauseCas", "waitLoad")
     \/ /\ CasFails(controllerSaw)
        /\ ControllerGoes("pauseCas", "pauseLoad")
  /\ UNCHANGED <<shutdownRequested, resumeEvent, parkedEvent, controllerSaw,
                 failed>>

\* Sys_WorkerGateWaitPaused
WaitLoad ==
  /\ \/ state \in {"Created", "Parked"} /\ ControllerGoes("waitLoad", "idle")
     \/ state = "PauseRequested" /\ ControllerGoes("waitLoad", "waitEvent")
     \/ state = "Running" /\ ControllerGoes("waitLoad", "aborted")
  /\ IF state = "Running" THEN FailFast ELSE UNCHANGED failed
  /\ UNCHANGED <<gate, controllerSaw>>

WaitEvent ==
  /\ parkedEvent
  /\ parkedEvent' = FALSE
  /\ ControllerGoes("waitEvent", "waitLoad")
  /\ UNCHANGED <<state, shutdownRequested, resumeEvent, controllerSaw, failed>>

-----------------------------------------------------------------------------
(* Shutting down: Sys_ShutdownWorkerThread.                                  *)

\* Sys_WorkerGateRequestShutdown, its store and then its load.
LatchShutdown ==
  /\ stopper = "none"
  /\ \/ controller = "idle"
     \/ ConcurrentStop /\ controller \in {"waitLoad", "waitEvent"}
  /\ stopper' = "latched"
  /\ shutdownRequested' = TRUE
  /\ UNCHANGED <<state, resumeEvent, parkedEvent, controllerVars, workerVars,
                 failed>>

\* A faulty request that leaves a parked worker asleep.
StopWithoutRelease ==
  /\ stopper = "latched"
  /\ stopper' = "joining"
  /\ worker' = IF state = "Created" THEN "top" ELSE worker
  /\ UNCHANGED <<gate, controllerVars, atSecondPoint, workerSaw, failed>>

\* A worker that never started is run once; any other is released.
ReleaseWorker ==
  /\ stopper = "latched"
  /\ stopper' = "joining"
  /\ \/ state = "Created" /\ worker' = "top" /\ UNCHANGED resumeEvent
     \/ state # "Created" /\ resumeEvent' = TRUE /\ UNCHANGED worker
  /\ UNCHANGED <<state, shutdownRequested, parkedEvent, controllerVars,
                 atSecondPoint, workerSaw, failed>>

\* Sys_ThreadJoin, Sys_WorkerGateDestroy
JoinAndDestroy ==
  /\ stopper = "joining"
  /\ worker = "finished"
  /\ controller = "idle"
  /\ IF shutdownRequested \/ state \in {"Created", "Running"}
     THEN stopper' = "destroyed" /\ UNCHANGED failed
     ELSE stopper' = "aborted" /\ FailFast
  /\ UNCHANGED <<gate, controllerVars, workerVars>>

-----------------------------------------------------------------------------
(* The worker: R_WorkerThread and Sys_WorkerGatePausePoint. *)

WorkerGoes(from, to) ==
  /\ worker = from
  /\ worker' = to
  /\ UNCHANGED <<controllerVars, stopper>>

\* Where the worker goes when the pause point it is at returns.
AfterPausePoint == IF atSecondPoint THEN "work" ELSE "commandWait"

LoopTop ==
  /\ WorkerGoes("top", IF shutdownRequested THEN "finished" ELSE "latch")
  /\ atSecondPoint' = FALSE
  /\ UNCHANGED <<gate, workerSaw, failed>>

ReadLatch ==
  /\ WorkerGoes("latch", IF shutdownRequested THEN "stopLoad" ELSE "load")
  /\ UNCHANGED <<gate, atSecondPoint, workerSaw, failed>>

PausePointLoad ==
  /\ workerSaw' = state
  /\ \/ state = "Running" /\ WorkerGoes("load", AfterPausePoint)
     \/ state = "PauseRequested" /\ WorkerGoes("load", "park")
     \/ state = "Parked" /\ WorkerGoes("load", "sleep")
     \/ state = "Created" /\ WorkerGoes("load", "aborted")
  /\ IF state = "Created" THEN FailFast ELSE UNCHANGED failed
  /\ UNCHANGED <<gate, atSecondPoint>>

Park ==
  /\ \/ CasSucceeds(workerSaw, "Parked") /\ WorkerGoes("park", "acknowledge")
     \/ CasFails(workerSaw) /\ WorkerGoes("park", "latch")
  /\ UNCHANGED <<shutdownRequested, resumeEvent, parkedEvent, atSecondPoint,
                 workerSaw, failed>>

\* A faulty worker that parks without telling the controller.
ParkSilently ==
  /\ WorkerGoes("acknowledge", "latch")
  /\ UNCHANGED <<gate, atSecondPoint, workerSaw, failed>>

Acknowledge ==
  /\ WorkerGoes("acknowledge", "latch")
  /\ parkedEvent' = TRUE
  /\ UNCHANGED <<state, shutdownRequested, resumeEvent, atSecondPoint,
                 workerSaw, failed>>

\* A faulty wait that takes any signal for a resumption.
WakeUnchecked ==
  /\ resumeEvent
  /\ resumeEvent' = FALSE
  /\ WorkerGoes("sleep", AfterPausePoint)
  /\ UNCHANGED <<state, shutdownRequested, parkedEvent, atSecondPoint,
                 workerSaw, failed>>

Wake ==
  /\ resumeEvent
  /\ resumeEvent' = FALSE
  /\ WorkerGoes("sleep", "latch")
  /\ UNCHANGED <<state, shutdownRequested, parkedEvent, atSecondPoint,
                 workerSaw, failed>>

\* Once the latch was seen, a pause is acknowledged and the worker goes on.
StopLoad ==
  /\ workerSaw' = state
  /\ WorkerGoes("stopLoad", IF state = "PauseRequested" THEN "stopPark"
                                                        ELSE AfterPausePoint)
  /\ UNCHANGED <<gate, atSecondPoint, failed>>

\* The swap is not tried again.
StopPark ==
  /\ \/ /\ CasSucceeds(workerSaw, "Parked")
        /\ WorkerGoes("stopPark", "stopAcknowledge")
     \/ /\ CasFails(workerSaw)
        /\ WorkerGoes("stopPark", AfterPausePoint)
  /\ UNCHANGED <<shutdownRequested, resumeEvent, parkedEvent, atSecondPoint,
                 workerSaw, failed>>

StopAcknowledge ==
  /\ WorkerGoes("stopAcknowledge", AfterPausePoint)
  /\ parkedEvent' = TRUE
  /\ UNCHANGED <<state, shutdownRequested, resumeEvent, atSecondPoint,
                 workerSaw, failed>>

\* Sys_WaitForWorkerCmd returns, signalled or not.
CommandWait ==
  /\ WorkerGoes("commandWait", "latch")
  /\ atSecondPoint' = TRUE
  /\ UNCHANGED <<gate, workerSaw, failed>>

\* R_ProcessWorkerCmds; while worker = "work" it owns commands.
Work ==
  /\ WorkerGoes("work", "top")
  /\ UNCHANGED <<gate, atSecondPoint, workerSaw, failed>>

-----------------------------------------------------------------------------

ControllerStep ==
  \/ ActivateLoad \/ ActivateCas \/ StartThread \/ SignalResume
  \/ PauseLoad \/ PauseCas \/ WaitLoad \/ WaitEvent

StopperStep == ReleaseWorker \/ JoinAndDestroy

WorkerStep ==
  \/ LoopTop \/ ReadLatch \/ PausePointLoad \/ Park \/ Acknowledge \/ Wake
  \/ StopLoad \/ StopPark \/ StopAcknowledge \/ CommandWait \/ Work

Next ==
  \/ BeginActivate \/ BeginPause \/ ControllerStep
  \/ LatchShutdown \/ StopperStep
  \/ WorkerStep

Spec == Init /\ [][Next]_vars

\* The scheduler runs every thread that can go on; whether the program
\* activates, pauses or stops the worker is its own choice.  A swap that is
\* tried again and again succeeds in the end.
Fairness ==
  /\ WF_vars(ControllerStep)
  /\ WF_vars(StopperStep)
  /\ WF_vars(WorkerStep)
  /\ SF_vars(ActivateCas /\ state' # state)
  /\ SF_vars(PauseCas /\ state' # state)
  /\ SF_vars(Park /\ state' # state)

FairSpec == Spec /\ Fairness

-----------------------------------------------------------------------------
(* Properties. *)

ControllerSteps ==
  {"idle", "activateLoad", "activateCas", "startThread", "signal",
   "pauseLoad", "pauseCas", "waitLoad", "waitEvent", "aborted"}
WorkerSteps ==
  {"suspended", "top", "latch", "load", "park", "acknowledge", "sleep",
   "stopLoad", "stopPark", "stopAcknowledge", "commandWait", "work",
   "finished", "aborted"}

\* The values of the gate and of the three threads.
TypeOK ==
  /\ state \in States
  /\ shutdownRequested \in BOOLEAN
  /\ resumeEvent \in BOOLEAN
  /\ parkedEvent \in BOOLEAN
  /\ controller \in ControllerSteps
  /\ controllerSaw \in States
  /\ stopper \in {"none", "latched", "joining", "destroyed", "aborted"}
  /\ worker \in WorkerSteps
  /\ atSecondPoint \in BOOLEAN
  /\ workerSaw \in States
  /\ failed \in BOOLEAN

\* However the threads interleave, and whatever signals are left over from
\* earlier pauses, the program keeps to the gate's contract: no call aborts.
NeverFails == ~failed

\* The worker waits inside its pause point, or has not been started.
Quiet == worker \in {"suspended", "latch", "load", "acknowledge", "sleep"}

\* Once Sys_SetWorkerThreadActive(.., false) has returned, the worker neither
\* holds nor takes a command until it is activated again.
PausedIsQuiet ==
  controller = "idle" /\ state # "Running" /\ ~shutdownRequested => Quiet

\* The strengthening that makes NeverFails and PausedIsQuiet inductive: what
\* each thread may rely on about the state at each of its steps.
ControllerInv ==
  /\ state = "PauseRequested" => controller \in {"waitLoad", "waitEvent"}
  /\ controller \in {"waitLoad", "waitEvent"} =>
       state \in {"PauseRequested", "Parked"}
  /\ controller = "activateCas" =>
       state = controllerSaw /\ state \in {"Created", "Parked"}
  /\ controller = "pauseCas" => state = "Running" /\ controllerSaw = "Running"
  /\ controller \in {"startThread", "signal"} => state = "Running"
  /\ controller = "startThread" => worker = "suspended"

StopperInv ==
  /\ shutdownRequested <=> stopper # "none"
  /\ shutdownRequested => controller \in {"idle", "waitLoad", "waitEvent"}

WorkerInv ==
  /\ state = "Created" /\ ~shutdownRequested => worker = "suspended"
  /\ state = "Created" => worker \in {"suspended", "top", "finished"}
  /\ worker = "suspended" => state = "Created" \/ controller = "startThread"
  /\ state = "Parked" /\ ~shutdownRequested => Quiet
  /\ worker \in {"stopLoad", "stopPark", "stopAcknowledge"} => shutdownRequested
  /\ worker \in {"park", "stopPark"} =>
       state = "PauseRequested" /\ workerSaw = "PauseRequested"

GateInv ==
  /\ TypeOK
  /\ NeverFails
  /\ ControllerInv
  /\ StopperInv
  /\ WorkerInv

\* Waiting for the worker to pause ends, unless the worker is shut down
\* meanwhile: then it may leave its loop without parking.
PauseReturns ==
  controller = "waitLoad" ~> controller = "idle" \/ stopper # "none"

\* An activated worker comes back to its commands: no signal is lost.
ActivatedWorks ==
  <>[](state = "Running" /\ stopper = "none") => []<>(worker = "work")

\* Shutting down ends, from whatever state the gate was in: the worker leaves
\* its loop, and the gate is destroyed unless somebody still waits at it.
ShutdownEnds ==
  stopper = "latched" ~>
    worker = "finished" /\ (controller = "idle" => stopper = "destroyed")

=============================================================================
