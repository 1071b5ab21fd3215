--------------------------- MODULE WorkerGate_proofs ---------------------------
(***************************************************************************)
(* Proofs about WorkerGate, for a swap that may or may not fail spuriously *)
(* and whether or not shutdown is requested while another thread waits.    *)
(* GateInv says what each thread may rely on at each of its steps; it is   *)
(* inductive because every change of the state has one owner: only the     *)
(* controller leaves Created, Running and Parked, and only the worker      *)
(* leaves PauseRequested.                                                  *)
(***************************************************************************)
EXTENDS WorkerGate, TLAPS

LEMMA GateInit == Init => GateInv
  BY DEF Init, GateInv, TypeOK, NeverFails, ControllerInv, StopperInv,
         WorkerInv, States, ControllerSteps, WorkerSteps, Quiet

LEMMA GateStutter ==
  ASSUME GateInv, UNCHANGED vars
  PROVE  GateInv'
  BY DEF GateInv, TypeOK, NeverFails, ControllerInv, StopperInv, WorkerInv,
         States, ControllerSteps, WorkerSteps, Quiet, vars, gate,
         controllerVars, workerVars

\* The steps of the controlling thread preserve the invariant.
LEMMA GateController ==
  ASSUME GateInv, BeginActivate \/ BeginPause \/ ControllerStep
  PROVE  GateInv'
  <1> USE DEF GateInv, TypeOK, NeverFails, ControllerInv, StopperInv, WorkerInv,
              States, ControllerSteps, WorkerSteps, Quiet, gate,
              controllerVars, workerVars, ControllerGoes, WorkerGoes,
              CasSucceeds, CasFails, FailFast, AfterPausePoint
  <1>1. CASE BeginActivate
    BY <1>1 DEF BeginActivate
  <1>2. CASE ActivateLoad
    BY <1>2 DEF ActivateLoad
  <1>3. CASE ActivateCas
    BY <1>3 DEF ActivateCas
  <1>4. CASE StartThread
    BY <1>4 DEF StartThread
  <1>5. CASE SignalResume
    BY <1>5 DEF SignalResume
  <1>6. CASE BeginPause
    BY <1>6 DEF BeginPause
  <1>7. CASE PauseLoad
    BY <1>7 DEF PauseLoad
  <1>8. CASE PauseCas
    BY <1>8 DEF PauseCas
  <1>9. CASE WaitLoad
    BY <1>9 DEF WaitLoad
  <1>10. CASE WaitEvent
    <2>1. TypeOK' /\ NeverFails'
      <3>1. parkedEvent' \in BOOLEAN /\ failed' = failed
        BY <1>10 DEF WaitEvent
      <3>2. UNCHANGED <<state, shutdownRequested, resumeEvent, controllerSaw,
                        stopper, worker, atSecondPoint, workerSaw>>
        BY <1>10 DEF WaitEvent
      <3>3. controller' \in ControllerSteps
        BY <1>10 DEF WaitEvent
      <3> QED
        BY <3>1, <3>2, <3>3
    <2>2. ControllerInv'
      BY <1>10 DEF WaitEvent
    <2>3. StopperInv'
      BY <1>10 DEF WaitEvent
    <2>4. WorkerInv'
      BY <1>10 DEF WaitEvent
    <2> QED
      BY <2>1, <2>2, <2>3, <2>4
  <1> QED
    BY <1>1, <1>2, <1>3, <1>4, <1>5, <1>6, <1>7, <1>8, <1>9, <1>10
       DEF ControllerStep

\* So do the steps of shutting down.
LEMMA GateStopper ==
  ASSUME GateInv, LatchShutdown \/ StopperStep
  PROVE  GateInv'
  <1> USE DEF GateInv, TypeOK, NeverFails, ControllerInv, StopperInv, WorkerInv,
              States, ControllerSteps, WorkerSteps, Quiet, gate,
              controllerVars, workerVars, ControllerGoes, WorkerGoes,
              CasSucceeds, CasFails, FailFast, AfterPausePoint
  <1>1. CASE LatchShutdown
    BY <1>1 DEF LatchShutdown
  <1>2. CASE ReleaseWorker
    <2>1. TypeOK' /\ NeverFails'
      <3>1. resumeEvent' \in BOOLEAN /\ failed' = failed
        BY <1>2, Zenon DEF ReleaseWorker
      <3>2. UNCHANGED <<state, shutdownRequested, parkedEvent, controller,
                        controllerSaw, atSecondPoint, workerSaw>>
        BY <1>2 DEF ReleaseWorker
      <3>3. stopper' = "joining" /\ worker' \in WorkerSteps
        BY <1>2 DEF ReleaseWorker
      <3> QED
        BY <3>1, <3>2, <3>3
    <2>2. ControllerInv'
      BY <1>2 DEF ReleaseWorker
    <2>3. StopperInv'
      BY <1>2 DEF ReleaseWorker
    <2>4. WorkerInv'
      BY <1>2 DEF ReleaseWorker
    <2> QED
      BY <2>1, <2>2, <2>3, <2>4
  <1>3. CASE JoinAndDestroy
    BY <1>3 DEF JoinAndDestroy
  <1> QED
    BY <1>1, <1>2, <1>3 DEF StopperStep

\* So do the steps of the worker.
LEMMA GateWorker ==
  ASSUME GateInv, WorkerStep
  PROVE  GateInv'
  <1> USE DEF GateInv, TypeOK, NeverFails, ControllerInv, StopperInv, WorkerInv,
              States, ControllerSteps, WorkerSteps, Quiet, gate,
              controllerVars, workerVars, ControllerGoes, WorkerGoes,
              CasSucceeds, CasFails, FailFast, AfterPausePoint
  <1>1. CASE LoopTop
    <2>1. TypeOK' /\ NeverFails'
      BY <1>1, ZenonT(30) DEF LoopTop
    <2>2. ControllerInv'
      BY <1>1 DEF LoopTop
    <2>3. StopperInv'
      BY <1>1 DEF LoopTop
    <2>4. WorkerInv'
      BY <1>1 DEF LoopTop
    <2> QED
      BY <2>1, <2>2, <2>3, <2>4
  <1>2. CASE ReadLatch
    BY <1>2 DEF ReadLatch
  <1>3. CASE PausePointLoad
    BY <1>3 DEF PausePointLoad
  <1>4. CASE Park
    BY <1>4 DEF Park
  <1>5. CASE Acknowledge
    BY <1>5 DEF Acknowledge
  <1>6. CASE Wake
    <2>1. TypeOK' /\ NeverFails'
      <3>1. resumeEvent' \in BOOLEAN /\ failed' = failed
        BY <1>6 DEF Wake
      <3>2. UNCHANGED <<state, shutdownRequested, parkedEvent, controller,
                        controllerSaw, stopper, atSecondPoint, workerSaw>>
        BY <1>6 DEF Wake
      <3>3. worker' \in WorkerSteps
        BY <1>6 DEF Wake
      <3> QED
        BY <3>1, <3>2, <3>3
    <2>2. ControllerInv'
      BY <1>6 DEF Wake
    <2>3. StopperInv'
      BY <1>6 DEF Wake
    <2>4. WorkerInv'
      BY <1>6 DEF Wake
    <2> QED
      BY <2>1, <2>2, <2>3, <2>4
  <1>7. CASE StopLoad
    BY <1>7 DEF StopLoad
  <1>8. CASE StopPark
    <2>1. TypeOK' /\ NeverFails'
      BY <1>8 DEF StopPark
    <2>2. ControllerInv'
      BY <1>8 DEF StopPark
    <2>3. StopperInv'
      BY <1>8 DEF StopPark
    <2>4. WorkerInv'
      BY <1>8 DEF StopPark
    <2> QED
      BY <2>1, <2>2, <2>3, <2>4
  <1>9. CASE StopAcknowledge
    BY <1>9 DEF StopAcknowledge
  <1>10. CASE CommandWait
    BY <1>10 DEF CommandWait
  <1>11. CASE Work
    BY <1>11 DEF Work
  <1> QED
    BY <1>1, <1>2, <1>3, <1>4, <1>5, <1>6, <1>7, <1>8, <1>9, <1>10, <1>11
       DEF WorkerStep

\* The invariant holds throughout.
THEOREM Invariance == Spec => []GateInv
  <1>1. GateInv /\ [Next]_vars => GateInv'
    BY GateController, GateStopper, GateWorker, GateStutter DEF Next
  <1> QED
    BY GateInit, <1>1, PTL DEF Spec

\* No interleaving makes a call of the gate abort (Sys_WorkerGateFailFast).
THEOREM NoAbort == Spec => []NeverFails
  <1>1. GateInv => NeverFails
    BY DEF GateInv
  <1> QED
    BY <1>1, Invariance, PTL

\* A paused worker holds no command until it is activated again: what
\* Sys_SetWorkerThreadActive(.., false) promises its caller.
THEOREM PauseIsSafe == Spec => []PausedIsQuiet
  <1>1. GateInv => PausedIsQuiet
    BY DEF GateInv, TypeOK, ControllerInv, WorkerInv, States, Quiet,
           PausedIsQuiet
  <1> QED
    BY <1>1, Invariance, PTL

=============================================================================
