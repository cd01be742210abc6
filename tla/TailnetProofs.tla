--------------------------- MODULE TailnetProofs ---------------------------
(***************************************************************************)
(* Proofs about Tailnet for every number of handlers and of requests: the  *)
(* type invariant, that tsStartMu and configSaveMu exclude, that at most   *)
(* one tsnet server runs, that a published server runs, that none runs     *)
(* behind the closed gate, that a disconnect is final, and that the        *)
(* recovery worker never writes anything but the saved exit node.          *)
(***************************************************************************)
EXTENDS Tailnet, TLAPS, FiniteSetTheorems

StepActions(p) ==
  \/ StopRecovery(p, "stop1", "join1", "cancel") \/ CancelRetry(p)
  \/ StopRecovery(p, "stop2", "join2", AfterStop(p))
  \/ StopRecovery(p, "stop0", "join0", "lock")
  \/ StartClose(p) \/ StartUp(p) \/ StartUpFails(p) \/ StartUpSucceeds(p)
  \/ StartReadExit(p) \/ RefreshRead(p) \/ RefreshCommit(p) \/ ScheduleRetry(p)
  \/ ApplyRead(p) \/ ApplyEdit(p) \/ ApplyVerify(p)
  \/ ConfiguredApplied(p) \/ ScheduleRecovery(p)
  \/ ExitNodeRefused(p) \/ ExitNodeSave(p) \/ ExitNodeRolledBack(p)
  \/ SaveKey(p) \/ DisconnectClose(p)

\* The type invariant of Tailnet holds in every reachable state.
THEOREM TypeCorrect == Spec => []TypeOK
<1>1. Init => TypeOK
  <2> SUFFICES ASSUME Init PROVE TypeOK
    OBVIOUS
  <2>1. pc \in [Procs -> Labels]
    BY DEF Init, Labels
  <2>2. op \in [Procs -> OpNames]
    BY DEF Init, OpNames, StartOps
  <2>3. requests \in 0..MaxRequests
    BY ConstantsAssumption DEF Init
  <2>4. exitNodeActive \in BOOLEAN /\ retryCancelled \in BOOLEAN /\ recoveryCancelled \in BOOLEAN
    BY DEF Init
  <2> QED
    BY <2>1, <2>2, <2>3, <2>4 DEF Init, TypeOK, Names
<1>2. TypeOK /\ [Next]_vars => TypeOK'
  <2> SUFFICES ASSUME TypeOK, [Next]_vars PROVE TypeOK'
    OBVIOUS
  <2> USE ConstantsAssumption DEF TypeOK
  <2>1. ASSUME NEW p \in Procs, NEW at, NEW join, NEW next \in Labels, join \in Labels,
               StopRecovery(p, at, join, next)
        PROVE  TypeOK'
    <3> USE DEF Goto, appVars, mutexes, tsnetVars, workVars, locals, ghosts
    <3>1. CASE pc' = [pc EXCEPT ![p] = next] /\ UNCHANGED workVars
      BY <2>1, <3>1 DEF StopRecovery
    <3>2. CASE /\ recoveryCancelled' = TRUE /\ pc' = [pc EXCEPT ![p] = join]
               /\ recoveryWaiters' = recoveryWaiters \cup {p}
               /\ UNCHANGED <<retryCancelled, retryWaiters>>
      BY <2>1, <3>2, ZenonT(40) DEF StopRecovery
    <3> QED
      BY <2>1, <3>1, <3>2, ZenonT(40) DEF StopRecovery
  <2>2. ASSUME NEW p \in Procs, StepActions(p) PROVE TypeOK'
    <3>1. AfterStop(p) \in Labels /\ \A r : Returned(p, r) \in Labels
      BY DEF AfterStop, Returned, Labels
    <3>2. CASE StopRecovery(p, "stop1", "join1", "cancel")
      BY <3>2, <2>1 DEF Labels
    <3>3. CASE StopRecovery(p, "stop2", "join2", AfterStop(p))
      BY <3>3, <3>1, <2>1 DEF Labels
    <3>4. CASE StopRecovery(p, "stop0", "join0", "lock")
      BY <3>4, <2>1 DEF Labels
    <3> USE DEF Goto, Forget, appVars, mutexes, tsnetVars, workVars, locals, ghosts
    <3>5. CASE CancelRetry(p)
      <4>1. CASE pc' = [pc EXCEPT ![p] = "stop2"] /\ UNCHANGED workVars
        BY <3>5, <4>1 DEF CancelRetry, Labels
      <4>2. CASE /\ retryCancelled' = TRUE /\ pc' = [pc EXCEPT ![p] = "joinRetry"]
                 /\ retryWaiters' = retryWaiters \cup {p}
                 /\ UNCHANGED <<recoveryCancelled, recoveryWaiters>>
        <5>1. retryCancelled' \in BOOLEAN /\ retryWaiters' \subseteq Procs
          BY <4>2
        <5>2. pc' \in [Procs -> Labels]
          BY <4>2 DEF Labels
        <5>3. UNCHANGED <<appVars, mutexes, tsnetVars, locals, ghosts>>
          BY <3>5 DEF CancelRetry
        <5> QED
          BY <4>2, <5>1, <5>2, <5>3
      <4> QED
        BY <3>5, <4>1, <4>2 DEF CancelRetry
    <3>6. CASE StartClose(p)
      BY <3>6 DEF StartClose, Close, Labels
    <3>7. CASE StartUp(p)
      BY <3>7 DEF StartUp, Labels
    <3>8. CASE StartUpFails(p)
      BY <3>8, <3>1 DEF StartUpFails
    <3>9. CASE StartUpSucceeds(p)
      BY <3>9 DEF StartUpSucceeds, Labels
    <3>10. CASE StartReadExit(p)
      BY <3>10 DEF StartReadExit, Labels
    <3>11. CASE RefreshRead(p)
      BY <3>11 DEF RefreshRead, Labels, Names
    <3>12. CASE RefreshCommit(p)
      BY <3>12, <3>1 DEF RefreshCommit, Names
    <3>13. CASE ScheduleRetry(p)
      BY <3>13 DEF ScheduleRetry, RetryScheduled, Labels, Procs
    <3>14. CASE ApplyRead(p)
      BY <3>14 DEF ApplyRead, ReadPrefs, Labels
    <3>15. CASE ApplyEdit(p)
      BY <3>15 DEF ApplyEdit, ExitNodePreference, Labels
    <3>16. CASE ApplyVerify(p)
      BY <3>16 DEF ApplyVerify, EffectiveExitNode, Labels
    <3>17. CASE ConfiguredApplied(p)
      BY <3>17, <3>1 DEF ConfiguredApplied, Labels, Names
    <3>18. CASE ScheduleRecovery(p)
      BY <3>18, <3>1 DEF ScheduleRecovery, RecoveryScheduled, Labels, Procs
    <3>19. CASE ExitNodeRefused(p)
      <4>1. pc' \in [Procs -> Labels]
        BY <3>19 DEF ExitNodeRefused, Labels
      <4> QED
        BY <3>19, <4>1 DEF ExitNodeRefused, Names
    <3>20. CASE ExitNodeSave(p)
      <4>0. /\ UNCHANGED <<locked, tsServer, hasKey, tsStartMu, tsnetVars, workVars, ghosts>>
            /\ name[p] \in Names /\ old[p] \in Names
        BY <3>20 DEF ExitNodeSave
      <4>1. CASE /\ exitNode' = name[p] /\ exitNodeActive' = (name[p] # NoNode)
                 /\ configSaveMu' = Nobody /\ Forget(p) /\ Goto(p, "idle") /\ UNCHANGED op
        <5>1. exitNodeActive' \in BOOLEAN
          BY <4>1
        <5>4. exitNode' \in Names
          BY <4>0, <4>1
        <5>2. pc' \in [Procs -> Labels]
          BY <4>1 DEF Labels
        <5>3. UNCHANGED op
          BY <4>1
        <5> QED
          BY <4>0, <4>1, <5>1, <5>2, <5>3, <5>4 DEF Names
      <4>2. CASE /\ op' = [op EXCEPT ![p] = "rollback"]
                 /\ name' = [name EXCEPT ![p] = old[p]] /\ Goto(p, "apply")
                 /\ UNCHANGED <<exitNode, exitNodeActive, configSaveMu, old, srv, prev>>
        <5>1. op' \in [Procs -> OpNames]
          BY <4>2 DEF OpNames
        <5>2. pc' \in [Procs -> Labels] /\ name' \in [Procs -> Names]
          BY <4>2 DEF Labels, Names
        <5> QED
          BY <4>0, <4>2, <5>1, <5>2 DEF Names
      <4> QED
        BY <3>20, <4>1, <4>2 DEF ExitNodeSave
    <3>21. CASE ExitNodeRolledBack(p)
      BY <3>21 DEF ExitNodeRolledBack, Labels, Names
    <3>22. CASE SaveKey(p)
      <4>1. hasKey' \in BOOLEAN
        BY <3>22 DEF SaveKey, SaveCredential
      <4>2. pc' \in [Procs -> Labels]
        BY <3>22 DEF SaveKey, SaveCredential, Labels
      <4>3. UNCHANGED <<locked, exitNode, tsServer, exitNodeActive, mutexes, tsnetVars,
                        workVars, locals, ghosts>>
        BY <3>22 DEF SaveKey, SaveCredential
      <4> QED
        BY <4>1, <4>2, <4>3
    <3>23. CASE DisconnectClose(p)
      BY <3>23 DEF DisconnectClose, Close, Labels
    <3> QED
      BY <2>2, <3>2, <3>3, <3>4, <3>5, <3>6, <3>7, <3>8, <3>9, <3>10, <3>11, <3>12,
         <3>13, <3>14, <3>15, <3>16, <3>17, <3>18, <3>19, <3>20, <3>21, <3>22, <3>23
         DEF StepActions
  <2> USE DEF Goto, Forget, appVars, mutexes, tsnetVars, workVars, locals, ghosts
  <2>3. ASSUME NEW p \in Procs, WorkerStep(p) PROVE TypeOK'
    <3>1. CASE RetryWait
      BY <3>1 DEF RetryWait, Labels, Procs
    <3>2. CASE RetryCleanup
      <4>1. retryCancelled' \in BOOLEAN
        BY <3>2 DEF RetryCleanup, CloseDone
      <4>2. /\ Retry \in Procs /\ retryWaiters' = {} /\ pc' = [pc EXCEPT ![Retry] = "off"]
            /\ UNCHANGED <<appVars, mutexes, tsnetVars, recoveryCancelled,
                           recoveryWaiters, locals, ghosts>>
        BY <3>2 DEF RetryCleanup, CloseDone, Procs
      <4> QED
        BY <4>1, <4>2 DEF Labels
    <3>3. CASE RecoveryStopped
      BY <3>3 DEF RecoveryStopped, Labels, Procs
    <3>4. CASE RecoveryCleanup
      <4>1. recoveryCancelled' \in BOOLEAN
        BY <3>4 DEF RecoveryCleanup, CloseDone
      <4>2. /\ Recovery \in Procs /\ recoveryWaiters' = {} /\ pc' = [pc EXCEPT ![Recovery] = "off"]
            /\ UNCHANGED <<appVars, mutexes, tsnetVars, retryCancelled,
                           retryWaiters, locals, ghosts>>
        BY <3>4 DEF RecoveryCleanup, CloseDone, Procs
      <4> QED
        BY <4>1, <4>2 DEF Labels
    <3> QED
      BY <2>3, <3>1, <3>2, <3>3, <3>4 DEF WorkerStep
  <2>4. ASSUME NEW p \in Procs, Acquire(p) PROVE TypeOK'
    <3>1. \A r : Returned(p, r) \in Labels
      BY DEF Returned, Labels
    <3>2. CASE StartLock(p)
      <4>1. CASE LockStart(p) /\ Detach(p) /\ Goto(p, "close")
        <5>1. exitNodeActive' \in BOOLEAN
          BY <3>2, <4>1 DEF StartLock, LockStart, Detach
        <5>2. /\ tsStartMu' = p /\ srv' = [srv EXCEPT ![p] = tsServer]
              /\ tsServer' = Nobody /\ pc' = [pc EXCEPT ![p] = "close"]
              /\ UNCHANGED <<locked, exitNode, hasKey, configSaveMu, tsnetVars,
                             workVars, op, name, old, prev, ghosts>>
          BY <3>2, <4>1 DEF StartLock, LockStart, Detach
        <5> QED
          BY <5>1, <5>2 DEF Labels
      <4>2. CASE /\ Goto(p, Returned(p, "noKey"))
                 /\ UNCHANGED <<tsStartMu, srv, tsServer, exitNodeActive>>
        BY <3>1, <3>2, <4>2 DEF StartLock
      <4> QED
        BY <3>2, <4>1, <4>2 DEF StartLock
    <3>3. CASE DisconnectLock(p)
      BY <3>3 DEF DisconnectLock, LockStart, Detach, Labels
    <3>4. CASE ExitNodeLock(p)
      BY <3>4 DEF ExitNodeLock, Labels
    <3> QED
      BY <2>4, <3>2, <3>3, <3>4 DEF Acquire
  <2>5. CASE RecoveryTry
    BY <2>5 DEF RecoveryTry, RecoveryTryLock, Labels, Procs
  <2>6. ASSUME NEW h \in Handlers, NEW o \in Ops, NEW n \in Names, Request(h, o, n)
        PROVE  TypeOK'
    <3>1. h \in Procs /\ o \in OpNames /\ FirstStep(o) \in Labels
      BY DEF Procs, OpNames, FirstStep, Labels
    <3> QED
      BY <2>6, <3>1 DEF Request
  <2>7. CASE Shutdown
    BY <2>7 DEF Shutdown, Labels, OpNames, Procs
  <2>8. CASE UNCHANGED vars
    BY <2>8 DEF vars
  <2> QED
    BY <2>2, <2>3, <2>4, <2>5, <2>6, <2>7, <2>8
       DEF Next, Exited, Step, StepActions, StopTailscaleRetry, StartTailscale,
           ApplyExitNode, HandleExitNode
<1> QED
  BY <1>1, <1>2, PTL DEF Spec

\* Next by its elementary actions.
LEMMA StepCases ==
  [Next]_vars =>
    \/ Alive /\ \E p \in Procs : \/ StepActions(p) \/ WorkerStep(p)
                                 \/ StartLock(p) \/ DisconnectLock(p) \/ ExitNodeLock(p)
    \/ Alive /\ RecoveryTry
    \/ Alive /\ \E h \in Handlers, o \in Ops, n \in Names : Request(h, o, n)
    \/ Alive /\ Shutdown
    \/ UNCHANGED vars
BY DEF Next, Alive, Exited, Acquire, Step, StepActions, StopTailscaleRetry, StartTailscale,
       ApplyExitNode, HandleExitNode

\* What a process runs keeps agreeing with where it is.
LEMMA OpStep == TypeOK /\ OpInv /\ [Next]_vars => OpInv'
<1> SUFFICES ASSUME TypeOK, OpInv, [Next]_vars PROVE OpInv'
  OBVIOUS
<1> USE ConstantsAssumption DEF TypeOK, OpInv, Procs, Applying, StartOps,
       Goto, Forget, appVars, mutexes, tsnetVars, workVars, locals, ghosts
<1>1. ASSUME NEW p \in Procs, StepActions(p) PROVE OpInv'
  <2>1. CASE StopRecovery(p, "stop1", "join1", "cancel")
    BY <2>1 DEF StopRecovery
  <2>2. CASE CancelRetry(p)
    BY <2>2 DEF CancelRetry
  <2>3. CASE StopRecovery(p, "stop2", "join2", AfterStop(p))
    BY <2>3 DEF StopRecovery, AfterStop
  <2>4. CASE StopRecovery(p, "stop0", "join0", "lock")
    BY <2>4 DEF StopRecovery
  <2>5. CASE StartClose(p)
    BY <2>5 DEF StartClose, Close
  <2>6. CASE StartUp(p)
    BY <2>6 DEF StartUp
  <2>7. CASE StartUpFails(p)
    BY <2>7 DEF StartUpFails, Returned
  <2>8. CASE StartUpSucceeds(p)
    BY <2>8 DEF StartUpSucceeds
  <2>9. CASE StartReadExit(p)
    BY <2>9 DEF StartReadExit
  <2>10. CASE RefreshRead(p)
    BY <2>10 DEF RefreshRead
  <2>11. CASE RefreshCommit(p)
    BY <2>11 DEF RefreshCommit, Returned
  <2>12. CASE ScheduleRetry(p)
    BY <2>12 DEF ScheduleRetry, RetryScheduled
  <2>13. CASE ApplyRead(p)
    BY <2>13 DEF ApplyRead, ReadPrefs
  <2>14. CASE ApplyEdit(p)
    BY <2>14 DEF ApplyEdit, ExitNodePreference
  <2>15. CASE ApplyVerify(p)
    BY <2>15 DEF ApplyVerify, EffectiveExitNode
  <2>16. CASE ConfiguredApplied(p)
    BY <2>16 DEF ConfiguredApplied, Returned
  <2>17. CASE ScheduleRecovery(p)
    BY <2>17 DEF ScheduleRecovery, RecoveryScheduled, Returned
  <2>18. CASE ExitNodeRefused(p)
    BY <2>18 DEF ExitNodeRefused
  <2>19. CASE ExitNodeSave(p)
    BY <2>19 DEF ExitNodeSave
  <2>20. CASE ExitNodeRolledBack(p)
    BY <2>20 DEF ExitNodeRolledBack
  <2>21. CASE SaveKey(p)
    BY <2>21 DEF SaveKey, SaveCredential
  <2>22. CASE DisconnectClose(p)
    BY <2>22 DEF DisconnectClose, Close
  <2> QED
    BY <1>1, <2>1, <2>2, <2>3, <2>4, <2>5, <2>6, <2>7, <2>8, <2>9, <2>10, <2>11,
       <2>12, <2>13, <2>14, <2>15, <2>16, <2>17, <2>18, <2>19, <2>20, <2>21, <2>22 DEF StepActions
<1>2. ASSUME NEW p \in Procs, WorkerStep(p) PROVE OpInv'
  BY <1>2 DEF WorkerStep, RetryWait, RetryCleanup, RecoveryStopped, RecoveryCleanup,
                  CloseDone
<1>3. ASSUME NEW p \in Procs, StartLock(p) PROVE OpInv'
  BY <1>3 DEF StartLock, LockStart, Detach, Returned
<1>4. ASSUME NEW p \in Procs, DisconnectLock(p) PROVE OpInv'
  BY <1>4 DEF DisconnectLock, LockStart, Detach
<1>5. ASSUME NEW p \in Procs, ExitNodeLock(p) PROVE OpInv'
  BY <1>5 DEF ExitNodeLock
<1>6. CASE RecoveryTry
  BY <1>6 DEF RecoveryTry, RecoveryTryLock
<1>7. ASSUME NEW h \in Handlers, NEW o \in Ops, NEW n \in Names, Request(h, o, n)
      PROVE  OpInv'
  BY <1>7 DEF Request, FirstStep, AllOps
<1>8. CASE Shutdown
  BY <1>8 DEF Shutdown
<1>9. CASE UNCHANGED vars
  BY <1>9 DEF vars
<1> QED
  BY StepCases, <1>1, <1>2, <1>3, <1>4, <1>5, <1>6, <1>7, <1>8, <1>9

\* tsStartMu and configSaveMu keep excluding.
LEMMA MutexStep == TypeOK /\ OpInv /\ MutexInv /\ [Next]_vars => MutexInv'
<1> SUFFICES ASSUME TypeOK, OpInv, MutexInv, [Next]_vars PROVE MutexInv'
  OBVIOUS
<1> USE ConstantsAssumption DEF TypeOK, OpInv, MutexInv, HoldsStart, HoldsSave, Procs, Applying, StartOps,
       Goto, Forget, appVars, mutexes, tsnetVars, workVars, locals, ghosts
<1>1. ASSUME NEW p \in Procs, StepActions(p) PROVE MutexInv'
  <2>1. CASE StopRecovery(p, "stop1", "join1", "cancel")
    BY <2>1 DEF StopRecovery
  <2>2. CASE CancelRetry(p)
    BY <2>2 DEF CancelRetry
  <2>3. CASE StopRecovery(p, "stop2", "join2", AfterStop(p))
    BY <2>3 DEF StopRecovery, AfterStop
  <2>4. CASE StopRecovery(p, "stop0", "join0", "lock")
    BY <2>4 DEF StopRecovery
  <2>5. CASE StartClose(p)
    BY <2>5 DEF StartClose, Close
  <2>6. CASE StartUp(p)
    BY <2>6 DEF StartUp
  <2>7. CASE StartUpFails(p)
    BY <2>7 DEF StartUpFails, Returned
  <2>8. CASE StartUpSucceeds(p)
    BY <2>8 DEF StartUpSucceeds
  <2>9. CASE StartReadExit(p)
    BY <2>9 DEF StartReadExit
  <2>10. CASE RefreshRead(p)
    BY <2>10 DEF RefreshRead
  <2>11. CASE RefreshCommit(p)
    BY <2>11 DEF RefreshCommit, Returned
  <2>12. CASE ScheduleRetry(p)
    BY <2>12 DEF ScheduleRetry, RetryScheduled
  <2>13. CASE ApplyRead(p)
    BY <2>13 DEF ApplyRead, ReadPrefs
  <2>14. CASE ApplyEdit(p)
    BY <2>14 DEF ApplyEdit, ExitNodePreference
  <2>15. CASE ApplyVerify(p)
    BY <2>15 DEF ApplyVerify, EffectiveExitNode
  <2>16. CASE ConfiguredApplied(p)
    BY <2>16 DEF ConfiguredApplied, Returned
  <2>17. CASE ScheduleRecovery(p)
    BY <2>17 DEF ScheduleRecovery, RecoveryScheduled, Returned
  <2>18. CASE ExitNodeRefused(p)
    BY <2>18 DEF ExitNodeRefused
  <2>19. CASE ExitNodeSave(p)
    BY <2>19 DEF ExitNodeSave
  <2>20. CASE ExitNodeRolledBack(p)
    BY <2>20 DEF ExitNodeRolledBack
  <2>21. CASE SaveKey(p)
    BY <2>21 DEF SaveKey, SaveCredential
  <2>22. CASE DisconnectClose(p)
    BY <2>22 DEF DisconnectClose, Close
  <2> QED
    BY <1>1, <2>1, <2>2, <2>3, <2>4, <2>5, <2>6, <2>7, <2>8, <2>9, <2>10, <2>11,
       <2>12, <2>13, <2>14, <2>15, <2>16, <2>17, <2>18, <2>19, <2>20, <2>21, <2>22 DEF StepActions
<1>2. ASSUME NEW p \in Procs, WorkerStep(p) PROVE MutexInv'
  BY <1>2 DEF WorkerStep, RetryWait, RetryCleanup, RecoveryStopped, RecoveryCleanup,
                  CloseDone
<1>3. ASSUME NEW p \in Procs, StartLock(p) PROVE MutexInv'
  BY <1>3 DEF StartLock, LockStart, Detach, Returned
<1>4. ASSUME NEW p \in Procs, DisconnectLock(p) PROVE MutexInv'
  BY <1>4 DEF DisconnectLock, LockStart, Detach
<1>5. ASSUME NEW p \in Procs, ExitNodeLock(p) PROVE MutexInv'
  BY <1>5 DEF ExitNodeLock
<1>6. CASE RecoveryTry
  BY <1>6 DEF RecoveryTry, RecoveryTryLock
<1>7. ASSUME NEW h \in Handlers, NEW o \in Ops, NEW n \in Names, Request(h, o, n)
      PROVE  MutexInv'
  BY <1>7 DEF Request, FirstStep, AllOps
<1>8. CASE Shutdown
  BY <1>8 DEF Shutdown
<1>9. CASE UNCHANGED vars
  BY <1>9 DEF vars
<1> QED
  BY StepCases, <1>1, <1>2, <1>3, <1>4, <1>5, <1>6, <1>7, <1>8, <1>9


\* The servers that run stay accounted for.
LEMMA ServerStep == TypeOK /\ OpInv /\ MutexInv /\ ServerInv /\ [Next]_vars => ServerInv'
<1> SUFFICES ASSUME TypeOK, OpInv, MutexInv, ServerInv, [Next]_vars PROVE ServerInv'
  OBVIOUS
<1> USE ConstantsAssumption DEF TypeOK, OpInv, MutexInv, HoldsStart, ServerInv, Procs, Applying, StartOps,
       Goto, Forget, appVars, mutexes, tsnetVars, workVars, locals, ghosts
<1>1. ASSUME NEW p \in Procs, StepActions(p) PROVE ServerInv'
  <2>1. CASE StopRecovery(p, "stop1", "join1", "cancel")
    BY <2>1 DEF StopRecovery
  <2>2. CASE CancelRetry(p)
    BY <2>2 DEF CancelRetry
  <2>3. CASE StopRecovery(p, "stop2", "join2", AfterStop(p))
    BY <2>3 DEF StopRecovery, AfterStop
  <2>4. CASE StopRecovery(p, "stop0", "join0", "lock")
    BY <2>4 DEF StopRecovery
  <2>5. CASE StartClose(p)
    BY <2>5 DEF StartClose, Close
  <2>6. CASE StartUp(p)
    BY <2>6 DEF StartUp
  <2>7. CASE StartUpFails(p)
    BY <2>7 DEF StartUpFails, Returned
  <2>8. CASE StartUpSucceeds(p)
    BY <2>8 DEF StartUpSucceeds
  <2>9. CASE StartReadExit(p)
    BY <2>9 DEF StartReadExit
  <2>10. CASE RefreshRead(p)
    BY <2>10 DEF RefreshRead
  <2>11. CASE RefreshCommit(p)
    BY <2>11 DEF RefreshCommit, Returned
  <2>12. CASE ScheduleRetry(p)
    BY <2>12 DEF ScheduleRetry, RetryScheduled
  <2>13. CASE ApplyRead(p)
    BY <2>13 DEF ApplyRead, ReadPrefs
  <2>14. CASE ApplyEdit(p)
    BY <2>14 DEF ApplyEdit, ExitNodePreference
  <2>15. CASE ApplyVerify(p)
    BY <2>15 DEF ApplyVerify, EffectiveExitNode
  <2>16. CASE ConfiguredApplied(p)
    BY <2>16 DEF ConfiguredApplied, Returned
  <2>17. CASE ScheduleRecovery(p)
    BY <2>17 DEF ScheduleRecovery, RecoveryScheduled, Returned
  <2>18. CASE ExitNodeRefused(p)
    BY <2>18 DEF ExitNodeRefused
  <2>19. CASE ExitNodeSave(p)
    BY <2>19 DEF ExitNodeSave
  <2>20. CASE ExitNodeRolledBack(p)
    BY <2>20 DEF ExitNodeRolledBack
  <2>21. CASE SaveKey(p)
    BY <2>21 DEF SaveKey, SaveCredential
  <2>22. CASE DisconnectClose(p)
    BY <2>22 DEF DisconnectClose, Close
  <2> QED
    BY <1>1, <2>1, <2>2, <2>3, <2>4, <2>5, <2>6, <2>7, <2>8, <2>9, <2>10, <2>11,
       <2>12, <2>13, <2>14, <2>15, <2>16, <2>17, <2>18, <2>19, <2>20, <2>21, <2>22 DEF StepActions
<1>2. ASSUME NEW p \in Procs, WorkerStep(p) PROVE ServerInv'
  BY <1>2 DEF WorkerStep, RetryWait, RetryCleanup, RecoveryStopped, RecoveryCleanup,
                  CloseDone
<1>3. ASSUME NEW p \in Procs, StartLock(p) PROVE ServerInv'
  BY <1>3 DEF StartLock, LockStart, Detach, Returned
<1>4. ASSUME NEW p \in Procs, DisconnectLock(p) PROVE ServerInv'
  BY <1>4 DEF DisconnectLock, LockStart, Detach
<1>5. ASSUME NEW p \in Procs, ExitNodeLock(p) PROVE ServerInv'
  BY <1>5 DEF ExitNodeLock
<1>6. CASE RecoveryTry
  BY <1>6 DEF RecoveryTry, RecoveryTryLock
<1>7. ASSUME NEW h \in Handlers, NEW o \in Ops, NEW n \in Names, Request(h, o, n)
      PROVE  ServerInv'
  BY <1>7 DEF Request, FirstStep, AllOps
<1>8. CASE Shutdown
  BY <1>8 DEF Shutdown
<1>9. CASE UNCHANGED vars
  BY <1>9 DEF vars
<1> QED
  BY StepCases, <1>1, <1>2, <1>3, <1>4, <1>5, <1>6, <1>7, <1>8, <1>9


\* The name the recovery worker applies stays the configured one.
LEMMA ChoiceStep == TypeOK /\ OpInv /\ MutexInv /\ ChoiceInv /\ [Next]_vars => ChoiceInv'
<1> SUFFICES ASSUME TypeOK, OpInv, MutexInv, ChoiceInv, [Next]_vars PROVE ChoiceInv'
  OBVIOUS
<1> USE ConstantsAssumption DEF TypeOK, OpInv, MutexInv, HoldsSave, ChoiceInv, Procs, Applying, StartOps,
       Goto, Forget, appVars, mutexes, tsnetVars, workVars, locals, ghosts
<1>1. ASSUME NEW p \in Procs, StepActions(p) PROVE ChoiceInv'
  <2>1. CASE StopRecovery(p, "stop1", "join1", "cancel")
    BY <2>1 DEF StopRecovery
  <2>2. CASE CancelRetry(p)
    BY <2>2 DEF CancelRetry
  <2>3. CASE StopRecovery(p, "stop2", "join2", AfterStop(p))
    BY <2>3 DEF StopRecovery, AfterStop
  <2>4. CASE StopRecovery(p, "stop0", "join0", "lock")
    BY <2>4 DEF StopRecovery
  <2>5. CASE StartClose(p)
    BY <2>5 DEF StartClose, Close
  <2>6. CASE StartUp(p)
    BY <2>6 DEF StartUp
  <2>7. CASE StartUpFails(p)
    BY <2>7 DEF StartUpFails, Returned
  <2>8. CASE StartUpSucceeds(p)
    BY <2>8 DEF StartUpSucceeds
  <2>9. CASE StartReadExit(p)
    BY <2>9 DEF StartReadExit
  <2>10. CASE RefreshRead(p)
    BY <2>10 DEF RefreshRead
  <2>11. CASE RefreshCommit(p)
    BY <2>11 DEF RefreshCommit, Returned
  <2>12. CASE ScheduleRetry(p)
    BY <2>12 DEF ScheduleRetry, RetryScheduled
  <2>13. CASE ApplyRead(p)
    BY <2>13 DEF ApplyRead, ReadPrefs
  <2>14. CASE ApplyEdit(p)
    BY <2>14 DEF ApplyEdit, ExitNodePreference
  <2>15. CASE ApplyVerify(p)
    BY <2>15 DEF ApplyVerify, EffectiveExitNode
  <2>16. CASE ConfiguredApplied(p)
    BY <2>16 DEF ConfiguredApplied, Returned
  <2>17. CASE ScheduleRecovery(p)
    BY <2>17 DEF ScheduleRecovery, RecoveryScheduled, Returned
  <2>18. CASE ExitNodeRefused(p)
    BY <2>18 DEF ExitNodeRefused
  <2>19. CASE ExitNodeSave(p)
    BY <2>19 DEF ExitNodeSave
  <2>20. CASE ExitNodeRolledBack(p)
    BY <2>20 DEF ExitNodeRolledBack
  <2>21. CASE SaveKey(p)
    BY <2>21 DEF SaveKey, SaveCredential
  <2>22. CASE DisconnectClose(p)
    BY <2>22 DEF DisconnectClose, Close
  <2> QED
    BY <1>1, <2>1, <2>2, <2>3, <2>4, <2>5, <2>6, <2>7, <2>8, <2>9, <2>10, <2>11,
       <2>12, <2>13, <2>14, <2>15, <2>16, <2>17, <2>18, <2>19, <2>20, <2>21, <2>22 DEF StepActions
<1>2. ASSUME NEW p \in Procs, WorkerStep(p) PROVE ChoiceInv'
  BY <1>2 DEF WorkerStep, RetryWait, RetryCleanup, RecoveryStopped, RecoveryCleanup,
                  CloseDone
<1>3. ASSUME NEW p \in Procs, StartLock(p) PROVE ChoiceInv'
  BY <1>3 DEF StartLock, LockStart, Detach, Returned
<1>4. ASSUME NEW p \in Procs, DisconnectLock(p) PROVE ChoiceInv'
  BY <1>4 DEF DisconnectLock, LockStart, Detach
<1>5. ASSUME NEW p \in Procs, ExitNodeLock(p) PROVE ChoiceInv'
  BY <1>5 DEF ExitNodeLock
<1>6. CASE RecoveryTry
  BY <1>6 DEF RecoveryTry, RecoveryTryLock
<1>7. ASSUME NEW h \in Handlers, NEW o \in Ops, NEW n \in Names, Request(h, o, n)
      PROVE  ChoiceInv'
  BY <1>7 DEF Request, FirstStep, AllOps
<1>8. CASE Shutdown
  BY <1>8 DEF Shutdown
<1>9. CASE UNCHANGED vars
  BY <1>9 DEF vars
<1> QED
  BY StepCases, <1>1, <1>2, <1>3, <1>4, <1>5, <1>6, <1>7, <1>8, <1>9

\* Nothing is started behind the closed gate.
LEMMA GateStep == TypeOK /\ OpInv /\ GateInv /\ [Next]_vars => GateInv'
<1> SUFFICES ASSUME TypeOK, OpInv, GateInv, [Next]_vars PROVE GateInv'
  OBVIOUS
<1> USE ConstantsAssumption DEF TypeOK, OpInv, GateInv, Ending, Procs, Applying, StartOps,
       Goto, Forget, appVars, mutexes, tsnetVars, workVars, locals, ghosts
<1>1. ASSUME NEW p \in Procs, StepActions(p) PROVE GateInv'
  <2>1. CASE StopRecovery(p, "stop1", "join1", "cancel")
    BY <2>1, ZenonT(40) DEF StopRecovery
  <2>2. CASE CancelRetry(p)
    BY <2>2, ZenonT(40) DEF CancelRetry
  <2>3. CASE StopRecovery(p, "stop2", "join2", AfterStop(p))
    BY <2>3, ZenonT(40) DEF StopRecovery, AfterStop
  <2>4. CASE StopRecovery(p, "stop0", "join0", "lock")
    BY <2>4 DEF StopRecovery
  <2>5. CASE StartClose(p)
    BY <2>5 DEF StartClose, Close
  <2>6. CASE StartUp(p)
    BY <2>6 DEF StartUp
  <2>7. CASE StartUpFails(p)
    BY <2>7 DEF StartUpFails, Returned
  <2>8. CASE StartUpSucceeds(p)
    BY <2>8 DEF StartUpSucceeds
  <2>9. CASE StartReadExit(p)
    BY <2>9 DEF StartReadExit
  <2>10. CASE RefreshRead(p)
    BY <2>10 DEF RefreshRead
  <2>11. CASE RefreshCommit(p)
    BY <2>11 DEF RefreshCommit, Returned
  <2>12. CASE ScheduleRetry(p)
    BY <2>12 DEF ScheduleRetry, RetryScheduled
  <2>13. CASE ApplyRead(p)
    BY <2>13 DEF ApplyRead, ReadPrefs
  <2>14. CASE ApplyEdit(p)
    BY <2>14 DEF ApplyEdit, ExitNodePreference
  <2>15. CASE ApplyVerify(p)
    BY <2>15 DEF ApplyVerify, EffectiveExitNode
  <2>16. CASE ConfiguredApplied(p)
    BY <2>16 DEF ConfiguredApplied, Returned
  <2>17. CASE ScheduleRecovery(p)
    BY <2>17 DEF ScheduleRecovery, RecoveryScheduled, Returned
  <2>18. CASE ExitNodeRefused(p)
    BY <2>18 DEF ExitNodeRefused
  <2>19. CASE ExitNodeSave(p)
    BY <2>19 DEF ExitNodeSave
  <2>20. CASE ExitNodeRolledBack(p)
    BY <2>20 DEF ExitNodeRolledBack
  <2>21. CASE SaveKey(p)
    BY <2>21 DEF SaveKey, SaveCredential
  <2>22. CASE DisconnectClose(p)
    BY <2>22 DEF DisconnectClose, Close
  <2> QED
    BY <1>1, <2>1, <2>2, <2>3, <2>4, <2>5, <2>6, <2>7, <2>8, <2>9, <2>10, <2>11,
       <2>12, <2>13, <2>14, <2>15, <2>16, <2>17, <2>18, <2>19, <2>20, <2>21, <2>22 DEF StepActions
<1>2. ASSUME NEW p \in Procs, WorkerStep(p) PROVE GateInv'
  BY <1>2 DEF WorkerStep, RetryWait, RetryCleanup, RecoveryStopped, RecoveryCleanup,
                  CloseDone
<1>3. ASSUME NEW p \in Procs, StartLock(p) PROVE GateInv'
  BY <1>3 DEF StartLock, LockStart, Detach, Returned
<1>4. ASSUME NEW p \in Procs, DisconnectLock(p) PROVE GateInv'
  BY <1>4 DEF DisconnectLock, LockStart, Detach
<1>5. ASSUME NEW p \in Procs, ExitNodeLock(p) PROVE GateInv'
  BY <1>5 DEF ExitNodeLock
<1>6. CASE RecoveryTry
  BY <1>6 DEF RecoveryTry, RecoveryTryLock
<1>7. ASSUME NEW h \in Handlers, NEW o \in Ops, NEW n \in Names, Request(h, o, n)
      PROVE  GateInv'
  <2>1. ~locked'
    BY <1>7 DEF Request, Admitted
  <2> QED
    BY <2>1
<1>8. CASE Shutdown
  BY <1>8 DEF Shutdown
<1>9. CASE UNCHANGED vars
  BY <1>9 DEF vars
<1> QED
  BY StepCases, <1>1, <1>2, <1>3, <1>4, <1>5, <1>6, <1>7, <1>8, <1>9

\* An undisturbed disconnect keeps what it has reached.
LEMMA DisconnectStep == TypeOK /\ OpInv /\ ServerInv /\ DisconnectInv /\ [Next]_vars => DisconnectInv'
<1> SUFFICES ASSUME TypeOK, OpInv, ServerInv, DisconnectInv, [Next]_vars PROVE DisconnectInv'
  OBVIOUS
<1> USE ConstantsAssumption DEF TypeOK, OpInv, ServerInv, DisconnectInv, Ending, Procs, Applying, StartOps,
       Goto, Forget, appVars, mutexes, tsnetVars, workVars, locals, ghosts
<1>1. ASSUME NEW p \in Procs, StepActions(p) PROVE DisconnectInv'
  <2>1. CASE StopRecovery(p, "stop1", "join1", "cancel")
    BY <2>1 DEF StopRecovery
  <2>2. CASE CancelRetry(p)
    BY <2>2 DEF CancelRetry
  <2>3. CASE StopRecovery(p, "stop2", "join2", AfterStop(p))
    BY <2>3 DEF StopRecovery, AfterStop
  <2>4. CASE StopRecovery(p, "stop0", "join0", "lock")
    BY <2>4 DEF StopRecovery
  <2>5. CASE StartClose(p)
    BY <2>5 DEF StartClose, Close
  <2>6. CASE StartUp(p)
    BY <2>6 DEF StartUp
  <2>7. CASE StartUpFails(p)
    BY <2>7 DEF StartUpFails, Returned
  <2>8. CASE StartUpSucceeds(p)
    BY <2>8 DEF StartUpSucceeds
  <2>9. CASE StartReadExit(p)
    BY <2>9 DEF StartReadExit
  <2>10. CASE RefreshRead(p)
    BY <2>10 DEF RefreshRead
  <2>11. CASE RefreshCommit(p)
    BY <2>11 DEF RefreshCommit, Returned
  <2>12. CASE ScheduleRetry(p)
    BY <2>12 DEF ScheduleRetry, RetryScheduled
  <2>13. CASE ApplyRead(p)
    BY <2>13 DEF ApplyRead, ReadPrefs
  <2>14. CASE ApplyEdit(p)
    BY <2>14 DEF ApplyEdit, ExitNodePreference
  <2>15. CASE ApplyVerify(p)
    BY <2>15 DEF ApplyVerify, EffectiveExitNode
  <2>16. CASE ConfiguredApplied(p)
    BY <2>16 DEF ConfiguredApplied, Returned
  <2>17. CASE ScheduleRecovery(p)
    BY <2>17 DEF ScheduleRecovery, RecoveryScheduled, Returned
  <2>18. CASE ExitNodeRefused(p)
    BY <2>18 DEF ExitNodeRefused
  <2>19. CASE ExitNodeSave(p)
    BY <2>19 DEF ExitNodeSave
  <2>20. CASE ExitNodeRolledBack(p)
    BY <2>20 DEF ExitNodeRolledBack
  <2>21. CASE SaveKey(p)
    BY <2>21 DEF SaveKey, SaveCredential
  <2>22. CASE DisconnectClose(p)
    BY <2>22 DEF DisconnectClose, Close
  <2> QED
    BY <1>1, <2>1, <2>2, <2>3, <2>4, <2>5, <2>6, <2>7, <2>8, <2>9, <2>10, <2>11,
       <2>12, <2>13, <2>14, <2>15, <2>16, <2>17, <2>18, <2>19, <2>20, <2>21, <2>22 DEF StepActions
<1>2. ASSUME NEW p \in Procs, WorkerStep(p) PROVE DisconnectInv'
  BY <1>2 DEF WorkerStep, RetryWait, RetryCleanup, RecoveryStopped, RecoveryCleanup,
                  CloseDone
<1>3. ASSUME NEW p \in Procs, StartLock(p) PROVE DisconnectInv'
  BY <1>3 DEF StartLock, LockStart, Detach, Returned
<1>4. ASSUME NEW p \in Procs, DisconnectLock(p) PROVE DisconnectInv'
  BY <1>4 DEF DisconnectLock, LockStart, Detach
<1>5. ASSUME NEW p \in Procs, ExitNodeLock(p) PROVE DisconnectInv'
  BY <1>5 DEF ExitNodeLock
<1>6. CASE RecoveryTry
  BY <1>6 DEF RecoveryTry, RecoveryTryLock
<1>7. ASSUME NEW h \in Handlers, NEW o \in Ops, NEW n \in Names, Request(h, o, n)
      PROVE  DisconnectInv'
  BY <1>7 DEF Request, FirstStep, AllOps
<1>8. CASE Shutdown
  BY <1>8 DEF Shutdown
<1>9. CASE UNCHANGED vars
  BY <1>9 DEF vars
<1> QED
  BY StepCases, <1>1, <1>2, <1>3, <1>4, <1>5, <1>6, <1>7, <1>8, <1>9

\* The inductive invariant holds in every reachable state.
THEOREM Invariance == Spec => [](TypeOK /\ IInv)
<1>1. Init => IInv
  <2> SUFFICES ASSUME Init PROVE IInv
    OBVIOUS
  <2> USE ConstantsAssumption DEF Init, Procs, Applying, StartOps
  <2>1. OpInv
    BY DEF OpInv
  <2>2. MutexInv
    BY DEF MutexInv, HoldsStart, HoldsSave
  <2>3. ServerInv
    BY DEF ServerInv
  <2>4. ChoiceInv
    BY DEF ChoiceInv
  <2>5. GateInv
    BY DEF GateInv, Ending
  <2>6. DisconnectInv
    BY DEF DisconnectInv
  <2> QED
    BY <2>1, <2>2, <2>3, <2>4, <2>5, <2>6 DEF IInv
<1>2. TypeOK /\ IInv /\ [Next]_vars => IInv'
  BY OpStep, MutexStep, ServerStep, ChoiceStep, GateStep, DisconnectStep DEF IInv
<1> QED
  BY <1>1, <1>2, TypeCorrect, PTL DEF Spec

\* However many handlers start, replace and stop Tailscale concurrently, at most
\* one tsnet server holds the state directory (startTailscaleContext).
THEOREM AtMostOneServer == Spec => []OneLiveServer
<1>1. TypeOK /\ IInv => OneLiveServer
  <2> SUFFICES ASSUME TypeOK, IInv PROVE \E x \in Procs : live \subseteq {x}
    <3> SUFFICES ASSUME NEW x \in Procs, live \subseteq {x} PROVE Cardinality(live) <= 1
      BY DEF OneLiveServer
    <3>1. live = {} \/ live = {x}
      OBVIOUS
    <3>2. Cardinality({}) = 0
      BY FS_EmptySet
    <3>3. Cardinality({x}) = 1
      BY FS_Singleton
    <3> QED
      BY <3>1, <3>2, <3>3
  <2> USE DEF TypeOK, IInv, ServerInv
  <2>1. CASE \A p \in Procs : pc[p] \notin {"close", "dClose", "up", "upWait"}
    <3>1. live = {tsServer} \ {Nobody} /\ tsServer \in Procs \cup {Nobody}
      BY <2>1
    <3>2. CASE tsServer \in Procs
      BY <3>1, <3>2
    <3>3. CASE tsServer = Nobody
      BY <3>1, <3>3 DEF Procs
    <3> QED
      BY <3>1, <3>2, <3>3
  <2>2. ASSUME NEW p \in Procs, pc[p] \in {"close", "dClose", "up", "upWait"}
        PROVE  \E x \in Procs : live \subseteq {x}
    <3>1. CASE pc[p] \in {"close", "dClose"}
      <4>1. live = {srv[p]} \ {Nobody} /\ srv[p] \in Procs \cup {Nobody}
        BY <3>1
      <4>2. CASE srv[p] \in Procs
        BY <4>1, <4>2
      <4>3. CASE srv[p] = Nobody
        BY <4>1, <4>3
      <4> QED
        BY <4>1, <4>2, <4>3
    <3>2. CASE pc[p] \in {"up", "upWait"}
      <4>1. live = {} \/ live = {p}
        BY <3>2
      <4> QED
        BY <4>1
    <3> QED
      BY <2>2, <3>1, <3>2
  <2> QED
    BY <2>1, <2>2
<1> QED
  BY <1>1, Invariance, PTL

\* ts() never hands out a server that has been closed.
THEOREM PublishedServerRuns == Spec => []PublishedIsLive
<1>1. TypeOK /\ IInv => PublishedIsLive
  BY DEF TypeOK, IInv, ServerInv, PublishedIsLive
<1> QED
  BY <1>1, Invariance, PTL

\* While the unlock gate is closed no server is published, running or being started
\* (authMiddleware, handleUnlock).
THEOREM NothingRunsWhileLocked == Spec => []LockedMeansDown
<1>1. IInv => LockedMeansDown
  BY DEF IInv, GateInv, LockedMeansDown
<1> QED
  BY <1>1, Invariance, PTL

\* A disconnect that no request overlaps or follows leaves no server, no worker and no
\* active exit node, whatever the workers were doing when it arrived
\* (handleTailscaleDisconnect, stopTailscaleRetry).
THEOREM DisconnectHolds == Spec => []DisconnectIsFinal
<1>1. IInv => DisconnectIsFinal
  BY DEF IInv, DisconnectInv, DisconnectIsFinal
<1> QED
  BY <1>1, Invariance, PTL

\* The recovery worker never overwrites a newer selection or an explicit clear.
THEOREM RecoveryKeepsChoice == Spec => RecoveryWritesSavedChoice
<1>1. ASSUME TypeOK, IInv, [Next]_vars, pc[Recovery] = "edit", pc'[Recovery] = "verify"
      PROVE  route' = exitNode
  <2> USE ConstantsAssumption DEF TypeOK, Procs, Goto
  <2>1. name[Recovery] = exitNode
    BY <1>1 DEF IInv, ChoiceInv, Applying
  <2>2. ASSUME NEW p \in Procs, StepActions(p), p # Recovery PROVE FALSE
    BY <1>1, <2>2 DEF StepActions, StopRecovery, CancelRetry, StartClose, StartUp, StartUpFails,
       StartUpSucceeds, StartReadExit, RefreshRead, RefreshCommit, ScheduleRetry, ApplyRead,
       ApplyEdit, ExitNodePreference, ApplyVerify, EffectiveExitNode, ConfiguredApplied,
       ScheduleRecovery, ExitNodeRefused,
       ExitNodeSave, ExitNodeRolledBack, SaveKey, SaveCredential, DisconnectClose, RetryScheduled,
       RecoveryScheduled
  <2>3. ASSUME StepActions(Recovery) PROVE ApplyEdit(Recovery)
    BY <1>1, <2>3 DEF StepActions, StopRecovery, CancelRetry, StartClose, StartUp, StartUpFails,
       StartUpSucceeds, StartReadExit, RefreshRead, RefreshCommit, ScheduleRetry, ApplyRead,
       ApplyVerify, ConfiguredApplied, ScheduleRecovery, ExitNodeRefused,
       ExitNodeSave, ExitNodeRolledBack, SaveKey, DisconnectClose
  <2>4. ASSUME ApplyEdit(Recovery) PROVE route' = exitNode
    BY <1>1, <2>1, <2>4 DEF ApplyEdit, ExitNodePreference
  <2>5. ASSUME NEW p \in Procs,
               WorkerStep(p) \/ StartLock(p) \/ DisconnectLock(p) \/ ExitNodeLock(p)
        PROVE  FALSE
    BY <1>1, <2>5 DEF WorkerStep, RetryWait, RetryCleanup, RecoveryStopped, RecoveryCleanup,
       StartLock, DisconnectLock, ExitNodeLock
  <2>6. ~RecoveryTry
    BY <1>1 DEF RecoveryTry
  <2>7. ~Shutdown
    BY <1>1 DEF Shutdown
  <2>8. ASSUME NEW h \in Handlers, NEW o \in Ops, NEW n \in Names, Request(h, o, n) PROVE FALSE
    BY <1>1, <2>8 DEF Request
  <2>9. ASSUME UNCHANGED vars PROVE FALSE
    BY <1>1, <2>9 DEF vars
  <2> QED
    BY <1>1, StepCases, <2>2, <2>3, <2>4, <2>5, <2>6, <2>7, <2>8, <2>9
<1>2. TypeOK /\ IInv /\ [Next]_vars =>
        [(pc[Recovery] = "edit" /\ pc'[Recovery] = "verify") => route' = exitNode]_vars
  BY <1>1
<1> QED
  BY <1>2, Invariance, PTL DEF Spec, RecoveryWritesSavedChoice
=============================================================================
