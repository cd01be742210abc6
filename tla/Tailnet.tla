------------------------------ MODULE Tailnet ------------------------------
(***************************************************************************)
(* The life cycle of the embedded Tailscale node of womprat               *)
(* (cmd/womprat/main.go, settings_api.go, exit_node_recovery.go,           *)
(* exit_node_preferences.go): the one tsnet server the program may run,    *)
(* the worker that retries a failed start, the worker that reapplies a     *)
(* saved exit node, and the HTTP handlers that start, replace, stop and    *)
(* reroute it concurrently.                                                *)
(*                                                                         *)
(* Every goroutine is a process with a program counter.  A section of code *)
(* under mu, tsRetryMu or exitRetryMu is one step; tsStartMu and           *)
(* configSaveMu are held across steps and are variables.  Taking a lock is *)
(* merged with the step after it and releasing one with the step before    *)
(* it.  A channel "done" that a worker closes is the set of processes      *)
(* blocked on it: closing it empties the set.                              *)
(***************************************************************************)
EXTENDS Naturals, FiniteSets

CONSTANTS
  Handlers,     \* the goroutines that serve HTTP requests
  Main,         \* the goroutine of main()
  Retry,        \* the goroutine of scheduleTailscaleRetry, when there is one
  Recovery,     \* the goroutine of scheduleExitNodeRecovery, when there is one
  Nodes,        \* names of exit nodes
  NoNode,       \* the empty exit-node name
  Nobody,       \* a free mutex, or a nil *tsnet.Server
  Ops,          \* the requests the handlers receive
  MaxRequests   \* bound on the number of requests

AllOps == {"unlock", "saveKey", "setKey", "disconnect", "exitNode"}
Procs  == Handlers \cup {Main, Retry, Recovery}
Names  == Nodes \cup {NoNode}

ASSUME ConstantsAssumption ==
  /\ Main \notin Handlers /\ Retry \notin Handlers /\ Recovery \notin Handlers
  /\ Main # Retry /\ Main # Recovery /\ Retry # Recovery
  /\ Nobody \notin Procs
  /\ NoNode \notin Nodes
  /\ Ops \subseteq AllOps
  /\ MaxRequests \in Nat

VARIABLES
  \* fields of App
  locked, exitNode, tsServer, exitNodeActive, tsStartMu, configSaveMu,
  \* a Tailscale auth key is stored
  hasKey,
  \* tsnet itself: the servers that are up (a server is named by the process
  \* that created it) and the exit node in the preferences they persist
  live, route,
  \* the workers: their contexts are cancelled, who waits for their end
  retryCancelled, retryWaiters, recoveryCancelled, recoveryWaiters,
  \* the goroutines: where they are, what they run, their locals
  pc, op, name, old, srv, prev,
  \* number of requests so far, and the disconnect requests that have run with
  \* no other request beside or after them
  requests, undisturbed

appVars   == <<locked, exitNode, tsServer, exitNodeActive, hasKey>>
mutexes   == <<tsStartMu, configSaveMu>>
tsnetVars == <<live, route>>
workVars  == <<retryCancelled, retryWaiters, recoveryCancelled, recoveryWaiters>>
locals    == <<op, name, old, srv, prev>>
ghosts    == <<requests, undisturbed>>
vars == <<appVars, mutexes, tsnetVars, workVars, pc, locals, ghosts>>

StartOps == {"boot", "unlock", "saveKey", "setKey", "retry"}
OpNames  == AllOps \cup StartOps \cup {"none", "shutdown", "rollback", "recover"}
Labels   == {"idle", "off", "gui", "exited", "wait", "exit",
             "stop1", "join1", "cancel", "joinRetry", "stop2", "join2",
             "saveKey", "stop0", "join0", "lock", "close", "up", "upWait",
             "readExit", "refresh", "refreshed", "sched",
             "apply", "edit", "verify", "applied", "refused", "schedRecovery",
             "xLock", "dLock", "dClose"}

\* The type invariant.
TypeOK ==
  /\ locked \in BOOLEAN /\ exitNodeActive \in BOOLEAN /\ hasKey \in BOOLEAN
  /\ exitNode \in Names /\ route \in Names
  /\ tsServer \in Procs \cup {Nobody}
  /\ tsStartMu \in Procs \cup {Nobody} /\ configSaveMu \in Procs \cup {Nobody}
  /\ live \subseteq Procs
  /\ retryCancelled \in BOOLEAN /\ recoveryCancelled \in BOOLEAN
  /\ retryWaiters \subseteq Procs /\ recoveryWaiters \subseteq Procs
  /\ pc \in [Procs -> Labels] /\ op \in [Procs -> OpNames]
  /\ name \in [Procs -> Names] /\ old \in [Procs -> Names]
  /\ prev \in [Procs -> Names] /\ srv \in [Procs -> Procs \cup {Nobody}]
  /\ requests \in 0..MaxRequests /\ undisturbed \subseteq Handlers

Goto(p, l) == pc' = [pc EXCEPT ![p] = l]

\* The locals of a finished application of an exit node are out of scope.
Forget(p) ==
  /\ name' = [name EXCEPT ![p] = NoNode] /\ old' = [old EXCEPT ![p] = NoNode]
  /\ srv' = [srv EXCEPT ![p] = Nobody] /\ prev' = [prev EXCEPT ![p] = NoNode]

\* main() builds App: nothing runs, the saved exit node is configured and not
\* active, the gate is locked or not, and tsnet's own state may hold a route.
Init ==
  /\ locked \in BOOLEAN /\ hasKey \in BOOLEAN
  /\ exitNode \in Names /\ route \in Names
  /\ tsServer = Nobody /\ exitNodeActive = FALSE
  /\ tsStartMu = Nobody /\ configSaveMu = Nobody
  /\ live = {}
  /\ retryCancelled = FALSE /\ retryWaiters = {}
  /\ recoveryCancelled = FALSE /\ recoveryWaiters = {}
  /\ pc = [p \in Procs |-> IF p = Main THEN IF locked THEN "gui" ELSE "stop0"
                           ELSE IF p \in Handlers THEN "idle" ELSE "off"]
  /\ op = [p \in Procs |-> IF p = Main THEN "boot" ELSE IF p = Retry THEN "retry"
                           ELSE IF p = Recovery THEN "recover" ELSE "none"]
  /\ name = [p \in Procs |-> NoNode] /\ old = [p \in Procs |-> NoNode]
  /\ prev = [p \in Procs |-> NoNode] /\ srv = [p \in Procs |-> Nobody]
  /\ requests = 0 /\ undisturbed = {}

-----------------------------------------------------------------------------
(* The two workers are scheduled by others, and joined through "done".      *)

\* scheduleExitNodeRecovery: nothing happens while a worker has not cleaned up.
RecoveryScheduled(f) ==
  IF pc[Recovery] = "off" THEN [f EXCEPT ![Recovery] = "wait"] ELSE f

\* scheduleTailscaleRetry: as above, the new worker starts an attempt at once.
RetryScheduled(f) ==
  IF pc[Retry] = "off" THEN [f EXCEPT ![Retry] = "stop0"] ELSE f

\* stopExitNodeRecovery: cancel the worker, if any, and wait for its end.
StopRecovery(p, at, join, next) ==
  \/ /\ pc[p] = at
     /\ IF pc[Recovery] = "off"
        THEN Goto(p, next) /\ UNCHANGED workVars
        ELSE /\ recoveryCancelled' = TRUE
             /\ recoveryWaiters' = recoveryWaiters \cup {p}
             /\ Goto(p, join)
             /\ UNCHANGED <<retryCancelled, retryWaiters>>
     /\ UNCHANGED <<appVars, mutexes, tsnetVars, locals, ghosts>>
  \/ /\ pc[p] = join /\ p \notin recoveryWaiters
     /\ Goto(p, next)
     /\ UNCHANGED <<appVars, mutexes, tsnetVars, workVars, locals, ghosts>>

\* The middle of stopTailscaleRetry: cancel the retry worker, wait for its end.
CancelRetry(p) ==
  \/ /\ pc[p] = "cancel"
     /\ IF pc[Retry] = "off"
        THEN Goto(p, "stop2") /\ UNCHANGED workVars
        ELSE /\ retryCancelled' = TRUE
             /\ retryWaiters' = retryWaiters \cup {p}
             /\ Goto(p, "joinRetry")
             /\ UNCHANGED <<recoveryCancelled, recoveryWaiters>>
     /\ UNCHANGED <<appVars, mutexes, tsnetVars, locals, ghosts>>
  \/ /\ pc[p] = "joinRetry" /\ p \notin retryWaiters
     /\ Goto(p, "stop2")
     /\ UNCHANGED <<appVars, mutexes, tsnetVars, workVars, locals, ghosts>>

\* Where a handler goes on after stopTailscaleRetry.
AfterStop(p) == CASE op[p] = "saveKey" -> "saveKey"
                  [] op[p] = "setKey"  -> "stop0"
                  [] OTHER             -> "dLock"

\* Mutant: the recovery worker is stopped only once, before the retry worker.
StopTailscaleRetryOnce(p) ==
  \/ StopRecovery(p, "stop1", "join1", "cancel")
  \/ CancelRetry(p)
  \/ /\ pc[p] = "stop2" /\ Goto(p, AfterStop(p))
     /\ UNCHANGED <<appVars, mutexes, tsnetVars, workVars, locals, ghosts>>

\* stopTailscaleRetry: the recovery worker is stopped a second time because the
\* start that the retry worker was draining may have scheduled one.
StopTailscaleRetry(p) ==
  \/ StopRecovery(p, "stop1", "join1", "cancel")
  \/ CancelRetry(p)
  \/ StopRecovery(p, "stop2", "join2", AfterStop(p))

Cancelled(p) == \/ p = Retry /\ retryCancelled
                \/ p = Recovery /\ recoveryCancelled

\* Mutant: the worker ends without close(done).
CloseDoneSkipped(waiters) == waiters

\* close(done): nobody waits for the worker any more.
CloseDone(waiters) == {}

\* The deferred clean-up of the retry worker.
RetryCleanup ==
  /\ pc[Retry] = "exit"
  /\ Goto(Retry, "off")
  /\ retryCancelled' = FALSE /\ retryWaiters' = CloseDone(retryWaiters)
  /\ UNCHANGED <<appVars, mutexes, tsnetVars, recoveryCancelled, recoveryWaiters,
                 locals, ghosts>>

\* Between two attempts the timer fires, unless the context is cancelled first:
\* a wait that begins cancelled ends at once, long before its timer.
RetryWait ==
  /\ pc[Retry] = "wait"
  /\ Goto(Retry, IF retryCancelled THEN "exit" ELSE "stop0")
  /\ UNCHANGED <<appVars, mutexes, tsnetVars, workVars, locals, ghosts>>

\* The deferred clean-up of the recovery worker.
RecoveryCleanup ==
  /\ pc[Recovery] = "exit"
  /\ Goto(Recovery, "off")
  /\ recoveryCancelled' = FALSE /\ recoveryWaiters' = CloseDone(recoveryWaiters)
  /\ UNCHANGED <<appVars, mutexes, tsnetVars, retryCancelled, retryWaiters,
                 locals, ghosts>>

\* Mutant: the worker applies the route without the mutex of the settings.
RecoveryTryLockSkipped == TRUE

\* configSaveMu.TryLock(): the worker never waits for a settings handler.
RecoveryTryLock == configSaveMu = Nobody

\* The recovery worker's timer fires and TryLock succeeds (a TryLock that fails
\* changes nothing): give up, or reapply the saved exit node under configSaveMu.
RecoveryTry ==
  /\ pc[Recovery] = "wait" /\ RecoveryTryLock
  /\ IF recoveryCancelled \/ exitNode = NoNode \/ tsServer = Nobody \/ locked
     THEN Goto(Recovery, "exit") /\ UNCHANGED <<mutexes, name>>
     ELSE /\ configSaveMu' = Recovery
          /\ name' = [name EXCEPT ![Recovery] = exitNode]
          /\ Goto(Recovery, "apply")
          /\ UNCHANGED tsStartMu
  /\ UNCHANGED <<appVars, tsnetVars, workVars, op, old, srv, prev, ghosts>>

\* The context of the recovery worker is cancelled while it waits.
RecoveryStopped ==
  /\ pc[Recovery] = "wait" /\ recoveryCancelled
  /\ Goto(Recovery, "exit")
  /\ UNCHANGED <<appVars, mutexes, tsnetVars, workVars, locals, ghosts>>
-----------------------------------------------------------------------------
(* startTailscaleContext.                                                   *)

\* The caller of startTailscale goes on with the result of the start.
Returned(p, result) ==
  CASE p = Retry     -> IF result = "error" THEN "wait" ELSE "exit"
    [] result # "ok" -> "sched"
    [] p = Main      -> "gui"
    [] OTHER         -> "idle"

\* Mutant: tsStartMu is not taken.
LockStartSkipped(p) == tsStartMu' = p

\* tsStartMu.Lock()
LockStart(p) == tsStartMu = Nobody /\ tsStartMu' = p

\* Mutant: App keeps the server that is about to be closed.
DetachSkipped(p) ==
  srv' = [srv EXCEPT ![p] = tsServer] /\ exitNodeActive' = FALSE /\ UNCHANGED tsServer

\* The server is taken out of App, to be closed.
Detach(p) ==
  srv' = [srv EXCEPT ![p] = tsServer] /\ tsServer' = Nobody /\ exitNodeActive' = FALSE

\* Mutant: the detached server is not closed.
CloseSkipped(p) == UNCHANGED live /\ srv' = [srv EXCEPT ![p] = Nobody]

\* Close() of the detached server.
Close(p) == live' = live \ {srv[p]} /\ srv' = [srv EXCEPT ![p] = Nobody]

\* Take tsStartMu; detach the old server, or give up without a stored key, or when
\* GetCredential cannot read it.
StartLock(p) ==
  /\ pc[p] = "lock"
  /\ \/ hasKey /\ LockStart(p) /\ Detach(p) /\ Goto(p, "close")
     \/ /\ tsStartMu = Nobody /\ Goto(p, Returned(p, "noKey"))
        /\ UNCHANGED <<tsStartMu, srv, tsServer, exitNodeActive>>
  /\ UNCHANGED <<locked, exitNode, hasKey, configSaveMu, tsnetVars, workVars,
                 op, name, old, prev, ghosts>>

\* old.Close()
StartClose(p) ==
  /\ pc[p] = "close" /\ Close(p) /\ Goto(p, "up")
  /\ UNCHANGED <<appVars, mutexes, route, workVars, op, name, old, prev, ghosts>>

\* ts.Up begins: the new server takes the state directory.
StartUp(p) ==
  /\ pc[p] = "up"
  /\ live' = live \cup {p}
  /\ Goto(p, "upWait")
  /\ UNCHANGED <<appVars, mutexes, route, workVars, locals, ghosts>>

\* ts.Up fails, times out or is cancelled: close the new server and return.
StartUpFails(p) ==
  /\ pc[p] = "upWait"
  /\ live' = live \ {p}
  /\ tsStartMu' = Nobody
  /\ Goto(p, Returned(p, "error"))
  /\ UNCHANGED <<appVars, configSaveMu, route, workVars, locals, ghosts>>

\* ts.Up succeeds and the server is published.
StartUpSucceeds(p) ==
  /\ pc[p] = "upWait" /\ ~Cancelled(p)
  /\ tsServer' = p
  /\ Goto(p, "readExit")
  /\ UNCHANGED <<locked, exitNode, exitNodeActive, hasKey, mutexes, tsnetVars,
                 workVars, locals, ghosts>>

\* Read the configured exit node: apply it, or report the restored route.
StartReadExit(p) ==
  /\ pc[p] = "readExit"
  /\ name' = [name EXCEPT ![p] = exitNode]
  /\ Goto(p, IF exitNode # NoNode THEN "apply" ELSE "refresh")
  /\ UNCHANGED <<appVars, mutexes, tsnetVars, workVars, op, old, srv, prev, ghosts>>

\* refreshExitNodeActive, first half: read the preferences (or fail to).
RefreshRead(p) ==
  /\ pc[p] = "refresh"
  /\ \E r \in {NoNode} \cup (IF Cancelled(p) THEN {} ELSE {route}) :
       prev' = [prev EXCEPT ![p] = r]
  /\ Goto(p, "refreshed")
  /\ UNCHANGED <<appVars, mutexes, tsnetVars, workVars, op, name, old, srv, ghosts>>

\* refreshExitNodeActive, second half: report what was read, and return.
RefreshCommit(p) ==
  /\ pc[p] = "refreshed"
  /\ exitNodeActive' = (prev[p] # NoNode)
  /\ prev' = [prev EXCEPT ![p] = NoNode]
  /\ tsStartMu' = Nobody
  /\ Goto(p, Returned(p, "ok"))
  /\ UNCHANGED <<locked, exitNode, tsServer, hasKey, configSaveMu, tsnetVars,
                 workVars, op, name, old, srv, ghosts>>

\* The steps of startTailscaleContext other than StartLock.
StartTailscale(p) ==
  \/ StopRecovery(p, "stop0", "join0", "lock")
  \/ StartClose(p) \/ StartUp(p) \/ StartUpFails(p) \/ StartUpSucceeds(p)
  \/ StartReadExit(p) \/ RefreshRead(p) \/ RefreshCommit(p)

\* scheduleTailscaleRetry after a failed start.
ScheduleRetry(p) ==
  /\ pc[p] = "sched"
  /\ pc' = RetryScheduled([pc EXCEPT ![p] = IF p = Main THEN "gui" ELSE "idle"])
  /\ UNCHANGED <<appVars, mutexes, tsnetVars, workVars, locals, ghosts>>
-----------------------------------------------------------------------------
(* applyExitNodePreference and applyAndVerifyExitNode.                      *)

\* previous, err := lc.GetPrefs(ctx)
ReadPrefs(p) == prev' = [prev EXCEPT ![p] = route]

\* Take the current server and read its preferences; without a server, clearing
\* the route succeeds and setting one fails.
ApplyRead(p) ==
  /\ pc[p] = "apply"
  /\ srv' = [srv EXCEPT ![p] = tsServer]
  /\ ReadPrefs(p)
  /\ Goto(p, IF tsServer # Nobody THEN "edit"
             ELSE IF name[p] = NoNode THEN "applied" ELSE "refused")
  /\ UNCHANGED <<appVars, mutexes, tsnetVars, workVars, op, name, old, ghosts>>

\* exitNodePreference: the empty name clears the route, any other is the one peer that
\* it names and that offers itself as an exit node.  Without such a peer the attempt fails.
ExitNodePreference(p) == route' = name[p]

\* EditPrefs, unless anything before it or EditPrefs itself fails.
ApplyEdit(p) ==
  /\ pc[p] = "edit"
  /\ \/ /\ srv[p] \in live /\ ~Cancelled(p)
        /\ ExitNodePreference(p)
        /\ Goto(p, "verify")
     \/ UNCHANGED route /\ Goto(p, "refused")
  /\ UNCHANGED <<appVars, mutexes, live, workVars, locals, ghosts>>

\* effectiveExitNode: the preferences that are read back have the wanted route.
EffectiveExitNode(p) == srv[p] \in live /\ ~Cancelled(p) /\ route = name[p]

\* The readback shows the new route, or the attempt is given up and the previous
\* preferences are restored, which may fail too.
ApplyVerify(p) ==
  /\ pc[p] = "verify"
  /\ \/ /\ EffectiveExitNode(p)
        /\ UNCHANGED route
        /\ Goto(p, "applied")
     \/ /\ route' \in {route} \cup (IF srv[p] \in live THEN {prev[p]} ELSE {})
        /\ Goto(p, "refused")
  /\ UNCHANGED <<appVars, mutexes, live, workVars, locals, ghosts>>

ApplyExitNode(p) == ApplyRead(p) \/ ApplyEdit(p) \/ ApplyVerify(p)

\* The end of applyConfiguredExitNode in a start or in the recovery worker.
ConfiguredApplied(p) ==
  /\ pc[p] \in {"applied", "refused"} /\ op[p] \in StartOps \cup {"recover"}
  /\ exitNodeActive' = (pc[p] = "applied" /\ name[p] # NoNode)
  /\ Forget(p)
  /\ IF p = Recovery
     THEN /\ configSaveMu' = Nobody
          /\ Goto(p, IF pc[p] = "applied" THEN "exit" ELSE "wait")
          /\ UNCHANGED tsStartMu
     ELSE IF pc[p] = "applied"
     THEN tsStartMu' = Nobody /\ Goto(p, Returned(p, "ok")) /\ UNCHANGED configSaveMu
     ELSE Goto(p, "schedRecovery") /\ UNCHANGED mutexes
  /\ UNCHANGED <<locked, exitNode, tsServer, hasKey, tsnetVars, workVars,
                 op, ghosts>>

\* scheduleExitNodeRecovery, then the end of the start or of the handler.
ScheduleRecovery(p) ==
  /\ pc[p] = "schedRecovery"
  /\ IF op[p] \in StartOps
     THEN /\ pc' = RecoveryScheduled([pc EXCEPT ![p] = Returned(p, "ok")])
          /\ tsStartMu' = Nobody /\ UNCHANGED configSaveMu
     ELSE /\ pc' = RecoveryScheduled([pc EXCEPT ![p] = "idle"])
          /\ configSaveMu' = Nobody /\ UNCHANGED tsStartMu
  /\ UNCHANGED <<appVars, tsnetVars, workVars, locals, ghosts>>
-----------------------------------------------------------------------------
(* handleExitNode, POST.                                                    *)

\* Take configSaveMu, remember the saved choice, apply the requested one.
ExitNodeLock(h) ==
  /\ pc[h] = "xLock" /\ configSaveMu = Nobody
  /\ configSaveMu' = h
  /\ old' = [old EXCEPT ![h] = exitNode]
  /\ Goto(h, "apply")
  /\ UNCHANGED <<appVars, tsStartMu, tsnetVars, workVars, op, name, srv, prev, ghosts>>

\* The route was refused, or could not be rolled back: it is reported inactive
\* and the saved choice, if any, is left to the recovery worker.
ExitNodeRefused(h) ==
  /\ pc[h] = "refused" /\ op[h] \in {"exitNode", "rollback"}
  /\ exitNodeActive' = FALSE
  /\ Forget(h)
  /\ IF old[h] # NoNode
     THEN Goto(h, "schedRecovery") /\ UNCHANGED mutexes
     ELSE Goto(h, "idle") /\ configSaveMu' = Nobody /\ UNCHANGED tsStartMu
  /\ UNCHANGED <<locked, exitNode, tsServer, hasKey, tsnetVars, workVars,
                 op, ghosts>>

\* The route was accepted: SaveConfig succeeds and the choice is committed, or
\* it fails and the saved choice is applied again.
ExitNodeSave(h) ==
  /\ pc[h] = "applied" /\ op[h] = "exitNode"
  /\ \/ /\ exitNode' = name[h] /\ exitNodeActive' = (name[h] # NoNode)
        /\ configSaveMu' = Nobody
        /\ Forget(h)
        /\ Goto(h, "idle")
        /\ UNCHANGED op
     \/ /\ op' = [op EXCEPT ![h] = "rollback"]
        /\ name' = [name EXCEPT ![h] = old[h]]
        /\ Goto(h, "apply")
        /\ UNCHANGED <<exitNode, exitNodeActive, configSaveMu, old, srv, prev>>
  /\ UNCHANGED <<locked, tsServer, hasKey, tsStartMu, tsnetVars, workVars, ghosts>>

\* The saved choice was applied again: the request fails, nothing else changes.
ExitNodeRolledBack(h) ==
  /\ pc[h] = "applied" /\ op[h] = "rollback"
  /\ configSaveMu' = Nobody
  /\ Forget(h)
  /\ Goto(h, "idle")
  /\ UNCHANGED <<appVars, tsStartMu, tsnetVars, workVars, op, ghosts>>

\* The steps of handleExitNode other than ExitNodeLock and the application.
HandleExitNode(h) == ExitNodeRefused(h) \/ ExitNodeSave(h) \/ ExitNodeRolledBack(h)
-----------------------------------------------------------------------------
(* The other handlers and main().                                           *)

\* Where a request starts; handleSetTailscaleKey stores the key before it stops
\* the workers, handleSaveKey after.
FirstStep(o) == CASE o = "unlock"   -> "stop0"
                  [] o = "saveKey"  -> "stop1"
                  [] o = "setKey"   -> "saveKey"
                  [] o = "exitNode" -> "xLock"
                  [] OTHER          -> "stop1"

\* Mutant: the unlock gate is not consulted.
AdmittedAlways(o) == TRUE

\* authMiddleware: while locked, only the unlock request is admitted.
Admitted(o) == o # "unlock" => ~locked

\* A request arrives while the window is open; authMiddleware refuses all but
\* unlock when locked.  A request that is refused or malformed changes nothing.
Request(h, o, n) ==
  /\ pc[h] = "idle" /\ pc[Main] = "gui" /\ requests < MaxRequests
  /\ Admitted(o)
  /\ o # "exitNode" => n = NoNode
  /\ locked' = (locked /\ o # "unlock")
  /\ op' = [op EXCEPT ![h] = o] /\ name' = [name EXCEPT ![h] = n]
  /\ Goto(h, FirstStep(o))
  /\ requests' = requests + 1
  /\ undisturbed' = IF o = "disconnect" /\ \A g \in Handlers : pc[g] = "idle"
                    THEN {h} ELSE {}
  /\ UNCHANGED <<exitNode, tsServer, exitNodeActive, hasKey, mutexes, tsnetVars,
                 workVars, old, srv, prev>>

\* SaveCredential("tailscale-key", ...)
SaveCredential == hasKey' = TRUE

\* The key is stored, or that fails and the request ends.
SaveKey(h) ==
  /\ pc[h] = "saveKey"
  /\ \/ SaveCredential /\ Goto(h, IF op[h] = "setKey" THEN "stop1" ELSE "stop0")
     \/ UNCHANGED hasKey /\ Goto(h, "idle")
  /\ UNCHANGED <<locked, exitNode, tsServer, exitNodeActive, mutexes, tsnetVars,
                 workVars, locals, ghosts>>

\* handleTailscaleDisconnect and shutdown, after stopTailscaleRetry.
DisconnectLock(p) ==
  /\ pc[p] = "dLock" /\ LockStart(p) /\ Detach(p) /\ Goto(p, "dClose")
  /\ UNCHANGED <<locked, exitNode, hasKey, configSaveMu, tsnetVars, workVars,
                 op, name, old, prev, ghosts>>

DisconnectClose(p) ==
  /\ pc[p] = "dClose" /\ Close(p) /\ tsStartMu' = Nobody
  /\ Goto(p, IF p = Main THEN "exited" ELSE "idle")
  /\ UNCHANGED <<appVars, configSaveMu, route, workVars, op, name, old, prev, ghosts>>

\* runGUI returns and main calls shutdown.
Shutdown ==
  /\ pc[Main] = "gui"
  /\ op' = [op EXCEPT ![Main] = "shutdown"]
  /\ Goto(Main, "stop1")
  /\ UNCHANGED <<appVars, mutexes, tsnetVars, workVars, name, old, srv, prev, ghosts>>

\* One step of a goroutine that does not wait for a mutex.
Step(p) ==
  \/ StopTailscaleRetry(p) \/ StartTailscale(p) \/ ScheduleRetry(p)
  \/ ApplyExitNode(p) \/ ConfiguredApplied(p) \/ ScheduleRecovery(p)
  \/ HandleExitNode(p) \/ SaveKey(p) \/ DisconnectClose(p)

\* A goroutine takes the mutex it waits for.
Acquire(p) == StartLock(p) \/ DisconnectLock(p) \/ ExitNodeLock(p)

\* One step of the loop of a worker.
WorkerStep(p) == \/ p = Retry /\ (RetryWait \/ RetryCleanup)
                 \/ p = Recovery /\ (RecoveryStopped \/ RecoveryCleanup)

\* The process has exited.
Exited == pc[Main] = "exited" /\ UNCHANGED vars

Next ==
  \/ /\ pc[Main] # "exited"
     /\ \/ \E p \in Procs : Step(p) \/ WorkerStep(p) \/ Acquire(p)
        \/ RecoveryTry
        \/ \E h \in Handlers, o \in Ops, n \in Names : Request(h, o, n)
        \/ Shutdown
  \/ Exited

Spec == Init /\ [][Next]_vars

(***************************************************************************)
(* Fairness: goroutines are scheduled, every call of tsnet ends (Up and    *)
(* the preference calls have deadlines), timers fire, and a sync.Mutex is  *)
(* handed to a waiter that keeps losing it after 1ms (its starvation       *)
(* mode), which is strong fairness of Acquire.  Nothing makes a user send  *)
(* a request or close the window.                                          *)
(***************************************************************************)
Alive == pc[Main] # "exited"

Fairness ==
  /\ \A p \in Procs : WF_vars(Alive /\ (Step(p) \/ WorkerStep(p)))
  /\ \A p \in Procs \ {Recovery} : SF_vars(Alive /\ Acquire(p))

FairSpec == Spec /\ Fairness
-----------------------------------------------------------------------------
(* Properties that hold.                                                    *)

\* main.go: "A tsnet state directory may only have one live server."  However
\* starts, retries and disconnects interleave, two servers never run at once.
OneLiveServer == Cardinality(live) <= 1

\* A published server is running: no handler can obtain a closed server from
\* ts(), since every server is detached from App before it is closed.
PublishedIsLive == tsServer # Nobody => tsServer \in live

\* A disconnect that no other request overlaps or follows is final: when it has
\* returned no server runs, no worker is left to bring one back, and no exit
\* node is reported (handleTailscaleDisconnect, stopTailscaleRetry).
DisconnectIsFinal ==
  \A h \in undisturbed :
    pc[h] = "idle" => /\ live = {} /\ tsServer = Nobody /\ ~exitNodeActive
                      /\ pc[Retry] = "off" /\ pc[Recovery] = "off"

\* While the unlock gate is closed no Tailscale node runs or is being started.
LockedMeansDown == locked => live = {} /\ tsServer = Nobody

\* exit_node_recovery.go: "an old retry can never overwrite a newer selection or
\* an explicit clear": when the recovery worker edits the preferences to apply an exit
\* node, it is the one that is configured at that moment.  (If the readback fails after
\* that, applyAndVerifyExitNode writes back what it found before.)
RecoveryWritesSavedChoice ==
  [][(pc[Recovery] = "edit" /\ pc'[Recovery] = "verify") => route' = exitNode]_vars

\* All requests are answered (there are finitely many) and closing the window ends the
\* program: no cycle of mutexes and joined workers can block a handler or main for ever.
RequestsEnd ==
  (\E h \in Handlers : pc[h] # "idle") ~> (\A h \in Handlers : pc[h] = "idle") \/ ~Alive

ShutdownEnds == pc[Main] = "stop1" ~> ~Alive
-----------------------------------------------------------------------------
(* Why they hold: the inductive invariant of the proofs.                    *)

Applying == {"apply", "edit", "verify", "applied", "refused"}

\* Process p is inside its section of tsStartMu, of configSaveMu.
HoldsStart(p) ==
  \/ pc[p] \in {"close", "up", "upWait", "readExit", "refresh", "refreshed", "dClose"}
  \/ pc[p] \in Applying \cup {"schedRecovery"} /\ op[p] \in StartOps

HoldsSave(p) ==
  \/ pc[p] \in Applying /\ p = Recovery
  \/ pc[p] \in Applying \cup {"schedRecovery"} /\ op[p] \in {"exitNode", "rollback"}

\* What a process runs agrees with where it is.
OpInv ==
  /\ op[Retry] = "retry" /\ op[Main] \in {"boot", "shutdown"}
  /\ \A p \in Procs :
       /\ op[p] = "recover" <=> p = Recovery
       /\ pc[p] \in {"stop0", "join0", "lock", "close", "up", "upWait", "readExit",
                    "refresh", "refreshed", "sched"} => op[p] \in StartOps
       /\ pc[p] = "saveKey" => op[p] \in {"saveKey", "setKey"}
       /\ pc[p] = "xLock" => op[p] = "exitNode"
       /\ pc[p] = "schedRecovery" => p # Recovery
       /\ pc[p] \in {"gui", "exited"} => p = Main
       /\ pc[p] \in Applying \cup {"schedRecovery"} =>
            op[p] \in StartOps \cup {"recover", "exitNode", "rollback"}

\* The two mutexes exclude.
MutexInv == \A p \in Procs : /\ HoldsStart(p) => tsStartMu = p
                             /\ HoldsSave(p) => configSaveMu = p

\* The servers that run: the published one, or while a process replaces it,
\* the one it is about to close or the one it is bringing up.
ServerInv ==
  /\ (\A p \in Procs : pc[p] \notin {"close", "dClose", "up", "upWait"}) =>
       live = {tsServer} \ {Nobody}
  /\ \A p \in Procs :
       /\ pc[p] \in {"close", "dClose", "up", "upWait"} => tsServer = Nobody
       /\ pc[p] \in {"close", "dClose"} => live = {srv[p]} \ {Nobody}
       /\ pc[p] = "up" => live = {}
       /\ pc[p] = "upWait" => live = {p}

\* The recovery worker is applying the exit node that is configured.
ChoiceInv == pc[Recovery] \in Applying => name[Recovery] = exitNode

\* Main waits for the end of the window, or is shutting down.
Ending == {"gui", "stop1", "join1", "cancel", "joinRetry", "stop2", "join2", "dLock",
           "dClose", "exited"}

\* Behind the closed gate nothing has started anything.
GateInv ==
  locked => /\ live = {} /\ tsServer = Nobody
            /\ pc[Main] \in Ending
            /\ \A p \in Procs \ {Main} : pc[p] \in {"idle", "off"}

\* How far an undisturbed disconnect is: first the retry worker is gone, which alone
\* could start a server or schedule a recovery, then the recovery worker, then the
\* server.
DisconnectInv ==
  \A h \in undisturbed :
    /\ op[h] = "disconnect" /\ pc[h] \in (Ending \ {"gui", "exited"}) \cup {"idle"}
    /\ pc[Main] \in Ending
    /\ \A g \in Handlers \ {h} : pc[g] = "idle"
    /\ \/ pc[h] \in {"stop2", "join2", "dLock", "dClose", "idle"}
       \/ pc[h] = "joinRetry" /\ h \notin retryWaiters
       => pc[Retry] = "off"
    /\ \/ pc[h] \in {"dLock", "dClose", "idle"}
       \/ pc[h] = "join2" /\ h \notin recoveryWaiters
       => pc[Recovery] = "off"
    /\ pc[h] \in {"dClose", "idle"} => tsServer = Nobody /\ ~exitNodeActive
    /\ pc[h] = "idle" => live = {}

\* The parts of the inductive invariant beyond TypeOK.
IInv == OpInv /\ MutexInv /\ ServerInv /\ ChoiceInv /\ GateInv /\ DisconnectInv
=============================================================================
