-------------------------- MODULE ApplicationProofs --------------------------
(***************************************************************************)
(* Proofs about the client as a whole: the controller keeps its promises   *)
(* when it is driven by the task queue, a task that waits for the          *)
(* controller always has the timer that ends it, and what comes to the     *)
(* browser's extension is whole and true.                                  *)
(***************************************************************************)
EXTENDS Application, ControllerProofs, WebExtension, SequenceTheorems

\* Only a task that waits for the controller has a timer.
TimerHasTask == taskTimer => running \in Action /\ ~starting

\* No task is about to be run when the listeners learn that the controller is
\* ready: what the slot schedules then does not meet one.
StartupFirst == seen = "Initializing" /\ starting => state = "Initializing"

\* The part of the invariant that is about the queue.
QueueInv ==
  /\ TaskIsTimed
  /\ TimerHasTask
  /\ {starting, taskTimer} \subseteq BOOLEAN

\* maybeRunTask() while a task runs changes the queue alone; otherwise the first
\* task is taken, and is about to be run.
LEMMA Scheduled ==
  ASSUME QueueInv, ~starting, NEW q, Scheduler!maybeRunTask(q, running, 0), UNCHANGED taskTimer
  PROVE  QueueInv'
<1>1. NoTask \notin Action
  BY DEF NoTask, Action
<1>2. CASE running = NoTask /\ q # <<>>
  <2>1. starting' = TRUE /\ taskTimer' = FALSE
    BY <1>1, <1>2 DEF QueueInv, TimerHasTask, Scheduler!maybeRunTask
  <2> QED BY <2>1 DEF QueueInv, TaskIsTimed, TimerHasTask
<1>3. CASE ~(running = NoTask /\ q # <<>>)
  <2>1. starting' = FALSE /\ running' = running
    BY <1>3 DEF Scheduler!maybeRunTask
  <2> QED BY <2>1 DEF QueueInv, TaskIsTimed, TimerHasTask
<1> QED BY <1>2, <1>3

\* The next task is taken when one is over.
LEMMA Completed ==
  ASSUME NEW q, Complete(q)
  PROVE  QueueInv'
BY DEF QueueInv, TaskIsTimed, TimerHasTask, Complete, Scheduler!maybeRunTask, NoTask

\* checkStatus() ends the task or starts its timer again.
LEMMA Checked ==
  ASSUME QueueInv, running \in Action, NEW s, NEW last, CheckStatus(s, last)
  PROVE  QueueInv'
<1>1. CASE s = last
  BY <1>1, Completed DEF CheckStatus
<1>2. CASE s # last
  BY <1>2 DEF CheckStatus, QueueInv, TaskIsTimed, TimerHasTask
<1> QED BY <1>1, <1>2

\* Steps that leave the queue alone.
LEMMA QueueAlone ==
  ASSUME QueueInv, UNCHANGED <<running, starting, taskTimer>>
  PROVE  QueueInv'
BY DEF QueueInv, TaskIsTimed, TimerHasTask

\* The queue is looked after by every step of the client.
LEMMA QueueKeeps ==
  ASSUME QueueInv, StartupFirst, AppNext
  PROVE  QueueInv'
<1>1. CASE appInitialize \/ profilesThere \/ quitRequested \/ implCalled \/ implInitializes
             \/ implHandshakes \/ implDisconnects \/ handshakeTimesOut \/ confirmingTimesOut
  BY <1>1, QueueAlone DEF appInitialize, profilesThere, quitRequested, implCalled, implInitializes,
     implHandshakes, implDisconnects, handshakeTimesOut, confirmingTimesOut, appVars, queueVars
<1>2. CASE activateRequested \/ deactivateRequested \/ extensionActivates \/ extensionDeactivates
             \/ profilesGone \/ silentSwitch \/ hardResetAndQuit
  <2>1. \E q : Scheduler!maybeRunTask(q, running, 0)
    BY <1>2 DEF activateRequested, deactivateRequested, extensionActivates, extensionDeactivates,
       profilesGone, silentSwitch, hardResetAndQuit, Request, Schedule
  <2>2. ~starting /\ UNCHANGED taskTimer
    BY <1>2 DEF activateRequested, deactivateRequested, extensionActivates, extensionDeactivates,
       profilesGone, silentSwitch, hardResetAndQuit, Request, MayRequest, Quiet
  <2> QED BY <2>1, <2>2, Scheduled
<1>3. CASE runActivation \/ runReset \/ runQuit \/ runDeleteOSTunnelConfig
  <2>1. \E q : Complete(q)
    BY <1>3 DEF runActivation, runReset, runQuit, runDeleteOSTunnelConfig
  <2> QED BY <2>1, Completed
<1>4. CASE runAction
  <2>1. running \in Action
    BY <1>4 DEF runAction
  <2>2. \/ \E s, last : CheckStatus(s, last)
        \/ taskTimer' = TRUE /\ starting' = FALSE /\ running' = running
    BY <1>4 DEF runAction
  <2>3. CASE \E s, last : CheckStatus(s, last)
    BY <2>1, <2>3, Checked
  <2>4. CASE taskTimer' = TRUE /\ starting' = FALSE /\ running' = running
    BY <2>1, <2>4 DEF QueueInv, TaskIsTimed, TimerHasTask
  <2> QED BY <2>2, <2>3, <2>4
<1>5. CASE taskTimeout
  <2>1. running \in Action /\ CheckStatus(state, lastState)
    BY <1>5 DEF taskTimeout, QueueInv, TimerHasTask
  <2> QED BY <2>1, Checked
<1>6. CASE stateChanged
  <2>1. CASE seen = "Initializing" /\ Schedule(Remaining, "activation") /\ UNCHANGED taskTimer
    <3>1. ~starting
      BY <1>6, <2>1 DEF StartupFirst, stateChanged
    <3> QED BY <2>1, <3>1, Scheduled DEF Schedule
  <2>2. CASE Complete(tasks)
    BY <2>2, Completed
  <2>3. CASE UNCHANGED <<tasks, running, starting, taskTimer>>
    BY <2>3, QueueAlone
  <2> QED BY <1>6, <2>1, <2>2, <2>3 DEF stateChanged
<1> QED BY <1>1, <1>2, <1>3, <1>4, <1>5, <1>6 DEF AppNext, Requests, Synchronous

\* A run() that the controller meets in StateInitializing leaves it there.
LEMMA RunKeepsInitializing ==
  ASSUME runActivation \/ runReset \/ runQuit \/ runDeleteOSTunnelConfig \/ runAction,
         state = "Initializing"
  PROVE  state' = "Initializing"
<1>1. CASE runActivation \/ runReset
  BY <1>1 DEF runActivation, runReset, ctlVars
<1>2. CASE runQuit
  BY <1>2 DEF runQuit, quit, isActive
<1>3. CASE runDeleteOSTunnelConfig
  BY <1>3 DEF runDeleteOSTunnelConfig, deleteOSTunnelConfig, SetState
<1>4. CASE runAction
  <2>1. ~MayActivate /\ ~isActive /\ state # "On"
    BY DEF MayActivate, isActive
  <2>2. ~Requested(running)
    BY <2>1 DEF Requested, activateProfile, activateServer, deactivate, silentSwitchServers
  <2> QED BY <1>4, <2>2 DEF runAction, ctlVars
<1> QED BY <1>1, <1>2, <1>3, <1>4

\* The listeners have learnt that the controller is ready before a task is taken.
LEMMA StartupKeeps ==
  ASSUME StartupFirst, AppNext
  PROVE  StartupFirst'
<1>1. CASE runActivation \/ runReset \/ runQuit \/ runDeleteOSTunnelConfig \/ runAction
  <2>1. starting /\ seen' = seen
    BY <1>1 DEF runActivation, runReset, runQuit, runDeleteOSTunnelConfig, runAction
  <2>2. CASE seen = "Initializing"
    BY <1>1, <2>1, <2>2, RunKeepsInitializing DEF StartupFirst
  <2>3. CASE seen # "Initializing"
    BY <2>1, <2>3 DEF StartupFirst
  <2> QED BY <2>2, <2>3
<1>2. CASE stateChanged
  BY <1>2 DEF stateChanged, StartupFirst, ctlVars
<1>3. CASE appInitialize \/ profilesThere \/ quitRequested \/ implCalled \/ implInitializes
             \/ implHandshakes \/ implDisconnects \/ handshakeTimesOut \/ confirmingTimesOut
  <2>1. ~starting /\ starting' = starting
    BY <1>3 DEF appInitialize, profilesThere, quitRequested, implCalled, implInitializes,
     implHandshakes, implDisconnects, handshakeTimesOut, confirmingTimesOut, appVars, queueVars,
     Quiet, MayRequest
  <2> QED BY <2>1 DEF StartupFirst
<1>4. CASE activateRequested \/ deactivateRequested \/ extensionActivates \/ extensionDeactivates
             \/ profilesGone \/ silentSwitch \/ hardResetAndQuit \/ taskTimeout
  <2>1. seen = state /\ seen' = seen /\ state' = state
    BY <1>4 DEF activateRequested, deactivateRequested, extensionActivates, extensionDeactivates,
       profilesGone, silentSwitch, hardResetAndQuit, taskTimeout, Request, MayRequest, Quiet, ctlVars
  <2> QED BY <2>1 DEF StartupFirst
<1> QED BY <1>1, <1>2, <1>3, <1>4 DEF AppNext, Requests, Synchronous

\* The peers of the backend.
PeersTyped == {trying, tunnel} \subseteq Keys \cup {NoKey}

\* Every step of the client is one of the controller, leaves it alone, or changes
\* what the profile model offers it.
LEMMA ControllerStep ==
  ASSUME CtlInv, PeersTyped, AppNext
  PROVE  CtlInv'
<1>1. CASE [CtlNext]_ctlVars
  BY <1>1, NextInv
<1>2. CASE profilesThere \/ profilesGone
  <2>1. /\ UNCHANGED <<state, attempt, initiator, confirmingTimer, enableDisconnect, connectedTime>>
        /\ nextStep' = nextStep /\ error' = error
    BY <1>2 DEF profilesThere, profilesGone
  <2>2. call' \in Call /\ RestTypeOK'
    BY <1>2, NoCallType, RestFromInv
       DEF profilesThere, profilesGone, RestTypeOK, backend, server
  <2> QED BY <2>1, <2>2, RestFromInv, UnmovedInv
<1>3. CASE runAction
  <2>1. CASE UNCHANGED ctlVars
    BY <1>1, <2>1
  <2>2. CASE Requested(running)
    <3>1. User(running) \in {"ExtensionUser", "ClientUser"}
      BY DEF User
    <3>2. UserNext
      BY <2>2, <3>1 DEF Requested, UserNext
    <3> QED BY <1>1, <3>2 DEF CtlNext
  <2> QED BY <1>3, <2>1, <2>2 DEF runAction
<1>4. CASE implHandshakes
  <2>1. trying \in Keys
    BY <1>4 DEF implHandshakes, PeersTyped
  <2> QED BY <1>1, <1>4, <2>1 DEF implHandshakes, CtlNext, SignalNext
<1>5. CASE implInitializes
  <2>1. PICK status \in BOOLEAN : implInitialized(status, tunnel # NoKey)
    BY <1>5 DEF implInitializes
  <2>2. (tunnel # NoKey) \in BOOLEAN
    OBVIOUS
  <2>3. SignalNext
    BY <2>1, <2>2 DEF SignalNext
  <2> QED BY <1>1, <2>3 DEF CtlNext
<1>6. CASE implCalled \/ implDisconnects \/ handshakeTimesOut \/ confirmingTimesOut
  BY <1>1, <1>6 DEF implCalled, implDisconnects, handshakeTimesOut, confirmingTimesOut,
     CtlNext, SignalNext, TimerNext
<1>7. CASE appInitialize \/ quitRequested \/ runQuit \/ runDeleteOSTunnelConfig
  BY <1>1, <1>7 DEF appInitialize, quitRequested, runQuit, runDeleteOSTunnelConfig, CtlNext, UserNext
<1>8. CASE activateRequested \/ deactivateRequested \/ extensionActivates \/ extensionDeactivates
             \/ silentSwitch \/ hardResetAndQuit \/ taskTimeout \/ runActivation \/ runReset
             \/ stateChanged
  BY <1>1, <1>8 DEF activateRequested, deactivateRequested, extensionActivates,
     extensionDeactivates, silentSwitch, hardResetAndQuit, taskTimeout, runActivation, runReset,
     stateChanged, Request
<1> QED BY <1>2, <1>3, <1>4, <1>5, <1>6, <1>7, <1>8 DEF AppNext, Requests, Synchronous

-----------------------------------------------------------------------------
(* A disconnection is answered.                                            *)

\* While the controller is disconnecting, the backend is asked to deactivate or
\* owes an answer: with any backend that keeps its contract, the client does not
\* wait for a signal that nobody will send.
DisconnectOwed == state = "Disconnecting" => call = CallDeactivate \/ owed

\* No attempt is under way meanwhile; and as nothing here switches servers,
\* nothing is connected anew by the answer.
NoAttemptMeanwhile == state = "Disconnecting" => queue = <<>>
NothingReconnects == nextStep # "Reconnect"

\* What the controller may do about a disconnection in one step: begin one with
\* a call of the backend's deactivate(), or let it go on.
Disconnecting ==
  /\ NothingReconnects'
  /\ state' = "Disconnecting" =>
       /\ queue' = <<>>
       /\ call' = CallDeactivate \/ (state = "Disconnecting" /\ call' = call)

\* A deactivation drops the attempt and calls the backend (controller.cpp's
\* deactivate, quit and handshakeTimeout).
LEMMA DeactivateActiveDisconnects ==
  ASSUME NEW timer, DeactivateActive(timer), UNCHANGED nextStep \/ nextStep' = "Quit",
         NothingReconnects
  PROVE  Disconnecting
BY DEF DeactivateActive, Deactivation, ClearAttempt, SetState, Disconnecting, NothingReconnects

\* An activation does not begin a disconnection, whatever state it ends in.
LEMMA ActivateInternalDisconnects ==
  ASSUME NEW s, s # "Disconnecting", NEW user, NEW err, NEW ns, ns # "Reconnect",
         NEW k, NEW mh, NEW r, ActivateInternal(s, user, err, ns, k, mh, r)
  PROVE  Disconnecting
<1>1. state' # "Disconnecting"
  BY DEF ActivateInternal, ServerUnavailable, SubmitFirst, SetState
<1>2. nextStep' # "Reconnect"
  BY DEF ActivateInternal
<1> QED BY <1>1, <1>2 DEF Disconnecting, NothingReconnects

\* What the users of the controller ask of it.
LEMMA RequestsDisconnect ==
  ASSUME NothingReconnects, NoAttemptMeanwhile,
         \/ \E user : deactivate(user)
         \/ quit
         \/ silentSwitchServers
         \/ deleteOSTunnelConfig
         \/ initialize
         \/ \E k, user : activateProfile(k, user)
         \/ \E mh, user : activateServer(mh, user)
  PROVE  Disconnecting
<1>1. CASE \E user : deactivate(user)
  BY <1>1, DeactivateActiveDisconnects DEF deactivate
<1>2. CASE quit
  <2>1. CASE isActive /\ state # "Disconnecting"
    BY <1>2, <2>1, DeactivateActiveDisconnects DEF quit
  <2>2. CASE ~(isActive /\ state # "Disconnecting")
    BY <1>2, <2>2 DEF quit, Disconnecting, NothingReconnects, NoAttemptMeanwhile, attempt
  <2> QED BY <2>1, <2>2
<1>3. CASE silentSwitchServers
  BY <1>3, ActivateInternalDisconnects DEF silentSwitchServers, NothingReconnects
<1>4. CASE deleteOSTunnelConfig \/ initialize
  BY <1>4 DEF deleteOSTunnelConfig, initialize, SetState, Disconnecting, NothingReconnects
<1>5. CASE \E k, user : activateProfile(k, user)
  BY <1>5 DEF activateProfile, MayActivate, SubmitFirst, SetState, Disconnecting, NothingReconnects
<1>6. CASE \E mh, user : activateServer(mh, user)
  <2>1. PICK mh, user : activateServer(mh, user)
    BY <1>6
  <2>2. state # "Disconnecting" /\ state \in {"Off", "OnPartial", "Switching", "SilentSwitching",
             "RegeneratingKey"}
    BY <2>1 DEF activateServer, MayActivate
  <2>3. CASE UNCHANGED <<state, nextStep>>
    BY <2>2, <2>3 DEF Disconnecting, NothingReconnects
  <2>4. CASE ActivateInternal(IF user = "ExtensionUser" THEN state ELSE "Connecting",
                              user, "None", nextStep, NoKey, mh, 0)
    <3> DEFINE s == IF user = "ExtensionUser" THEN state ELSE "Connecting"
    <3>1. s # "Disconnecting" /\ nextStep # "Reconnect"
      BY <2>2 DEF NothingReconnects
    <3> QED BY <2>4, <3>1, ActivateInternalDisconnects
  <2> QED BY <2>1, <2>3, <2>4 DEF activateServer
<1> QED BY <1>1, <1>2, <1>3, <1>4, <1>5, <1>6

\* What the backend and the timers tell it.
LEMMA EventsDisconnect ==
  ASSUME CtlInv, NothingReconnects, NoAttemptMeanwhile,
         \/ handshakeTimeout
         \/ confirmingTimeout
         \/ disconnected
         \/ \E k : connected(k)
         \/ \E st, c : implInitialized(st, c)
  PROVE  Disconnecting
<1>1. CASE handshakeTimeout
  <2>1. state # "Disconnecting"
    BY <1>1 DEF handshakeTimeout, CtlInv, TimerHasHop, NoAttemptMeanwhile
  <2>2. CASE DeactivateActive(FALSE) /\ UNCHANGED nextStep
    BY <2>2, DeactivateActiveDisconnects
  <2>3. CASE ActivateInternal(state, initiator, error, nextStep, exitKey, multihop, NextRetry)
    BY <2>1, <2>3, ActivateInternalDisconnects DEF NothingReconnects
  <2>4. CASE nextStep' = nextStep /\ (state' = state \/ state' = "ConnectionError"
                                        \/ ServerUnavailable(state))
    BY <2>1, <2>4 DEF ServerUnavailable, SetState, Disconnecting, NothingReconnects
  <2> QED BY <1>1, <2>2, <2>3, <2>4 DEF handshakeTimeout, SetState
<1>2. CASE confirmingTimeout
  BY <1>2 DEF confirmingTimeout, attempt, Disconnecting, NothingReconnects, NoAttemptMeanwhile
<1>3. CASE disconnected
  BY <1>3 DEF disconnected, SetState, Disconnecting, NothingReconnects
<1>4. CASE \E k : connected(k)
  <2>1. CASE Len(queue) > 1
    <3>1. state # "Disconnecting"
      BY <2>1 DEF NoAttemptMeanwhile
    <3> QED BY <1>4, <2>1, <3>1 DEF connected, SubmitFirst, SetState, Disconnecting, NothingReconnects
  <2>2. CASE ~(Len(queue) > 1)
    BY <1>4, <2>2 DEF connected, AllHopsConnected, ConnectedState, Deactivation, ClearAttempt,
       SetState, Disconnecting, NothingReconnects
  <2> QED BY <2>1, <2>2
<1>5. CASE \E st, c : implInitialized(st, c)
  BY <1>5 DEF implInitialized, SetState, Disconnecting, NothingReconnects
<1> QED BY <1>1, <1>2, <1>3, <1>4, <1>5

\* The part of the invariant that is about disconnections.
OwedInv == DisconnectOwed /\ NoAttemptMeanwhile /\ NothingReconnects

\* A step of the controller that leaves what the backend owes.
LEMMA OwedGoesOn ==
  ASSUME OwedInv, Disconnecting, UNCHANGED owed
  PROVE  OwedInv'
BY DEF OwedInv, Disconnecting, DisconnectOwed, NoAttemptMeanwhile

\* No step of the client forgets a disconnection, or that an answer is owed.
LEMMA OwedKeeps ==
  ASSUME CtlInv, OwedInv, AppNext
  PROVE  OwedInv'
<1>0. NothingReconnects /\ NoAttemptMeanwhile
  BY DEF OwedInv
<1>1. ASSUME UNCHANGED ctlVars PROVE Disconnecting
  BY <1>0, <1>1 DEF ctlVars, attempt, Disconnecting, NothingReconnects, NoAttemptMeanwhile
<1>2. CASE activateRequested \/ deactivateRequested \/ extensionActivates \/ extensionDeactivates
             \/ silentSwitch \/ hardResetAndQuit \/ taskTimeout \/ runActivation \/ runReset
             \/ stateChanged
  BY <1>1, <1>2, OwedGoesOn DEF activateRequested, deactivateRequested, extensionActivates,
     extensionDeactivates, silentSwitch, hardResetAndQuit, taskTimeout, runActivation, runReset,
     stateChanged, Request, implVars
<1>3. CASE profilesThere \/ profilesGone
  <2>1. Disconnecting /\ UNCHANGED owed
    BY <1>0, <1>3 DEF profilesThere, profilesGone, attempt, implVars, Disconnecting,
       NothingReconnects, NoAttemptMeanwhile
  <2> QED BY <2>1, OwedGoesOn
<1>4. CASE appInitialize \/ quitRequested \/ runQuit \/ runDeleteOSTunnelConfig
  <2>1. (initialize \/ quit \/ deleteOSTunnelConfig \/ UNCHANGED ctlVars) /\ UNCHANGED owed
    BY <1>4 DEF appInitialize, quitRequested, runQuit, runDeleteOSTunnelConfig, implVars
  <2> QED BY <1>0, <1>1, <2>1, RequestsDisconnect, OwedGoesOn
<1>5. CASE runAction
  <2>1. (Requested(running) \/ UNCHANGED ctlVars) /\ UNCHANGED owed
    BY <1>5 DEF runAction, implVars
  <2>2. Requested(running) => Disconnecting
    BY <1>0, RequestsDisconnect DEF Requested
  <2> QED BY <1>1, <2>1, <2>2, OwedGoesOn
<1>6. CASE implInitializes \/ implHandshakes \/ handshakeTimesOut \/ confirmingTimesOut
  <2>1. /\ \/ handshakeTimeout \/ confirmingTimeout \/ UNCHANGED ctlVars
           \/ \E k : connected(k)
           \/ \E st, c : implInitialized(st, c)
        /\ UNCHANGED owed
    BY <1>6 DEF implInitializes, implHandshakes, handshakeTimesOut, confirmingTimesOut, implVars
  <2> QED BY <1>0, <1>1, <2>1, EventsDisconnect, OwedGoesOn
<1>7. CASE implDisconnects
  <2>1. disconnected
    BY <1>7 DEF implDisconnects
  <2>2. state' # "Disconnecting" /\ NothingReconnects'
    BY <1>0, <2>1 DEF disconnected, SetState, NothingReconnects
  <2> QED BY <2>2 DEF OwedInv, DisconnectOwed, NoAttemptMeanwhile
<1>8. CASE implCalled
  <2>1. CASE disconnected
    <3>1. state' # "Disconnecting" /\ NothingReconnects'
      BY <1>0, <2>1 DEF disconnected, SetState, NothingReconnects
    <3> QED BY <3>1 DEF OwedInv, DisconnectOwed, NoAttemptMeanwhile
  <2>2. CASE implReturn /\ call = CallDeactivate /\ owed' = TRUE
    BY <2>2 DEF implReturn, attempt, OwedInv, DisconnectOwed, NoAttemptMeanwhile, NothingReconnects
  <2>3. CASE implReturn /\ call # CallDeactivate /\ UNCHANGED owed
    BY <2>3 DEF implReturn, attempt, OwedInv, DisconnectOwed, NoAttemptMeanwhile, NothingReconnects
  <2>4. CallInitialize # CallDeactivate /\ (call.op = "activate" => call # CallDeactivate)
    BY DEF CallInitialize, CallDeactivate
  <2> QED BY <1>8, <2>1, <2>2, <2>3, <2>4 DEF implCalled, implVars
<1> QED BY <1>2, <1>3, <1>4, <1>5, <1>6, <1>7, <1>8 DEF AppNext, Requests, Synchronous

-----------------------------------------------------------------------------
(* The invariant of the client, and what follows from it.                  *)

\* The inductive invariant.
AppInv ==
  /\ CtlInv
  /\ QueueInv
  /\ StartupFirst
  /\ PeersTyped
  /\ OwedInv

\* The client starts with nothing under way.
LEMMA AppInvInit == AppInit => AppInv
<1> SUFFICES ASSUME AppInit PROVE AppInv
  OBVIOUS
<1>1. CtlInv
  BY InitInv DEF AppInit
<1>2. QueueInv /\ StartupFirst /\ PeersTyped
  BY DEF AppInit, QueueInv, StartupFirst, PeersTyped, TaskIsTimed, TimerHasTask
<1>3. OwedInv
  BY DEF AppInit, Init, OwedInv, DisconnectOwed, NoAttemptMeanwhile, NothingReconnects
<1> QED BY <1>1, <1>2, <1>3 DEF AppInv

\* The backend tries and keeps only peers it was called with.
LEMMA PeersKeep ==
  ASSUME CtlInv, PeersTyped, AppNext
  PROVE  PeersTyped'
<1>1. CASE implCalled
  <2>1. call.key \in Keys \cup {NoKey}
    BY RestFromInv DEF Call
  <2> QED BY <1>1, <2>1 DEF implCalled, implVars, PeersTyped
<1>2. CASE implHandshakes \/ implDisconnects
  BY <1>2 DEF implHandshakes, implDisconnects, PeersTyped
<1>3. CASE UNCHANGED <<trying, tunnel>>
  BY <1>3 DEF PeersTyped
<1>4. implCalled \/ implHandshakes \/ implDisconnects \/ UNCHANGED <<trying, tunnel>>
  BY DEF AppNext, Requests, Synchronous, appInitialize, activateRequested, deactivateRequested,
     extensionActivates, extensionDeactivates, hardResetAndQuit, quitRequested, profilesThere,
     profilesGone, silentSwitch, runActivation, runReset, runQuit, runDeleteOSTunnelConfig,
     runAction, stateChanged, taskTimeout, handshakeTimesOut, confirmingTimesOut,
     implInitializes, Request, implVars
<1> QED BY <1>1, <1>2, <1>3, <1>4

\* Every step of the client keeps the inductive invariant.
LEMMA AppInvNext == AppInv /\ [AppNext]_allVars => AppInv'
<1> SUFFICES ASSUME AppInv, [AppNext]_allVars PROVE AppInv'
  OBVIOUS
<1>1. CASE AppNext
  BY <1>1, ControllerStep, QueueKeeps, StartupKeeps, PeersKeep, OwedKeeps DEF AppInv
<1>2. CASE UNCHANGED allVars
  <2>1. CtlInv'
    BY <1>2, NextInv DEF AppInv, allVars, moving
  <2>2. QueueInv' /\ PeersTyped'
    BY <1>2, QueueAlone DEF AppInv, PeersTyped, allVars, moving, appVars, queueVars, implVars
  <2>3. StartupFirst'
    BY <1>2 DEF AppInv, StartupFirst, allVars, moving, appVars, queueVars, ctlVars
  <2>4. OwedInv'
    BY <1>2 DEF AppInv, OwedInv, DisconnectOwed, NoAttemptMeanwhile, NothingReconnects,
       allVars, moving, ctlVars, attempt, implVars
  <2> QED BY <2>1, <2>2, <2>3, <2>4 DEF AppInv
<1> QED BY <1>1, <1>2

(***************************************************************************)
(* However the client is used, a task that was taken from the queue is     *)
(* about to be run or has the timer that ends it: the queue never stands   *)
(* still behind it (TaskControllerAction).                                 *)
(***************************************************************************)
THEOREM TasksAreTimed == AppSpec => []TaskIsTimed
<1>1. AppInv => TaskIsTimed
  BY DEF AppInv, QueueInv
<1> QED BY <1>1, AppInvInit, AppInvNext, PTL DEF AppSpec

(***************************************************************************)
(* The controller keeps its own promises under the queue and any number of *)
(* users: attempts end, waits are timed, and what is shown is true.        *)
(***************************************************************************)
THEOREM ControllerKeepsPromises ==
  AppSpec => [](TypeOK /\ TimerHasHop /\ WaitIsTimed /\ ShownIsTrue)
<1>1. AppInv => TypeOK /\ TimerHasHop /\ WaitIsTimed /\ ShownIsTrue
  BY DEF AppInv, CtlInv, ShownIsTrue
<1> QED BY <1>1, AppInvInit, AppInvNext, PTL DEF AppSpec

(***************************************************************************)
(* With any backend that keeps the contract of ControllerImpl, a client    *)
(* that is disconnecting has an answer to come (controller.cpp's           *)
(* deactivate and disconnected).                                           *)
(***************************************************************************)
THEOREM DisconnectionIsOwed == AppSpec => []DisconnectOwed
<1>1. AppInv => DisconnectOwed
  BY DEF AppInv, OwedInv
<1> QED BY <1>1, AppInvInit, AppInvNext, PTL DEF AppSpec

(***************************************************************************)
(* The way from the browser's extension.  A socket holds pieces of         *)
(* messages; what keeps the readers from taking one for another is that    *)
(* each piece follows the one before it, that the first follows what the   *)
(* reader has taken, and that whoever writes finds the last message whole. *)
(***************************************************************************)

PieceOf(M) == [of : M, at : 1 .. 3]

\* What the client writes to the bridge.
Answers == Statuses \cup {[t |-> "error"]}

\* The readers that hold nothing, the first piece of a length, and a length.
HalfReader(m) == [buf |-> <<[of |-> m, at |-> 1]>>, body |-> FALSE, garbled |-> FALSE]
BodyReader == [buf |-> <<>>, body |-> TRUE, garbled |-> FALSE]
IsReader(M, r) == r = NoReader \/ r = BodyReader \/ \E m \in M : r = HalfReader(m)

\* The piece p follows the piece o.
Follows(o, p) ==
  \/ o.at = 1 /\ p.at = 2 /\ p.of = o.of
  \/ o.at = 2 /\ p.at = 3
  \/ o.at = 3 /\ p.at = 1

\* The first piece of the socket is the one that the reader needs.
Needs(r, p) ==
  /\ r = NoReader => p.at = 1
  /\ r = BodyReader => p.at = 3
  /\ r # NoReader /\ r # BodyReader => p.at = 2 /\ r = HalfReader(p.of)

Framed(M, r, s) ==
  /\ IsReader(M, r)
  /\ s \in Seq(PieceOf(M))
  /\ \A k \in 1 .. Len(s) - 1 : Follows(s[k], s[k + 1])
  /\ s # <<>> => Needs(r, s[1])

\* The last message was written to its end.
Whole(r, s) == IF s = <<>> THEN r = NoReader ELSE s[Len(s)].at = 3

\* The three readers differ.
LEMMA ReadersDiffer ==
  /\ NoReader # BodyReader
  /\ \A m : HalfReader(m) # NoReader /\ HalfReader(m) # BodyReader
<1>1. NoReader.body # BodyReader.body
  BY Zenon DEF NoReader, BodyReader
<1>2. ASSUME NEW m PROVE HalfReader(m) # NoReader /\ HalfReader(m) # BodyReader
  <2>1. HalfReader(m).buf # <<>> /\ NoReader.buf = <<>> /\ BodyReader.buf = <<>>
    BY DEF HalfReader, NoReader, BodyReader
  <2> QED BY <2>1
<1> QED BY <1>1, <1>2

\* A reader with other contents.
LEMMA ReaderBecomes ==
  ASSUME NEW buf0, NEW body0, NEW garbled0, NEW r, r = [buf |-> buf0, body |-> body0, garbled |-> garbled0],
         NEW buf1
  PROVE  [r EXCEPT !.buf = buf1] = [buf |-> buf1, body |-> body0, garbled |-> garbled0]
OBVIOUS

\* What a reader does with the piece it needs.
LEMMA FirstPiece ==
  ASSUME NEW M, NEW p \in PieceOf(M), p.at = 1
  PROVE  readyRead(NoReader, p) = [reader |-> HalfReader(p.of), got |-> <<>>]
<1>1. p = [of |-> p.of, at |-> 1]
  BY DEF PieceOf
<1>2. PICK s : s = [NoReader EXCEPT !.buf = Append(NoReader.buf, p)]
  OBVIOUS
<1>3. Append(NoReader.buf, p) = <<p>>
  BY DEF NoReader
<1>4. s = [buf |-> <<p>>, body |-> FALSE, garbled |-> FALSE]
  BY <1>2, <1>3, ReaderBecomes DEF NoReader
<1>5. s = HalfReader(p.of)
  BY <1>1, <1>4 DEF HalfReader
<1>6. s.body = FALSE /\ Len(s.buf) < 2
  BY <1>4
<1>7. readyRead(NoReader, p) = Holding(s)
  BY <1>2, <1>6 DEF readyRead
<1> QED BY <1>5, <1>7 DEF Holding

LEMMA SecondPiece ==
  ASSUME NEW M, NEW p \in PieceOf(M), p.at = 2
  PROVE  readyRead(HalfReader(p.of), p) = [reader |-> BodyReader, got |-> <<>>]
<1>1. PICK o : o = [of |-> p.of, at |-> 1]
  OBVIOUS
<1>2. PICK b : b = Append(<<o>>, p)
  OBVIOUS
<1>3. Len(b) = 2 /\ b[1] = o /\ b[2] = p
  BY <1>2
<1>4. PICK r : r = HalfReader(p.of)
  OBVIOUS
<1>5. r = [buf |-> <<o>>, body |-> FALSE, garbled |-> FALSE] /\ r.buf = <<o>>
  BY <1>1, <1>4 DEF HalfReader
<1>6. PICK s : s = [r EXCEPT !.buf = Append(r.buf, p)]
  OBVIOUS
<1>7. s = [buf |-> b, body |-> FALSE, garbled |-> FALSE]
  <2>1. s = [r EXCEPT !.buf = b]
    BY <1>2, <1>5, <1>6
  <2> QED BY <1>5, <2>1, ReaderBecomes
<1>8. /\ s.body = FALSE /\ s.garbled = FALSE /\ Len(s.buf) = 2
      /\ s.buf[1].at = 1 /\ s.buf[2].at = 2 /\ s.buf[1].of = s.buf[2].of
  BY <1>1, <1>3, <1>7
<1>11. readyRead(r, p) = Length(s)
  BY <1>6, <1>8 DEF readyRead
<1>12. Length(s) = Holding(BodyReader)
  BY <1>8 DEF Length, BodyReader
<1> QED BY <1>4, <1>11, <1>12 DEF Holding

LEMMA ThirdPiece ==
  ASSUME NEW M, NEW p \in PieceOf(M), p.at = 3
  PROVE  readyRead(BodyReader, p) = [reader |-> NoReader, got |-> <<p.of>>]
<1>1. PICK s : s = [BodyReader EXCEPT !.buf = Append(BodyReader.buf, p)]
  OBVIOUS
<1>2. s = [buf |-> <<p>>, body |-> TRUE, garbled |-> FALSE]
  <2>1. Append(BodyReader.buf, p) = <<p>>
    BY DEF BodyReader
  <2> QED BY <1>1, <2>1, ReaderBecomes DEF BodyReader
<1>3. s.body = TRUE /\ s.garbled = FALSE /\ s.buf[1] = p
  BY <1>2
<1>6. readyRead(BodyReader, p) = Body(s)
  BY <1>1, <1>3 DEF readyRead
<1>7. Body(s) = [reader |-> NoReader, got |-> <<s.buf[1].of>>]
  BY <1>3 DEF Body, NoReader
<1> QED BY <1>3, <1>6, <1>7

\* A reader that gets the piece it needs keeps the socket framed, and gives away
\* the message whose last piece it was.
LEMMA ReadFrames ==
  ASSUME NEW M, NEW r, NEW s, Framed(M, r, s), s # <<>>, NEW x, x = readyRead(r, Head(s))
  PROVE  /\ Framed(M, x.reader, Tail(s)) /\ (Whole(r, s) => Whole(x.reader, Tail(s)))
         /\ Len(Tail(s)) = Len(s) - 1
         /\ IF Head(s).at = 3 THEN x.got = <<Head(s).of>> ELSE x.got = <<>>
<1>1. /\ s \in Seq(PieceOf(M)) /\ Len(s) \in Nat /\ Len(s) >= 1 /\ Head(s) = s[1]
      /\ s[1] \in PieceOf(M)
  BY DEF Framed
<1>2. PICK p : p = s[1]
  OBVIOUS
<1>3. p \in PieceOf(M) /\ p.of \in M /\ p.at \in 1 .. 3 /\ Head(s) = p
  BY <1>1, <1>2 DEF PieceOf
<1>4. PICK y : y = x.reader
  OBVIOUS
<1>5. /\ IsReader(M, y)
      /\ p.at = 1 => y = HalfReader(p.of) /\ x.got = <<>>
      /\ p.at = 2 => y = BodyReader /\ x.got = <<>>
      /\ p.at = 3 => y = NoReader /\ x.got = <<p.of>>
  <2>1. Needs(r, p)
    BY <1>2 DEF Framed
  <2>2. CASE r = NoReader
    <3>1. p.at = 1 /\ x = [reader |-> HalfReader(p.of), got |-> <<>>]
      BY <1>3, <2>1, <2>2, FirstPiece DEF Needs
    <3> QED BY <1>3, <1>4, <3>1 DEF IsReader
  <2>3. CASE r = BodyReader
    <3>1. p.at = 3 /\ x = [reader |-> NoReader, got |-> <<p.of>>]
      BY <1>3, <2>1, <2>3, ThirdPiece DEF Needs
    <3> QED BY <1>3, <1>4, <3>1 DEF IsReader
  <2>4. CASE r # NoReader /\ r # BodyReader
    <3>1. p.at = 2 /\ r = HalfReader(p.of)
      BY <2>1, <2>4 DEF Needs
    <3>2. x = [reader |-> BodyReader, got |-> <<>>]
      BY <1>3, <3>1, SecondPiece
    <3> QED BY <1>3, <1>4, <3>1, <3>2 DEF IsReader
  <2> QED BY <2>2, <2>3, <2>4
<1>6. PICK t : t = Tail(s)
  OBVIOUS
<1>7. t \in Seq(PieceOf(M)) /\ Len(t) = Len(s) - 1 /\ \A k \in 1 .. Len(t) : t[k] = s[k + 1]
  BY <1>1, <1>6
<1>8. \A k \in 1 .. Len(t) - 1 : Follows(t[k], t[k + 1])
  <2> SUFFICES ASSUME NEW k \in 1 .. Len(t) - 1 PROVE Follows(t[k], t[k + 1])
    OBVIOUS
  <2>1. k + 1 \in 1 .. Len(s) - 1 /\ k \in 1 .. Len(t) /\ k + 1 \in 1 .. Len(t)
    BY <1>1, <1>7
  <2>2. Follows(s[k + 1], s[(k + 1) + 1])
    BY <2>1 DEF Framed
  <2> QED BY <1>7, <2>1, <2>2
<1>9. ASSUME t # <<>> PROVE Needs(y, t[1])
  <2>1. Len(t) >= 1 /\ 1 \in 1 .. Len(t) /\ 1 \in 1 .. Len(s) - 1
    BY <1>1, <1>7, <1>9
  <2>2. Follows(p, t[1])
    <3>1. Follows(s[1], s[1 + 1])
      BY <2>1 DEF Framed
    <3> QED BY <1>2, <1>7, <2>1, <3>1
  <2>3. CASE p.at = 1
    BY <1>5, <2>2, <2>3, ReadersDiffer DEF Follows, Needs
  <2>4. CASE p.at = 2
    BY <1>5, <2>2, <2>4, ReadersDiffer DEF Follows, Needs
  <2>5. CASE p.at = 3
    BY <1>5, <2>2, <2>5, ReadersDiffer DEF Follows, Needs
  <2> QED BY <1>3, <2>3, <2>4, <2>5
<1>10. ASSUME Whole(r, s) PROVE Whole(y, t)
  <2>1. s[Len(s)].at = 3
    BY <1>10 DEF Whole
  <2>2. CASE t = <<>>
    <3>1. Len(s) = 1
      BY <1>1, <1>7, <2>2
    <3>2. p.at = 3
      BY <1>2, <2>1, <3>1
    <3> QED BY <1>5, <2>2, <3>2 DEF Whole
  <2>3. CASE t # <<>>
    <3>1. Len(t) \in 1 .. Len(t) /\ Len(t) + 1 = Len(s)
      BY <1>1, <1>7, <2>3
    <3>2. t[Len(t)] = s[Len(s)]
      BY <1>7, <3>1
    <3> QED BY <2>1, <2>3, <3>2 DEF Whole
  <2> QED BY <2>2, <2>3
<1>11. Framed(M, y, t)
  BY <1>5, <1>7, <1>8, <1>9 DEF Framed
<1>12. IF p.at = 3 THEN x.got = <<p.of>> ELSE x.got = <<>>
  BY <1>3, <1>5
<1> QED BY <1>3, <1>4, <1>6, <1>7, <1>10, <1>11, <1>12

\* A message is written behind whole ones.
LEMMA WriteFrames ==
  ASSUME NEW M, NEW r, NEW s, Framed(M, r, s), Whole(r, s), NEW m \in M,
         NEW t, t = s \o Pieces(m)
  PROVE  /\ Framed(M, r, t) /\ Whole(r, t) /\ Len(t) = Len(s) + 3
         /\ \A k \in 1 .. Len(s) : t[k] = s[k]
         /\ \A i \in 1 .. 3 : t[Len(s) + i] = [of |-> m, at |-> i]
<1>1. s \in Seq(PieceOf(M)) /\ Len(s) \in Nat
  BY DEF Framed
<1>2. PICK p : p = Pieces(m)
  OBVIOUS
<1>3. /\ p \in Seq(PieceOf(M)) /\ Len(p) = 3
      /\ \A i \in 1 .. 3 : p[i] = [of |-> m, at |-> i]
  <2>1. p = [i \in 1 .. 3 |-> [of |-> m, at |-> i]]
    BY <1>2 DEF Pieces
  <2>2. p \in [1 .. 3 -> PieceOf(M)]
    BY <2>1 DEF PieceOf
  <2> QED BY <2>1, <2>2
<1>4. /\ t \in Seq(PieceOf(M)) /\ Len(t) = Len(s) + Len(p)
      /\ \A k \in 1 .. Len(s) + Len(p) : t[k] = IF k <= Len(s) THEN s[k] ELSE p[k - Len(s)]
  BY <1>1, <1>2, <1>3, ConcatProperties
<1>5. Len(t) = Len(s) + 3 /\ \A k \in 1 .. Len(s) : t[k] = s[k]
  BY <1>1, <1>3, <1>4
<1>6. ASSUME NEW i \in 1 .. 3 PROVE t[Len(s) + i] = [of |-> m, at |-> i]
  <2>1. Len(s) + i \in 1 .. Len(s) + Len(p) /\ ~(Len(s) + i <= Len(s)) /\ (Len(s) + i) - Len(s) = i
    BY <1>1, <1>3
  <2> QED BY <1>3, <1>4, <2>1
<1>7. t[Len(s) + 1].at = 1 /\ t[Len(s) + 2].at = 2 /\ t[Len(s) + 3].at = 3 /\ t[Len(s) + 2].of = t[Len(s) + 1].of
  <2>1. 1 \in 1 .. 3 /\ 2 \in 1 .. 3 /\ 3 \in 1 .. 3
    OBVIOUS
  <2>2. /\ t[Len(s) + 1] = [of |-> m, at |-> 1] /\ t[Len(s) + 2] = [of |-> m, at |-> 2]
        /\ t[Len(s) + 3] = [of |-> m, at |-> 3]
    BY <1>6, <2>1, Zenon
  <2> QED BY <2>2
<1>8. ASSUME NEW k \in 1 .. Len(t) - 1 PROVE Follows(t[k], t[k + 1])
  <2>0. k \in 1 .. Len(s) + 2
    BY <1>1, <1>5
  <2>1. CASE k < Len(s)
    <3>1. k \in 1 .. Len(s) - 1 /\ k \in 1 .. Len(s) /\ k + 1 \in 1 .. Len(s)
      BY <1>1, <2>0, <2>1
    <3> QED BY <1>5, <3>1 DEF Framed
  <2>2. CASE k = Len(s)
    <3>1. s # <<>> /\ k \in 1 .. Len(s)
      BY <1>1, <2>0, <2>2
    <3>2. t[k].at = 3 /\ t[k + 1].at = 1
      BY <1>5, <1>7, <2>2, <3>1 DEF Whole
    <3> QED BY <3>2 DEF Follows
  <2>3. CASE k = Len(s) + 1
    <3>1. k + 1 = Len(s) + 2
      BY <1>1, <2>3
    <3> QED BY <1>7, <2>3, <3>1 DEF Follows
  <2>4. CASE k = Len(s) + 2
    <3>1. k + 1 = Len(s) + 3
      BY <1>1, <2>4
    <3> QED BY <1>7, <2>4, <3>1 DEF Follows
  <2> QED BY <1>1, <2>0, <2>1, <2>2, <2>3, <2>4
<1>9. t # <<>> /\ Needs(r, t[1])
  <2>1. t # <<>>
    BY <1>1, <1>4, <1>5
  <2>2. CASE s = <<>>
    <3>1. r = NoReader /\ Len(s) + 1 = 1
      BY <2>2 DEF Whole
    <3>2. t[1].at = 1
      BY <1>7, <3>1
    <3> QED BY <2>1, <3>1, <3>2, ReadersDiffer DEF Needs
  <2>3. CASE s # <<>>
    <3>1. 1 \in 1 .. Len(s)
      BY <1>1, <2>3
    <3> QED BY <1>5, <2>1, <2>3, <3>1 DEF Framed
  <2> QED BY <2>2, <2>3
<1>10. IsReader(M, r)
  BY DEF Framed
<1>11. Framed(M, r, t)
  BY <1>4, <1>8, <1>9, <1>10 DEF Framed
<1>12. Whole(r, t)
  BY <1>5, <1>7, <1>9 DEF Whole
<1> QED BY <1>5, <1>6, <1>11, <1>12

LEMMA WriteLength ==
  ASSUME NEW M, NEW r, NEW s, Framed(M, r, s), Whole(r, s), NEW m \in M,
         NEW t, t = s \o Pieces(m)
  PROVE  Len(t) = Len(s) + 3
<1>1. /\ Len(t) = Len(s) + 3 /\ \A k \in 1 .. Len(s) : t[k] = s[k]
      /\ \A i \in 1 .. 3 : t[Len(s) + i] = [of |-> m, at |-> i]
  BY WriteFrames
<1> QED BY <1>1

\* A socket that was cut off is framed.
LEMMA CutFrames ==
  ASSUME NEW M, NEW r, NEW s, Framed(M, r, s), NEW n \in 0 .. Len(s)
  PROVE  Framed(M, r, SubSeq(s, 1, n)) /\ Len(SubSeq(s, 1, n)) = n
<1>1. s \in Seq(PieceOf(M)) /\ Len(s) \in Nat /\ IsReader(M, r)
  BY DEF Framed
<1>2. PICK t : t = SubSeq(s, 1, n)
  OBVIOUS
<1>3. t \in Seq(PieceOf(M)) /\ Len(t) = n /\ \A k \in 1 .. n : t[k] = s[k]
  BY <1>1, <1>2
<1>4. ASSUME NEW k \in 1 .. Len(t) - 1 PROVE Follows(t[k], t[k + 1])
  <2>1. k \in 1 .. Len(s) - 1 /\ k \in 1 .. n /\ k + 1 \in 1 .. n
    BY <1>1, <1>3
  <2> QED BY <1>3, <2>1 DEF Framed
<1>5. ASSUME t # <<>> PROVE Needs(r, t[1])
  <2>1. 1 \in 1 .. n
    BY <1>3, <1>5
  <2>2. s # <<>>
    BY <1>1, <2>1
  <2> QED BY <1>3, <2>1, <2>2 DEF Framed
<1>6. Framed(M, r, t)
  BY <1>1, <1>3, <1>4, <1>5 DEF Framed
<1> QED BY <1>2, <1>3, <1>6

\* An empty socket is framed for a reader that holds nothing, and whole.
LEMMA EmptyFrames ==
  ASSUME NEW M
  PROVE  Framed(M, NoReader, <<>>) /\ Whole(NoReader, <<>>) /\ Len(<<>>) = 0
<1>1. <<>> \in Seq(PieceOf(M)) /\ Len(<<>>) = 0
  OBVIOUS
<1>2. \A k \in 1 .. 0 - 1 : FALSE
  OBVIOUS
<1> QED BY <1>1, <1>2 DEF Framed, IsReader, Whole

\* The last piece of a status.
EndsStatus(p) == p.at = 3 /\ p.of.t = "status"

\* The last status under way is the client's state; when none is, the one seen is.
NewsIsLast(s, shown, st) ==
  /\ (\A k \in 1 .. Len(s) : ~EndsStatus(s[k])) => shown \in {-1, st}
  /\ \A k \in 1 .. Len(s) :
       EndsStatus(s[k]) /\ (\A j \in k + 1 .. Len(s) : ~EndsStatus(s[j])) => s[k].of.v = st

\* The socket's two ends and what the extension knows of them.
EndsFit ==
  /\ bridge.on <=> client.end # "none"
  /\ client.end # "open" => client.reader = NoReader
  /\ client.end \in {"none", "pending"} =>
       toBridge = <<>> /\ bridge.reader = NoReader /\ browser.seen = -1
  /\ client.end = "none" => toClient = <<>>
  /\ UpIsUp

SocketsFit ==
  /\ Framed(ExtRequests, client.reader, toClient) /\ Whole(client.reader, toClient)
  /\ Framed(Answers, bridge.reader, toBridge)
  /\ client.end # "closed" => Whole(bridge.reader, toBridge)
  /\ Len(toClient) <= 3 * MaxMessages /\ Len(toBridge) <= 3 * MaxMessages

ExtTypes ==
  /\ DOMAIN bridge = {"on", "reader"} /\ bridge.on \in BOOLEAN
  /\ DOMAIN client = {"runs", "state", "end", "reader"}
  /\ client.runs \in BOOLEAN /\ client.state \in 0 .. StateTurn - 1
  /\ client.end \in {"none", "pending", "open", "closed"}
  /\ DOMAIN browser = {"told", "waits", "seen"}
  /\ browser.told \in {"vpn-client-up", "vpn-client-down"}
  /\ browser.waits \in BOOLEAN /\ browser.seen \in (0 .. StateTurn - 1) \cup {-1}

NewsFits(t, c, b) == c.end = "open" => NewsIsLast(t, b.seen, c.state)

\* The invariant of the way from the browser.
ExtInv == ExtTypes /\ EndsFit /\ SocketsFit /\ NewsFits(toBridge, client, browser)

\* Reading a status makes it the one seen; other pieces change nothing.
LEMMA NewsRead ==
  ASSUME NEW s \in Seq(PieceOf(Answers)), s # <<>>, NEW shown, NEW st, NewsIsLast(s, shown, st),
         NEW shown1, shown1 = IF EndsStatus(Head(s)) THEN Head(s).of.v ELSE shown
  PROVE  NewsIsLast(Tail(s), shown1, st)
<1>1. PICK t : t = Tail(s)
  OBVIOUS
<1>2. Len(s) \in Nat /\ Len(s) >= 1 /\ Len(t) = Len(s) - 1 /\ Head(s) = s[1] /\ \A k \in 1 .. Len(t) : t[k] = s[k + 1]
  BY <1>1
<1>3. ASSUME NEW k \in 1 .. Len(t), EndsStatus(t[k]), \A j \in k + 1 .. Len(t) : ~EndsStatus(t[j])
      PROVE  t[k].of.v = st
  <2>1. k + 1 \in 1 .. Len(s) /\ t[k] = s[k + 1]
    BY <1>2
  <2>2. ASSUME NEW j \in (k + 1) + 1 .. Len(s) PROVE ~EndsStatus(s[j])
    <3>1. j - 1 \in k + 1 .. Len(t) /\ j - 1 \in 1 .. Len(t) /\ (j - 1) + 1 = j
      BY <1>2, <2>1
    <3>2. t[j - 1] = s[(j - 1) + 1]
      BY <1>2, <3>1
    <3> QED BY <1>3, <3>1, <3>2
  <2> QED BY <1>3, <2>1, <2>2 DEF NewsIsLast
<1>4. ASSUME \A k \in 1 .. Len(t) : ~EndsStatus(t[k]) PROVE shown1 \in {-1, st}
  <2>1. ASSUME NEW j \in 2 .. Len(s) PROVE ~EndsStatus(s[j])
    <3>1. j - 1 \in 1 .. Len(t) /\ (j - 1) + 1 = j
      BY <1>2
    <3>2. t[j - 1] = s[(j - 1) + 1]
      BY <1>2, <3>1
    <3> QED BY <1>4, <3>1, <3>2
  <2>2. CASE EndsStatus(s[1])
    <3>1. 1 \in 1 .. Len(s) /\ \A j \in 1 + 1 .. Len(s) : ~EndsStatus(s[j])
      BY <1>2, <2>1
    <3>2. s[1].of.v = st
      BY <2>2, <3>1 DEF NewsIsLast
    <3> QED BY <1>2, <2>2, <3>2
  <2>3. CASE ~EndsStatus(s[1])
    <3>1. \A j \in 1 .. Len(s) : ~EndsStatus(s[j])
      BY <1>2, <2>1, <2>3
    <3>2. shown \in {-1, st}
      BY <3>1 DEF NewsIsLast
    <3> QED BY <1>2, <2>3, <3>2
  <2> QED BY <2>2, <2>3
<1>5. NewsIsLast(t, shown1, st)
  BY <1>3, <1>4 DEF NewsIsLast
<1> QED BY <1>1, <1>5

\* A message behind the others is the last news when it is a status, and none
\* when it is not.
LEMMA NewsWritten ==
  ASSUME NEW s, NEW r, Framed(Answers, r, s), Whole(r, s), NEW m \in Answers, NEW t, t = s \o Pieces(m),
         NEW shown, NEW st, NEW st1,
         m.t = "status" => m.v = st1,
         m.t # "status" => st1 = st /\ NewsIsLast(s, shown, st)
  PROVE  NewsIsLast(t, shown, st1)
<1>1. /\ Len(t) = Len(s) + 3 /\ \A k \in 1 .. Len(s) : t[k] = s[k]
      /\ \A i \in 1 .. 3 : t[Len(s) + i] = [of |-> m, at |-> i]
  BY WriteFrames
<1>2. Len(s) \in Nat
  BY DEF Framed
<1>3. /\ t[Len(s) + 1] = [of |-> m, at |-> 1] /\ t[Len(s) + 2] = [of |-> m, at |-> 2]
      /\ t[Len(s) + 3] = [of |-> m, at |-> 3]
  <2>1. 1 \in 1 .. 3 /\ 2 \in 1 .. 3 /\ 3 \in 1 .. 3
    OBVIOUS
  <2> QED BY <1>1, <2>1, Zenon
<1>4. ~EndsStatus(t[Len(s) + 1]) /\ ~EndsStatus(t[Len(s) + 2]) /\ (EndsStatus(t[Len(s) + 3]) <=> m.t = "status")
  BY <1>3 DEF EndsStatus
<1>5. \A k \in 1 .. Len(t) : k \in 1 .. Len(s) \/ k = Len(s) + 1 \/ k = Len(s) + 2 \/ k = Len(s) + 3
  BY <1>1, <1>2
<1>6. Len(s) + 3 \in 1 .. Len(t)
  BY <1>1, <1>2
<1>7. CASE m.t = "status"
  <2>1. ASSUME NEW k \in 1 .. Len(t), EndsStatus(t[k]), \A j \in k + 1 .. Len(t) : ~EndsStatus(t[j])
        PROVE  t[k].of.v = st1
    <3>1. k = Len(s) + 3
      <4>1. ASSUME k # Len(s) + 3 PROVE Len(s) + 3 \in k + 1 .. Len(t)
        BY <1>1, <1>2, <4>1
      <4> QED BY <1>4, <1>7, <2>1, <4>1
    <3> QED BY <1>3, <1>7, <3>1
  <2>2. EndsStatus(t[Len(s) + 3])
    BY <1>4, <1>7
  <2> QED BY <1>6, <2>1, <2>2 DEF NewsIsLast
<1>8. CASE m.t # "status"
  <2>0. st1 = st /\ NewsIsLast(s, shown, st) /\ ~EndsStatus(t[Len(s) + 3])
    BY <1>4, <1>8
  <2>1. ASSUME NEW k \in 1 .. Len(t), EndsStatus(t[k]), \A j \in k + 1 .. Len(t) : ~EndsStatus(t[j])
        PROVE  t[k].of.v = st
    <3>1. k \in 1 .. Len(s)
      BY <1>4, <1>5, <2>0, <2>1
    <3>2. ASSUME NEW j \in k + 1 .. Len(s) PROVE ~EndsStatus(s[j])
      <4>1. j \in k + 1 .. Len(t) /\ j \in 1 .. Len(s)
        BY <1>1, <1>2, <3>1
      <4> QED BY <1>1, <2>1, <4>1
    <3> QED BY <1>1, <2>0, <2>1, <3>1, <3>2 DEF NewsIsLast
  <2>2. ASSUME \A k \in 1 .. Len(t) : ~EndsStatus(t[k]) PROVE shown \in {-1, st}
    <3>1. ASSUME NEW k \in 1 .. Len(s) PROVE ~EndsStatus(s[k])
      <4>1. k \in 1 .. Len(t)
        BY <1>1, <1>2
      <4> QED BY <1>1, <2>2, <4>1
    <3> QED BY <2>0, <3>1 DEF NewsIsLast
  <2> QED BY <2>0, <2>1, <2>2 DEF NewsIsLast
<1> QED BY <1>7, <1>8

\* A status that comes to the extension.
LEMMA AnswersAre ==
  ASSUME NEW m \in Answers
  PROVE  /\ m.t \in {"status", "error"}
         /\ m.t = "status" => m.v \in 0 .. StateTurn - 1
BY DEF Answers, Statuses

\* What the extension knows when an answer was given to it.
LEMMA ToldAnswer ==
  ASSUME ExtTypes, NEW m \in Answers, NEW b, b = Told(browser, <<m>>)
  PROVE  /\ DOMAIN b = {"told", "waits", "seen"}
         /\ b.told = browser.told /\ b.waits \in BOOLEAN /\ b.seen \in (0 .. StateTurn - 1) \cup {-1}
         /\ b.seen = IF m.t = "status" THEN m.v ELSE browser.seen
<1>1. m.t \in {"status", "error"} /\ (m.t = "status" => m.v \in 0 .. StateTurn - 1)
  BY AnswersAre
<1>2. <<m>> # <<>> /\ <<m>>[1] = m
  OBVIOUS
<1>3. CASE m.t = "status"
  <2>1. b = [browser EXCEPT !.waits = FALSE, !.seen = m.v]
    BY <1>2, <1>3 DEF Told
  <2>2. DOMAIN browser = {"told", "waits", "seen"}
    BY DEF ExtTypes
  <2>3. b.told = browser.told /\ b.waits = FALSE /\ b.seen = m.v
    BY <2>1, <2>2
  <2>4. DOMAIN b = {"told", "waits", "seen"}
    BY <2>1, <2>2
  <2> QED BY <1>1, <1>3, <2>3, <2>4
<1>4. CASE m.t = "error"
  <2>1. b = browser
    BY <1>2, <1>4 DEF Told
  <2> QED BY <1>4, <2>1 DEF ExtTypes
<1> QED BY <1>1, <1>3, <1>4

\* The extension asks.
LEMMA MessageHandled ==
  ASSUME ExtInv, NEW q \in ExtRequests, handleMessage(q)
  PROVE  ExtInv'
<1> USE DEF ExtInv
<1>0. bridge' = bridge /\ toBridge' = toBridge /\ client' = client
  BY DEF handleMessage
<1>1. CASE q = "bridge_ping" /\ UNCHANGED <<toClient, browser>>
  BY <1>0, <1>1 DEF ExtTypes, EndsFit, SocketsFit, NewsFits, UpIsUp
<1>2. CASE /\ bridge.on /\ Room(toClient) /\ toClient' = toClient \o Pieces(q)
           /\ browser' = [browser EXCEPT !.waits = @ \/ q = "status"]
  <2>1. PICK t : t = toClient \o Pieces(q)
    OBVIOUS
  <2>2. Framed(ExtRequests, client.reader, t) /\ Whole(client.reader, t) /\ Len(t) = Len(toClient) + 3
    <3>1. Framed(ExtRequests, client.reader, toClient) /\ Whole(client.reader, toClient)
      BY DEF SocketsFit
    <3>2. PICK r : r = client.reader
      OBVIOUS
    <3>3. PICK s : s = toClient
      OBVIOUS
    <3>4. Framed(ExtRequests, r, s) /\ Whole(r, s) /\ t = s \o Pieces(q)
      BY <2>1, <3>1, <3>2, <3>3
    <3>5. Framed(ExtRequests, r, t) /\ Whole(r, t) /\ Len(t) = Len(s) + 3
      <4>1. Framed(ExtRequests, r, t)
        BY <3>4, WriteFrames
      <4>2. Whole(r, t)
        BY <3>4, WriteFrames
      <4>3. Len(t) = Len(s) + 3
        BY <3>4, WriteLength
      <4> QED BY <4>1, <4>2, <4>3
    <3> QED BY <3>2, <3>3, <3>5
  <2>3. Len(t) <= 3 * MaxMessages
    <3>1. Len(toClient) \in Nat
      BY DEF SocketsFit, Framed
    <3> QED BY <1>2, <2>2, <3>1, ExtAssumption DEF Room
  <2>4. SocketsFit'
    BY <1>0, <1>2, <2>1, <2>2, <2>3 DEF SocketsFit
  <2>5. PICK w : w = (browser.waits \/ q = "status")
    OBVIOUS
  <2>6. w \in BOOLEAN
    BY <2>5, Zenon
  <2>7. browser' = [browser EXCEPT !.waits = w]
    BY <1>2, <2>5, Zenon
  <2>8. /\ DOMAIN browser' = {"told", "waits", "seen"} /\ browser'.told = browser.told
        /\ browser'.seen = browser.seen /\ browser'.waits = w
    BY <2>7 DEF ExtTypes
  <2>9. ExtTypes'
    BY <1>0, <2>6, <2>8 DEF ExtTypes
  <2>10. EndsFit' /\ NewsFits(toBridge, client, browser)'
    BY <1>0, <1>2, <2>8 DEF EndsFit, UpIsUp, NewsFits
  <2> QED BY <2>4, <2>9, <2>10
<1>3. CASE ~bridge.on /\ browser' = Told(browser, << [t |-> "vpn-client-down"] >>) /\ UNCHANGED toClient
  <2>1. browser' = [told |-> "vpn-client-down", waits |-> FALSE, seen |-> -1]
    BY <1>3 DEF Told
  <2>2. client.end = "none"
    BY <1>3 DEF EndsFit
  <2>3. ExtTypes'
    BY <1>0, <2>1 DEF ExtTypes
  <2>4. EndsFit'
    BY <1>0, <1>3, <2>1, <2>2 DEF EndsFit, UpIsUp
  <2>5. SocketsFit' /\ NewsFits(toBridge, client, browser)'
    BY <1>0, <1>3, <2>2 DEF SocketsFit, NewsFits
  <2> QED BY <2>3, <2>4, <2>5
<1> QED BY <1>1, <1>2, <1>3 DEF handleMessage

\* The bridge connects, and learns that it is no longer.
LEMMA ConnectionTried ==
  ASSUME ExtInv, retryConnection
  PROVE  ExtInv'
<1> USE DEF ExtInv
<1>1. /\ ~bridge.on /\ client.end = "none" /\ toClient' = toClient /\ toBridge' = toBridge
      /\ bridge' = [bridge EXCEPT !.on = TRUE] /\ client' = [client EXCEPT !.end = "pending"]
      /\ browser' = [browser EXCEPT !.told = "vpn-client-up"]
  BY DEF retryConnection, Told
<1>2. /\ DOMAIN bridge' = {"on", "reader"} /\ bridge'.on = TRUE /\ bridge'.reader = bridge.reader
      /\ DOMAIN client' = {"runs", "state", "end", "reader"} /\ client'.runs = client.runs
      /\ client'.state = client.state /\ client'.end = "pending" /\ client'.reader = client.reader
      /\ DOMAIN browser' = {"told", "waits", "seen"} /\ browser'.told = "vpn-client-up"
      /\ browser'.waits = browser.waits /\ browser'.seen = browser.seen
  BY <1>1 DEF ExtTypes
<1>3. ExtTypes'
  BY <1>2 DEF ExtTypes
<1>4. EndsFit'
  BY <1>1, <1>2 DEF EndsFit, UpIsUp
<1>5. SocketsFit' /\ NewsFits(toBridge, client, browser)'
  BY <1>1, <1>2 DEF SocketsFit, NewsFits
<1> QED BY <1>3, <1>4, <1>5

LEMMA DisconnectionSeen ==
  ASSUME ExtInv, bridgeDisconnected
  PROVE  ExtInv'
<1> USE DEF ExtInv
<1>1. /\ client.end = "closed" /\ toClient' = <<>> /\ toBridge' = <<>>
      /\ bridge' = [on |-> FALSE, reader |-> NoReader] /\ client' = [client EXCEPT !.end = "none"]
      /\ browser' = [told |-> "vpn-client-down", waits |-> FALSE, seen |-> -1]
  BY DEF bridgeDisconnected, Unconnected, Told
<1>2. /\ DOMAIN client' = {"runs", "state", "end", "reader"} /\ client'.runs = client.runs
      /\ client'.state = client.state /\ client'.end = "none" /\ client'.reader = client.reader
      /\ client.reader = NoReader
  BY <1>1 DEF ExtTypes, EndsFit
<1>3. ExtTypes'
  BY <1>1, <1>2 DEF ExtTypes
<1>4. EndsFit'
  BY <1>1, <1>2 DEF EndsFit, UpIsUp
<1>5. bridge'.reader = NoReader /\ client'.reader = NoReader
  BY <1>1, <1>2
<1>6. Len(<<>>) = 0 /\ 0 <= 3 * MaxMessages
  BY ExtAssumption
<1>7. SocketsFit'
  BY <1>1, <1>5, <1>6, EmptyFrames DEF SocketsFit
<1>8. NewsFits(toBridge, client, browser)'
  BY <1>2 DEF NewsFits
<1> QED BY <1>3, <1>4, <1>7, <1>8

\* The client takes or refuses the connection.
LEMMA ConnectionReceived ==
  ASSUME ExtInv, newConnectionReceived
  PROVE  ExtInv'
<1> USE DEF ExtInv
<1>1. /\ client.end = "pending" /\ UNCHANGED <<bridge, toClient, toBridge, browser>>
      /\ \/ client' = [client EXCEPT !.end = "open", !.reader = NoReader]
         \/ client' = [client EXCEPT !.end = "closed"]
  BY DEF newConnectionReceived
<1>2. /\ client.reader = NoReader /\ toBridge = <<>> /\ browser.seen = -1 /\ bridge.reader = NoReader
  BY <1>1 DEF EndsFit
<1>3. /\ DOMAIN client' = {"runs", "state", "end", "reader"} /\ client'.runs = client.runs
      /\ client'.state = client.state /\ client'.end \in {"open", "closed"} /\ client'.reader = NoReader
  BY <1>1, <1>2 DEF ExtTypes
<1>4. ExtTypes'
  BY <1>1, <1>3 DEF ExtTypes
<1>5. EndsFit'
  BY <1>1, <1>2, <1>3 DEF EndsFit, UpIsUp
<1>6. SocketsFit'
  BY <1>1, <1>2, <1>3 DEF SocketsFit
<1>7. NewsFits(toBridge, client, browser)'
  <2>1. NewsIsLast(<<>>, -1, client.state)
    <3>1. Len(<<>>) = 0 /\ \A k \in 1 .. 0 : FALSE
      OBVIOUS
    <3> QED BY <3>1 DEF NewsIsLast
  <2> QED BY <1>1, <1>2, <1>3, <2>1 DEF NewsFits
<1> QED BY <1>4, <1>5, <1>6, <1>7

\* A piece arrives at the bridge.
LEMMA BridgeRead ==
  ASSUME ExtInv, bridgeReads
  PROVE  ExtInv'
<1> USE DEF ExtInv
<1>1. PICK r : r = bridge.reader
  OBVIOUS
<1>2. PICK s : s = toBridge
  OBVIOUS
<1>3. PICK x : x = readyRead(r, Head(s))
  OBVIOUS
<1>4. /\ bridge.on /\ s # <<>> /\ toBridge' = Tail(s) /\ toClient' = toClient /\ client' = client
      /\ bridge' = [bridge EXCEPT !.reader = x.reader] /\ browser' = Told(browser, x.got)
  BY <1>1, <1>2, <1>3 DEF bridgeReads
<1>5. Framed(Answers, r, s)
  BY <1>1, <1>2 DEF SocketsFit
<1>6. /\ Framed(Answers, x.reader, Tail(s)) /\ (Whole(r, s) => Whole(x.reader, Tail(s)))
      /\ Len(Tail(s)) = Len(s) - 1
      /\ IF Head(s).at = 3 THEN x.got = <<Head(s).of>> ELSE x.got = <<>>
  BY <1>3, <1>4, <1>5, ReadFrames
<1>7. s \in Seq(PieceOf(Answers)) /\ Len(s) \in Nat /\ Head(s) \in PieceOf(Answers)
  BY <1>4, <1>5 DEF Framed
<1>8. DOMAIN bridge' = {"on", "reader"} /\ bridge'.on = bridge.on /\ bridge'.reader = x.reader
  BY <1>4 DEF ExtTypes
<1>9. client.end \in {"open", "closed"}
  BY <1>2, <1>4 DEF ExtTypes, EndsFit
<1>10. PICK b : b = browser'
  OBVIOUS
<1>11. /\ DOMAIN b = {"told", "waits", "seen"} /\ b.told = browser.told /\ b.waits \in BOOLEAN
       /\ b.seen \in (0 .. StateTurn - 1) \cup {-1}
       /\ b.seen = IF EndsStatus(Head(s)) THEN Head(s).of.v ELSE browser.seen
  <2>1. CASE Head(s).at = 3
    <3>1. PICK m : m = Head(s).of
      OBVIOUS
    <3>2. m \in Answers /\ b = Told(browser, <<m>>)
      BY <1>4, <1>6, <1>7, <1>10, <2>1, <3>1 DEF PieceOf
    <3>3. /\ DOMAIN b = {"told", "waits", "seen"} /\ b.told = browser.told /\ b.waits \in BOOLEAN
          /\ b.seen \in (0 .. StateTurn - 1) \cup {-1}
          /\ b.seen = IF m.t = "status" THEN m.v ELSE browser.seen
      BY <3>2, ToldAnswer
    <3> QED BY <2>1, <3>1, <3>3 DEF EndsStatus
  <2>2. CASE Head(s).at # 3
    <3>1. b = browser /\ ~EndsStatus(Head(s))
      BY <1>4, <1>6, <1>10, <2>2 DEF Told, EndsStatus
    <3> QED BY <3>1 DEF ExtTypes
  <2> QED BY <2>1, <2>2
<1>12. ExtTypes'
  BY <1>4, <1>8, <1>10, <1>11 DEF ExtTypes
<1>13. EndsFit'
  BY <1>4, <1>8, <1>9, <1>10, <1>11 DEF EndsFit, UpIsUp
<1>14. SocketsFit'
  <2>1. client.end # "closed" => Whole(x.reader, Tail(s))
    BY <1>1, <1>2, <1>6 DEF SocketsFit
  <2>2. Len(Tail(s)) <= 3 * MaxMessages
    BY <1>2, <1>6, <1>7, ExtAssumption DEF SocketsFit
  <2> QED BY <1>4, <1>6, <1>8, <2>1, <2>2 DEF SocketsFit
<1>15. NewsFits(toBridge, client, browser)'
  <2>1. ASSUME client.end = "open" PROVE NewsIsLast(Tail(s), b.seen, client.state)
    <3>1. PICK shown : shown = browser.seen
      OBVIOUS
    <3>2. PICK st : st = client.state
      OBVIOUS
    <3>3. PICK shown1 : shown1 = b.seen
      OBVIOUS
    <3>4. NewsIsLast(s, shown, st)
      BY <1>2, <2>1, <3>1, <3>2 DEF NewsFits
    <3>5. shown1 = IF EndsStatus(Head(s)) THEN Head(s).of.v ELSE shown
      BY <1>11, <3>1, <3>3
    <3>6. NewsIsLast(Tail(s), shown1, st)
      BY <1>4, <1>7, <3>4, <3>5, NewsRead
    <3> QED BY <3>2, <3>3, <3>6
  <2> QED BY <1>4, <1>10, <2>1 DEF NewsFits
<1> QED BY <1>12, <1>13, <1>14, <1>15

\* The client writes a message, in the state st1.
LEMMA ClientWrites ==
  ASSUME ExtInv, client.end = "open", Room(toBridge), NEW m \in Answers, NEW st1,
         NEW t, t = toBridge \o Pieces(m),
         m.t = "status" => m.v = st1,
         m.t # "status" => st1 = client.state
  PROVE  /\ Framed(Answers, bridge.reader, t) /\ Whole(bridge.reader, t)
         /\ Len(t) <= 3 * MaxMessages /\ NewsIsLast(t, browser.seen, st1)
<1> USE DEF ExtInv
<1>1. PICK r : r = bridge.reader
  OBVIOUS
<1>2. PICK s : s = toBridge
  OBVIOUS
<1>3. PICK shown : shown = browser.seen
  OBVIOUS
<1>4. PICK st : st = client.state
  OBVIOUS
<1>5. Framed(Answers, r, s) /\ Whole(r, s) /\ t = s \o Pieces(m)
  BY <1>1, <1>2 DEF SocketsFit
<1>6. NewsIsLast(s, shown, st)
  BY <1>2, <1>3, <1>4 DEF NewsFits
<1>7. Framed(Answers, r, t) /\ Whole(r, t) /\ Len(t) = Len(s) + 3
  <2>1. Framed(Answers, r, t)
    BY <1>5, WriteFrames
  <2>2. Whole(r, t)
    BY <1>5, WriteFrames
  <2>3. Len(t) = Len(s) + 3
    BY <1>5, WriteLength
  <2> QED BY <2>1, <2>2, <2>3
<1>8. m.t # "status" => st1 = st /\ NewsIsLast(s, shown, st)
  BY <1>4, <1>6
<1>9. NewsIsLast(t, shown, st1)
  BY <1>5, <1>8, NewsWritten
<1>10. Len(t) <= 3 * MaxMessages
  <2>1. Len(s) \in Nat
    BY <1>5 DEF Framed
  <2> QED BY <1>2, <1>7, <2>1, ExtAssumption DEF Room
<1> QED BY <1>1, <1>3, <1>7, <1>9, <1>10

\* A piece arrives at the client, which answers a complete message.
LEMMA ClientRead ==
  ASSUME ExtInv, clientReads
  PROVE  ExtInv'
<1> USE DEF ExtInv
<1>1. PICK r : r = client.reader
  OBVIOUS
<1>2. PICK s : s = toClient
  OBVIOUS
<1>3. PICK x : x = readyRead(r, Head(s))
  OBVIOUS
<1>4. /\ client.end = "open" /\ s # <<>> /\ Room(toBridge) /\ toClient' = Tail(s)
      /\ client' = [client EXCEPT !.reader = x.reader] /\ bridge' = bridge /\ browser' = browser
      /\ toBridge' = IF x.got = <<>> THEN toBridge ELSE toBridge \o Pieces(onMessage(x.got[1], client.state))
  BY <1>1, <1>2, <1>3 DEF clientReads
<1>5. Framed(ExtRequests, r, s) /\ Whole(r, s)
  BY <1>1, <1>2 DEF SocketsFit
<1>6. /\ Framed(ExtRequests, x.reader, Tail(s)) /\ Whole(x.reader, Tail(s)) /\ Len(Tail(s)) = Len(s) - 1
  BY <1>3, <1>4, <1>5, ReadFrames
<1>7. Len(s) \in Nat /\ Len(Tail(s)) <= 3 * MaxMessages
  <2>1. Len(s) \in Nat
    BY <1>5 DEF Framed
  <2> QED BY <1>2, <1>6, <2>1, ExtAssumption DEF SocketsFit
<1>8. /\ DOMAIN client' = {"runs", "state", "end", "reader"} /\ client'.runs = client.runs
      /\ client'.state = client.state /\ client'.end = "open" /\ client'.reader = x.reader
  BY <1>4 DEF ExtTypes
<1>9. PICK t : t = toBridge'
  OBVIOUS
<1>10. /\ Framed(Answers, bridge.reader, t) /\ Whole(bridge.reader, t)
       /\ Len(t) <= 3 * MaxMessages /\ NewsIsLast(t, browser.seen, client.state)
  <2>1. CASE x.got = <<>>
    BY <1>4, <1>9, <2>1 DEF SocketsFit, NewsFits
  <2>2. CASE x.got # <<>>
    <3>1. PICK m : m = onMessage(x.got[1], client.state)
      OBVIOUS
    <3>2. m \in Answers /\ (m.t = "status" => m.v = client.state)
      BY <3>1 DEF onMessage, Answers, Statuses, ExtTypes
    <3>3. t = toBridge \o Pieces(m)
      BY <1>4, <1>9, <2>2, <3>1
    <3>4. PICK st1 : st1 = client.state
      OBVIOUS
    <3>5. (m.t = "status" => m.v = st1) /\ (m.t # "status" => st1 = client.state)
      BY <3>2, <3>4
    <3>6. /\ Framed(Answers, bridge.reader, t) /\ Whole(bridge.reader, t)
          /\ Len(t) <= 3 * MaxMessages /\ NewsIsLast(t, browser.seen, st1)
      BY <1>4, <3>2, <3>3, <3>5, ClientWrites
    <3> QED BY <3>4, <3>6
  <2> QED BY <2>1, <2>2
<1>11. ExtTypes'
  BY <1>4, <1>8 DEF ExtTypes
<1>12. EndsFit'
  BY <1>4, <1>8 DEF EndsFit, UpIsUp
<1>13. SocketsFit'
  BY <1>4, <1>6, <1>7, <1>8, <1>9, <1>10 DEF SocketsFit
<1>14. NewsFits(toBridge, client, browser)'
  BY <1>4, <1>8, <1>9, <1>10 DEF NewsFits
<1> QED BY <1>11, <1>12, <1>13, <1>14

\* The client's state changes, or another connection asks for it.
LEMMA StateWritten ==
  ASSUME ExtInv, writeState
  PROVE  ExtInv'
<1> USE DEF ExtInv
<1>1. PICK st1 \in {client.state, (client.state + 1) % StateTurn} :
        client' = [client EXCEPT !.state = st1] /\ Broadcast(st1)
  BY DEF writeState
<1>2. Room(toBridge) /\ bridge' = bridge /\ toClient' = toClient /\ browser' = browser
  BY DEF writeState
<1>3. st1 \in 0 .. StateTurn - 1
  <2>1. client.state \in 0 .. StateTurn - 1 /\ StateTurn \in Nat /\ StateTurn > 1
    BY ExtAssumption DEF ExtTypes
  <2>2. (client.state + 1) % StateTurn \in 0 .. StateTurn - 1
    <3>1. client.state + 1 \in Nat /\ StateTurn \in Nat \ {0}
      BY <2>1
    <3> QED BY <3>1
  <2> QED BY <1>1, <2>1, <2>2
<1>4. /\ DOMAIN client' = {"runs", "state", "end", "reader"} /\ client'.runs = client.runs
      /\ client'.state = st1 /\ client'.end = client.end /\ client'.reader = client.reader
  BY <1>1 DEF ExtTypes
<1>5. PICK t : t = toBridge'
  OBVIOUS
<1>6. /\ Framed(Answers, bridge.reader, t) /\ (client.end # "closed" => Whole(bridge.reader, t))
      /\ Len(t) <= 3 * MaxMessages
      /\ client.end = "open" => NewsIsLast(t, browser.seen, st1)
      /\ client.end # "open" => t = toBridge
  <2>1. CASE client.end = "open"
    <3>1. PICK m : m = [t |-> "status", v |-> st1]
      OBVIOUS
    <3>2. m \in Answers /\ m.t = "status" /\ m.v = st1
      BY <1>3, <3>1 DEF Answers, Statuses
    <3>3. t = toBridge \o Pieces(m)
      BY <1>1, <1>5, <2>1, <3>1 DEF Broadcast
    <3>4. (m.t = "status" => m.v = st1) /\ (m.t # "status" => st1 = client.state)
      BY <3>2
    <3>5. /\ Framed(Answers, bridge.reader, t) /\ Whole(bridge.reader, t)
          /\ Len(t) <= 3 * MaxMessages /\ NewsIsLast(t, browser.seen, st1)
      BY <1>2, <2>1, <3>2, <3>3, <3>4, ClientWrites
    <3> QED BY <2>1, <3>5
  <2>2. CASE client.end # "open"
    <3>1. t = toBridge
      BY <1>1, <1>5, <2>2 DEF Broadcast
    <3> QED BY <2>2, <3>1 DEF SocketsFit
  <2> QED BY <2>1, <2>2
<1>7. ExtTypes'
  BY <1>2, <1>3, <1>4 DEF ExtTypes
<1>8. EndsFit'
  BY <1>2, <1>4, <1>5, <1>6 DEF EndsFit, UpIsUp
<1>9. SocketsFit'
  BY <1>2, <1>4, <1>5, <1>6 DEF SocketsFit
<1>10. NewsFits(toBridge, client, browser)'
  BY <1>2, <1>4, <1>5, <1>6 DEF NewsFits
<1> QED BY <1>7, <1>8, <1>9, <1>10

\* The client starts.
LEMMA ClientStarted ==
  ASSUME ExtInv, clientStarts
  PROVE  ExtInv'
<1> USE DEF ExtInv
<1>1. /\ UNCHANGED <<bridge, toClient, toBridge, browser>>
      /\ client' = [client EXCEPT !.runs = TRUE]
  BY DEF clientStarts
<1>2. /\ DOMAIN client' = {"runs", "state", "end", "reader"} /\ client'.runs = TRUE
      /\ client'.state = client.state /\ client'.end = client.end /\ client'.reader = client.reader
  BY <1>1 DEF ExtTypes
<1>3. ExtTypes'
  BY <1>1, <1>2 DEF ExtTypes
<1>4. EndsFit' /\ SocketsFit' /\ NewsFits(toBridge, client, browser)'
  BY <1>1, <1>2 DEF EndsFit, UpIsUp, SocketsFit, NewsFits
<1> QED BY <1>3, <1>4

\* The client stops, and what it wrote is cut off anywhere.
LEMMA ClientStopped ==
  ASSUME ExtInv, clientStops
  PROVE  ExtInv'
<1> USE DEF ExtInv
<1>1. PICK n \in 0 .. Len(toBridge) : toBridge' = SubSeq(toBridge, 1, n)
  BY DEF clientStops
<1>2. PICK e : e = IF client.end = "none" THEN "none" ELSE "closed"
  OBVIOUS
<1>3. /\ client' = [client EXCEPT !.runs = FALSE, !.reader = NoReader, !.end = e]
      /\ toClient' = <<>> /\ bridge' = bridge /\ browser' = browser
  BY <1>2 DEF clientStops
<1>4. /\ DOMAIN client' = {"runs", "state", "end", "reader"} /\ client'.runs = FALSE
      /\ client'.state = client.state /\ client'.end = e /\ client'.reader = NoReader
  BY <1>3 DEF ExtTypes
<1>5. PICK t : t = SubSeq(toBridge, 1, n)
  OBVIOUS
<1>6. Framed(Answers, bridge.reader, t) /\ Len(t) = n /\ Len(t) <= 3 * MaxMessages
  <2>1. PICK r : r = bridge.reader
    OBVIOUS
  <2>2. PICK s : s = toBridge
    OBVIOUS
  <2>3. Framed(Answers, r, s) /\ n \in 0 .. Len(s)
    BY <1>1, <2>1, <2>2 DEF SocketsFit
  <2>4. Framed(Answers, r, SubSeq(s, 1, n)) /\ Len(SubSeq(s, 1, n)) = n
    BY <2>3, CutFrames
  <2>5. Len(s) \in Nat
    BY <2>3 DEF Framed
  <2>6. n <= 3 * MaxMessages
    BY <2>2, <2>3, <2>5, ExtAssumption DEF SocketsFit
  <2> QED BY <1>5, <2>1, <2>2, <2>4, <2>6
<1>7. client.end = "none" => t = <<>> /\ bridge.reader = NoReader
  <2> SUFFICES ASSUME client.end = "none" PROVE t = <<>> /\ bridge.reader = NoReader
    OBVIOUS
  <2>1. toBridge = <<>> /\ bridge.reader = NoReader
    BY DEF EndsFit
  <2>2. Len(t) = 0 /\ t \in Seq(PieceOf(Answers))
    BY <1>1, <1>6, <2>1 DEF Framed
  <2> QED BY <2>1, <2>2
<1>8. ExtTypes'
  BY <1>2, <1>3, <1>4 DEF ExtTypes
<1>9. EndsFit'
  BY <1>1, <1>2, <1>3, <1>4, <1>5, <1>7 DEF EndsFit, UpIsUp
<1>10. SocketsFit'
  <2>1. Len(<<>>) = 0 /\ 0 <= 3 * MaxMessages
    BY ExtAssumption
  <2>2. e # "closed" => Whole(bridge.reader, t)
    BY <1>2, <1>7 DEF Whole
  <2> QED BY <1>1, <1>3, <1>4, <1>5, <1>6, <2>1, <2>2, EmptyFrames DEF SocketsFit
<1>11. NewsFits(toBridge, client, browser)'
  BY <1>2, <1>4 DEF NewsFits
<1> QED BY <1>8, <1>9, <1>10, <1>11

\* What the way from the browser promises at every moment, for any bounds and any
\* number of states: neither reader takes a piece for what it is not, the extension
\* is told that the client is up just when the bridge is connected, and what it has
\* seen in a connection is the client's state once all is read.
THEOREM ExtensionIsTrue == ExtSpec => [](ExtTypeOK /\ NothingGarbled /\ UpIsUp /\ SeenIsCurrent)
<1>1. ExtInit => ExtInv
  <2> SUFFICES ASSUME ExtInit PROVE ExtInv
    OBVIOUS
  <2> USE DEF ExtInit
  <2>1. ExtTypes
    BY ExtAssumption DEF ExtTypes
  <2>2. EndsFit
    BY DEF EndsFit, UpIsUp
  <2>3. bridge.reader = NoReader /\ client.reader = NoReader /\ client.end = "none"
    OBVIOUS
  <2>4. Len(<<>>) = 0 /\ 0 <= 3 * MaxMessages
    BY ExtAssumption
  <2>5. SocketsFit
    BY <2>3, <2>4, EmptyFrames DEF SocketsFit
  <2> QED BY <2>1, <2>2, <2>3, <2>5 DEF ExtInv, NewsFits
<1>2. ExtInv /\ [ExtNext]_extVars => ExtInv'
  <2> SUFFICES ASSUME ExtInv, [ExtNext]_extVars PROVE ExtInv'
    OBVIOUS
  <2>1. CASE UNCHANGED extVars
    BY <2>1 DEF extVars, ExtInv, ExtTypes, EndsFit, UpIsUp, SocketsFit, NewsFits
  <2> QED BY <2>1, MessageHandled, ConnectionTried, DisconnectionSeen, BridgeRead, ConnectionReceived,
             ClientRead, StateWritten, ClientStarted, ClientStopped DEF ExtNext
<1>3. ExtInv => ExtTypeOK /\ NothingGarbled /\ UpIsUp /\ SeenIsCurrent
  <2> SUFFICES ASSUME ExtInv PROVE ExtTypeOK /\ NothingGarbled /\ UpIsUp /\ SeenIsCurrent
    OBVIOUS
  <2> USE DEF ExtInv
  <2>1. \A M, r : IsReader(M, r) => r.garbled = FALSE
    BY DEF IsReader, NoReader, BodyReader, HalfReader
  <2>2. bridge.reader.garbled = FALSE /\ client.reader.garbled = FALSE
    BY <2>1 DEF SocketsFit, Framed
  <2>3. NothingGarbled
    BY <2>2 DEF NothingGarbled
  <2>4. Len(toBridge) <= 6 * MaxMessages
    <3>1. Len(toBridge) \in Nat /\ Len(toBridge) <= 3 * MaxMessages
      BY DEF SocketsFit, Framed
    <3> QED BY <3>1, ExtAssumption
  <2>5. ExtTypeOK
    BY <2>2, <2>4 DEF ExtTypeOK, ExtTypes, SocketsFit
  <2>6. SeenIsCurrent
    <3> SUFFICES ASSUME client.end = "open", NothingUnderWay, browser.seen # -1
                 PROVE  browser.seen = client.state
      BY DEF SeenIsCurrent
    <3>1. toBridge = <<>> /\ NewsIsLast(toBridge, browser.seen, client.state)
      BY DEF NothingUnderWay, NewsFits
    <3>2. Len(toBridge) = 0 /\ \A k \in 1 .. 0 : FALSE
      BY <3>1
    <3> QED BY <3>1, <3>2 DEF NewsIsLast
  <2>7. UpIsUp
    BY DEF EndsFit
  <2> QED BY <2>3, <2>5, <2>6, <2>7
<1> QED BY <1>1, <1>2, <1>3, PTL DEF ExtSpec

=============================================================================
