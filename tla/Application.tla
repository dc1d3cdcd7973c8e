---------------------------- MODULE Application -----------------------------
(***************************************************************************)
(* The application around the controller, with local WireGuard profiles:   *)
(* MozillaVPN (src/src/mozillavpn.cpp), its task queue and the tasks that  *)
(* drive the controller (src/src/tasks/controlleraction).  Requests never  *)
(* reach the controller directly: they are queued, run one at a time, and  *)
(* a task is over when the controller reaches the state it wants or has    *)
(* not moved between two ticks of its timer.                               *)
(*                                                                         *)
(* Slots run inside the call that emits their signal.  Here the controller *)
(* finishes its handler first and `seen' falls behind `state' until the    *)
(* slots have run; nothing else happens before.  The one thing a handler   *)
(* of the controller does after such a signal and that a slot could tell   *)
(* is to stamp the connection time, which nothing here looks at.           *)
(*                                                                         *)
(* The backend is any one that keeps the contract of ControllerImpl        *)
(* (src/src/controllerimpl.h): it answers initialize(), answers the        *)
(* deactivate() calls it has not answered yet with one disconnected(), and *)
(* reports the handshake of the last peer it was asked for, unless asked   *)
(* to deactivate since.                                                    *)
(***************************************************************************)
EXTENDS Controller

CONSTANTS
  MaxTasks,   \* requests wait while as many tasks are queued
  Conducts    \* how the client may be used

\* One user with the window, the browser extension too, or requests that come at
\* any time and not only as the window offers them.
ASSUME ApplicationAssumption ==
  /\ MaxTasks \in Nat \ {0}
  /\ Conducts \subseteq {"window", "extension", "hasty"}

VARIABLES
  conduct,      \* how it is used
  appState,     \* MozillaVPN::m_state
  tasks,        \* the task queue
  running,      \* the task that was taken from it
  starting,     \* its run() is about to be called
  taskTimer,    \* TaskControllerAction::m_timer of the running task
  lastState,    \* TaskControllerAction::m_lastState
  seen,         \* the controller state its listeners have been told of
  trying,       \* the peer the backend is bringing up a tunnel to
  tunnel,       \* the peer the tunnel is up to
  owed,         \* the backend owes a disconnected()
  wish          \* history: what the user asked for last and still waits for

queueVars == <<tasks, running, starting, taskTimer, lastState>>
implVars == <<trying, tunnel, owed>>
appVars == <<appState, queueVars, seen, wish>>
moving == <<ctlVars, appVars, implVars>>
allVars == <<moving, conduct>>

Users == {"ClientUser"} \cup
           (IF conduct = "window" THEN {} ELSE {"ExtensionUser"})

AppState == {"Launched", "Initialize", "Main"}

NoTask == "none"

\* The tasks that end up in the controller, by their TaskControllerAction, and
\* the functions and tasks that activate() and hardResetAndQuit() queue.
Action == {"Activate", "ActivateForExtension", "Deactivate", "DeactivateForExtension",
           "SilentSwitch"}
Task == Action \cup {"activation", "hardReset", "quit", "DeleteOSTunnelConfig"}

Policy == [t \in Task |-> IF t \in Action THEN "NonDeletable" ELSE "Deletable"]

Scheduler == INSTANCE TaskScheduler WITH
  Tasks <- Task, MaxPaused <- 0, ForcedModes <- {FALSE},
  m_tasks <- tasks, m_running_task <- running, m_paused <- 0, deferred <- <<>>

\* Types of the application's, the running task's and the backend's state: the
\* queue only ever holds tasks of this client.
AppTypeOK ==
  /\ TypeOK
  /\ appState \in AppState
  /\ tasks \in Seq(Task)
  /\ running \in Task \cup {NoTask}
  /\ starting \in BOOLEAN
  /\ taskTimer \in BOOLEAN
  /\ lastState \in State
  /\ seen \in State
  /\ {trying, tunnel} \subseteq Keys \cup {NoKey}
  /\ owed \in BOOLEAN
  /\ wish \in {"none", "on", "off", "reset"}

AppInit ==
  /\ Init
  /\ conduct \in Conducts
  /\ appState = "Launched"
  /\ tasks = <<>>
  /\ running = NoTask
  /\ starting = FALSE
  /\ taskTimer = FALSE
  /\ lastState = "Off"
  /\ seen = state
  /\ trying = NoKey
  /\ tunnel \in Keys \cup {NoKey}
  /\ owed = FALSE
  /\ wish = "none"

-----------------------------------------------------------------------------

\* No slot, run() or call into the backend is pending: the event loop waits.
Quiet == Idle /\ seen = state /\ ~starting

\* Users get to act, in the controller states s unless they are hasty.
MayRequest(s) == Quiet /\ (conduct = "hasty" \/ state \in s)

\* TaskScheduler::scheduleTask() on queue q.
Schedule(q, t) == Scheduler!maybeRunTask(Append(q, t), running, 0)

Remaining_nothingDeleted == tasks

\* What TaskScheduler::deleteTasks() leaves of the queue.  The running task is
\* one of the actions, which it does not cancel.
Remaining == SelectSeq(tasks, Scheduler!Kept)

\* MozillaVPN::initialize().
appInitialize ==
  /\ Quiet
  /\ appState = "Launched"
  /\ appState' = IF hasProfiles THEN "Main" ELSE "Initialize"
  /\ IF hasProfiles THEN initialize ELSE UNCHANGED ctlVars
  /\ UNCHANGED <<queueVars, seen, wish, implVars>>

\* WireGuardProfileModel::changed(), with maybeStateMain(), when a profile is
\* there: the slot of MozillaVPN::stateChanged() initializes the controller,
\* unless it has been.
profilesThere ==
  /\ Quiet
  /\ appState # "Launched"
  /\ TRUE \in ProfileModes
  /\ hasProfiles' = TRUE
  /\ appState' = "Main"
  /\ IF state = "Initializing"
     THEN call' = CallInitialize /\ initPending' = TRUE /\ backendAvailable' = FALSE
     ELSE UNCHANGED <<call, backend>>
  /\ UNCHANGED <<state, error, nextStep, initiator, attempt, confirmingTimer,
                 enableDisconnect, portalDetected, connectedTime, server, device,
                 readyToQuit, queueVars, seen, wish, implVars>>

profilesGone_tunnelLeftUp ==
  /\ MayRequest(State \ {"Initializing"})
  /\ appState # "Launched"
  /\ FALSE \in ProfileModes
  /\ hasProfiles
  /\ Len(tasks) < MaxTasks
  /\ hasProfiles' = FALSE
  /\ appState' = "Initialize"
  /\ wish' = "none"
  /\ UNCHANGED <<state, error, nextStep, initiator, attempt, confirmingTimer,
                 enableDisconnect, portalDetected, backend, connectedTime, server,
                 device, readyToQuit, call, queueVars, seen, implVars>>

\* The same when the last profile has been removed: the slot schedules a
\* deactivation.
profilesGone ==
  /\ MayRequest(State \ {"Initializing"})
  /\ appState # "Launched"
  /\ FALSE \in ProfileModes
  /\ hasProfiles
  /\ Len(tasks) < MaxTasks
  /\ hasProfiles' = FALSE
  /\ appState' = "Initialize"
  /\ Schedule(tasks, "Deactivate")
  /\ wish' = "none"
  /\ UNCHANGED <<state, error, nextStep, initiator, attempt, confirmingTimer,
                 enableDisconnect, portalDetected, backend, connectedTime, server,
                 device, readyToQuit, call, taskTimer, lastState, seen, implVars>>

-----------------------------------------------------------------------------
(* Requests.                                                               *)

\* A request is made in the window, the tray or a notification, or by the
\* browser extension.
Request(user, t, q, w) ==
  /\ user \in Users
  /\ Len(tasks) < MaxTasks
  /\ Schedule(q, t)
  /\ wish' = w
  /\ UNCHANGED <<ctlVars, appState, taskTimer, lastState, seen, implVars>>

\* MozillaVPN::activate() and deactivate(), from the toggle of the window
\* (VPNToggle.qml) or, at any time, from a notification.
activateRequested ==
  /\ appState = "Main"
  /\ MayRequest({"Off", "OnPartial"})
  /\ Request("ClientUser", "activation", Remaining, "on")

deactivateRequested ==
  /\ appState = "Main"
  /\ MayRequest(State \ {"Initializing", "Off", "OnPartial"})
  /\ Request("ClientUser", "Deactivate", Remaining, "off")

\* The extension's requests do not delete the tasks in front of them.
extensionActivates ==
  /\ MayRequest(State)
  /\ Request("ExtensionUser", "ActivateForExtension", tasks, "none")

extensionDeactivates ==
  /\ MayRequest(State)
  /\ Request("ExtensionUser", "DeactivateForExtension", tasks, wish)

hardResetAndQuit_deletesLast ==
  /\ appState = "Main"
  /\ MayRequest(State \ {"Initializing"})
  /\ Len(tasks) < MaxTasks
  /\ Scheduler!maybeRunTask(Append(Remaining, "Deactivate"), running, 0)
  /\ wish' = "reset"
  /\ UNCHANGED <<ctlVars, appState, taskTimer, lastState, seen, implVars>>

\* The reset of the settings screen: three tasks, of which only the first
\* survives deleteTasks().  The first is taken at once if the queue was idle.
hardResetAndQuit ==
  /\ appState = "Main"
  /\ MayRequest(State \ {"Initializing"})
  /\ Len(tasks) < MaxTasks
  /\ Scheduler!maybeRunTask(Remaining \o <<"Deactivate", "hardReset", "quit">>,
                            running, 0)
  /\ wish' = "reset"
  /\ UNCHANGED <<ctlVars, appState, taskTimer, lastState, seen, implVars>>

\* MozillaVPN::silentSwitch(), each time ConnectionHealth finds the connection
\* unstable, which it looks at while connected.
silentSwitch ==
  /\ Quiet
  /\ state = "On"
  /\ Len(tasks) < MaxTasks
  /\ Schedule(Remaining, "SilentSwitch")
  /\ UNCHANGED <<ctlVars, appState, taskTimer, lastState, seen, wish, implVars>>

\* The tray's quit, which does not go through the queue.
quitRequested ==
  /\ Quiet
  /\ quit
  /\ wish' = "none"
  /\ UNCHANGED <<appState, queueVars, seen, implVars>>

-----------------------------------------------------------------------------
(* The running task.                                                       *)

\* completed(), with TaskScheduler::taskCompleted(), for queue q.
Complete(q) == taskTimer' = FALSE /\ Scheduler!maybeRunTask(q, NoTask, 0)

\* The function queued by MozillaVPN::activate(): the action follows at the
\* end of the queue.
runActivation ==
  /\ starting
  /\ running = "activation"
  /\ IF hasProfiles
     THEN Complete(Append(tasks, "Activate")) /\ UNCHANGED <<appState, wish>>
     ELSE /\ Complete(Append(tasks, "Deactivate"))
          /\ appState' = "Initialize"
          /\ wish' = "none"
  /\ UNCHANGED <<ctlVars, lastState, seen, implVars>>

\* The functions of hardResetAndQuit(), and the task that hardReset() queues
\* behind the quit.
runReset ==
  /\ starting
  /\ running = "hardReset"
  /\ Complete(Append(tasks, "DeleteOSTunnelConfig"))
  /\ UNCHANGED <<ctlVars, appState, lastState, seen, wish, implVars>>

runQuit ==
  /\ starting
  /\ running = "quit"
  /\ quit
  /\ Complete(tasks)
  /\ UNCHANGED <<appState, lastState, seen, wish, implVars>>

runDeleteOSTunnelConfig ==
  /\ starting
  /\ running = "DeleteOSTunnelConfig"
  /\ deleteOSTunnelConfig
  /\ Complete(tasks)
  /\ UNCHANGED <<appState, lastState, seen, wish, implVars>>

User_actionItself(t) == t

\* Controller::ActivationPrincipal of the task.
User(t) ==
  IF t \in {"ActivateForExtension", "DeactivateForExtension"}
  THEN "ExtensionUser" ELSE "ClientUser"

\* The controller turns the request down; a silent switch also for want of
\* another server.
Refused(t) ==
  CASE t \in {"Activate", "ActivateForExtension"} -> ~MayActivate
    [] t = "SilentSwitch" -> TRUE
    [] OTHER -> Outranks(initiator, User(t)) \/ ~isActive

\* The controller takes the request.
Requested(t) ==
  \/ /\ t \in {"Activate", "ActivateForExtension"}
     /\ \/ \E k \in Keys : activateProfile(k, User(t))
        \/ \E mh \in MultihopModes : activateServer(mh, User(t))
  \/ /\ t \in {"Deactivate", "DeactivateForExtension"}
     /\ deactivate(User(t))
  \/ t = "SilentSwitch" /\ ~hasProfiles /\ silentSwitchServers

\* activate() returns FALSE if it gave up for want of a backend or a network;
\* without a profile only the latter, which leaves everything as it was.
ExpectSignal(t) ==
  t \in {"Activate", "ActivateForExtension"} =>
    IF hasProfiles
    THEN call'.op = "activate"
    ELSE state # "Off" \/ portalDetected \/ <<state, nextStep, initiator>>'
                                             # <<state, nextStep, initiator>>

CheckStatus_timerIsSingleShot(s, last) ==
  /\ lastState' = s
  /\ IF s = last
     THEN Complete(tasks)
     ELSE taskTimer' = FALSE /\ starting' = FALSE /\ UNCHANGED <<tasks, running>>

\* checkStatus() in controller state s: the task is over if the controller was
\* in the same state the last time.
CheckStatus(s, last) ==
  /\ lastState' = s
  /\ IF s = last
     THEN Complete(tasks)
     ELSE taskTimer' = TRUE /\ starting' = FALSE /\ UNCHANGED <<tasks, running>>

\* TaskControllerAction::run().  An activation that the controller gives up
\* because there is no network is not one the user waits for.
runAction ==
  /\ starting
  /\ running \in Action
  /\ \/ Refused(running) /\ UNCHANGED <<ctlVars, wish>> /\ CheckStatus(state, state)
     \/ /\ Requested(running)
        /\ IF ExpectSignal(running)
           THEN /\ taskTimer' = TRUE
                /\ lastState' = state
                /\ starting' = FALSE
                /\ UNCHANGED <<tasks, running, wish>>
           ELSE /\ CheckStatus(state', state)
                /\ wish' = IF state' = state THEN "none" ELSE wish
  /\ UNCHANGED <<appState, seen, implVars>>

\* The timer of the running task.
taskTimeout ==
  /\ Quiet
  /\ taskTimer
  /\ CheckStatus(state, lastState)
  /\ UNCHANGED <<ctlVars, appState, seen, wish, implVars>>

Satisfied(t, s) ==
  \/ t = "Activate" /\ s = "On"
  \/ t = "ActivateForExtension" /\ s = "OnPartial"
  \/ t = "Deactivate" /\ s = "Off"

\* The slots of Controller::stateChanged(): controllerStateChanged(), which
\* connects at start-up if the user wants that, and the running task's.
stateChanged ==
  /\ seen # state
  /\ seen' = state
  /\ \/ /\ seen = "Initializing"
        /\ Schedule(Remaining, "activation")
        /\ wish' = "on"
        /\ UNCHANGED taskTimer
     \/ /\ IF taskTimer /\ Satisfied(running, state)
           THEN Complete(tasks)
           ELSE UNCHANGED <<tasks, running, starting, taskTimer>>
        /\ wish' = IF wish = "on" /\ state \in {"On", "ConnectionError"}
                   THEN "none" ELSE wish
  /\ UNCHANGED <<ctlVars, appState, lastState, implVars>>

-----------------------------------------------------------------------------
(* The backend, and the controller's own timers.                           *)

implCalled ==
  /\ seen = state
  /\ ~starting
  /\ \/ call = CallInitialize /\ implReturn /\ UNCHANGED implVars
     \/ /\ call.op = "activate"
        /\ implReturn
        /\ trying' = call.key
        /\ UNCHANGED <<tunnel, owed>>
     \/ /\ call = CallDeactivate
        /\ trying' = NoKey
        /\ \/ implReturn /\ owed' = TRUE /\ UNCHANGED tunnel
           \/ ~owed /\ disconnected /\ tunnel' = NoKey /\ UNCHANGED owed
  /\ UNCHANGED appVars

implInitializes ==
  /\ Quiet
  /\ \E status \in BOOLEAN : implInitialized(status, tunnel # NoKey)
  /\ UNCHANGED <<appVars, implVars>>

implHandshakes ==
  /\ Quiet
  /\ trying # NoKey
  /\ IF Expected(trying) THEN connected(trying) ELSE UNCHANGED ctlVars
  /\ tunnel' = trying
  /\ trying' = NoKey
  /\ UNCHANGED <<appVars, owed>>

\* The end of the tunnel, asked for or not.
implDisconnects ==
  /\ Quiet
  /\ owed \/ (tunnel # NoKey /\ backendAvailable)
  /\ disconnected
  /\ trying' = NoKey /\ tunnel' = NoKey /\ owed' = FALSE
  /\ wish' = IF ~owed /\ wish = "on" THEN "none" ELSE wish
  /\ UNCHANGED <<appState, queueVars, seen>>

handshakeTimesOut == Quiet /\ handshakeTimeout /\ UNCHANGED <<appVars, implVars>>
confirmingTimesOut == Quiet /\ confirmingTimeout /\ UNCHANGED <<appVars, implVars>>

\* What is done before the event loop runs again.
Synchronous ==
  \/ runActivation \/ runReset \/ runQuit \/ runDeleteOSTunnelConfig \/ runAction
  \/ stateChanged \/ implCalled

Requests ==
  \/ activateRequested \/ deactivateRequested \/ extensionActivates
  \/ extensionDeactivates \/ hardResetAndQuit \/ quitRequested
  \/ profilesThere \/ profilesGone \/ silentSwitch

AppNext ==
  /\ \/ appInitialize \/ Requests \/ Synchronous
     \/ taskTimeout \/ handshakeTimesOut \/ confirmingTimesOut
     \/ implInitializes \/ implHandshakes \/ implDisconnects
  /\ UNCHANGED conduct

AppSpec == AppInit /\ [][AppNext]_allVars

\* The event loop runs and starves no event: timers are due and the backend's
\* answers are delivered, however many requests come in between.  No handshake
\* is promised.
AppFairSpec ==
  /\ AppSpec
  /\ WF_moving(Synchronous)
  /\ SF_moving(taskTimeout)
  /\ SF_moving(handshakeTimesOut)
  /\ SF_moving(implInitializes)
  /\ SF_moving(owed /\ implDisconnects)

-----------------------------------------------------------------------------

\* Something the user asked for and that is not over keeps the queue moving:
\* the task that runs has its timer.
TaskIsTimed == running # NoTask /\ ~starting => running \in Action /\ taskTimer

\* The promises below are made to users of the window, who press what it offers.
Orderly == conduct # "hasty"

\* Once the user has asked to disconnect and nobody asked for anything since,
\* the client ends up disconnected and stays so, whatever was queued, running
\* or half connected at the time.
DeactivateObeyed ==
  Orderly /\ wish = "off" /\ isActive ~> wish # "off" \/ ~isActive

\* Once the user has asked to connect, the client ends up connected or says
\* that it cannot.
ActivateObeyed ==
  Orderly /\ wish = "on" ~> wish # "on" \/ state \in {"On", "ConnectionError"} \/ readyToQuit

\* Removing the last profile takes the tunnel down, also in the middle of an
\* attempt, whose time-out then no longer finds a profile.
NoProfileNoTunnel == Orderly /\ ~hasProfiles ~> hasProfiles \/ ~isActive

\* A reset ends the client, from whatever state, unless the user asks for
\* something else first: its last step may find the tunnel still going down, and
\* the task behind it puts the controller in StateInitializing meanwhile
\* (mozillavpn.cpp:1245, controller.cpp:271).
ResetQuits == Orderly /\ wish = "reset" ~> wish # "reset" \/ readyToQuit

\* Each wish of the window's user is obeyed in the end (the three claims above,
\* of mozillavpn.cpp's activate, deactivate and hardResetAndQuit).
WishesObeyed == DeactivateObeyed /\ ActivateObeyed /\ ResetQuits

-----------------------------------------------------------------------------
(* What the documentation says and the code does not do.                   *)

\* "The browser extension cannot deactivate the vpn if we are in full device
\* protection", which is StateOn.
ExtensionKeepsProtection ==
  [][starting /\ running = "DeactivateForExtension" /\ state = "On"
       => state' = "On"]_allVars

=============================================================================
