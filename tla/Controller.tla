----------------------------- MODULE Controller -----------------------------
(***************************************************************************)
(* The connection controller of the client (src/src/controller.cpp): the   *)
(* state machine between the UI, which activates, deactivates, switches    *)
(* and quits, and a platform backend (ControllerImpl), which reports       *)
(* initialized, connected, disconnected and backendFailure.                *)
(*                                                                         *)
(* The controller runs on one thread, so a handler is one step.  The only  *)
(* part of a handler that is a step of its own is the call it makes into   *)
(* the backend: every handler ends with at most one such call, recorded in *)
(* `call', and nothing else runs until the backend has taken it.  The      *)
(* backend may answer inside that call (NetmgrController::deactivate emits *)
(* disconnected() before it returns) or later.                             *)
(*                                                                         *)
(* This module leaves the backend open: CtlSpec lets it report anything at *)
(* any time, so what is proved of CtlSpec holds with every backend.  The   *)
(* module ControllerNetmgr closes the system with a real one.              *)
(*                                                                         *)
(* A definition named <Handler>_<slip> is a mutant of <Handler>: the same  *)
(* operator with one plausible slip, used to show that a property notices. *)
(***************************************************************************)
EXTENDS Naturals, Sequences

CONSTANTS
  Keys,                 \* public keys of the peers a tunnel can be opened to
  NoKey,                \* the empty public key
  CONNECTION_MAX_RETRY, \* attempts before the location is given up (9)
  MultihopSupported,    \* ControllerImpl::multihopSupported()
  MultihopModes,        \* hop counts the user may choose (TRUE: multihop)
  ProfileModes,         \* the values hasProfiles() may take in this instance
  DeviceModes           \* whether a current device exists, same convention

ASSUME KeysAssumption == NoKey \notin Keys
ASSUME RetryAssumption == CONNECTION_MAX_RETRY \in Nat \ {0, 1}
ASSUME ModesAssumption == /\ MultihopSupported \in BOOLEAN
                          /\ MultihopModes \in SUBSET BOOLEAN
                          /\ ProfileModes \in SUBSET BOOLEAN
                          /\ DeviceModes \in SUBSET BOOLEAN

VARIABLES
  state,            \* m_state
  error,            \* m_errorCode
  nextStep,         \* m_nextStep, what to do once disconnected
  initiator,        \* m_initiator, who asked for the tunnel
  queue,            \* m_activationQueue, by public key, one entry per hop
  retry,            \* m_connectionRetry
  handshakeTimer,   \* m_handshakeTimer is running
  confirmingTimer,  \* m_confirmingTimer is running
  enableDisconnect, \* m_enableDisconnectInConfirming
  portalDetected,   \* m_portalDetected
  backendAvailable, \* m_backendAvailable
  initPending,      \* the backend has been asked to initialize, no answer yet
  connectedTime,    \* m_connectedTimeInUTC is valid
  exitKey,          \* m_serverData.exitServerPublicKey()
  multihop,         \* m_serverData.multihop()
  nextMultihop,     \* m_nextServerData.multihop()
  hasProfiles,      \* WireGuardProfileModel::hasProfiles()
  device,           \* DeviceModel::currentDevice() is not null
  readyToQuit,      \* readyToQuit() has been emitted: the event loop ends
  call              \* the call into the backend that is being made

attempt == <<queue, retry, handshakeTimer>>
server == <<exitKey, multihop, nextMultihop>>
environment == <<hasProfiles, device>>
backend == <<backendAvailable, initPending>>
ctlVars == <<state, error, nextStep, initiator, attempt, confirmingTimer,
             enableDisconnect, portalDetected, backend, connectedTime, server,
             environment, readyToQuit, call>>

-----------------------------------------------------------------------------
(* Types.  The states are listed from least to most active; the error      *)
(* codes a backend reports (fatal and split tunnelling) are one, "Fatal".  *)

State == {"Initializing", "PermissionRequired", "Off", "Disconnecting",
          "RegeneratingKey", "ConnectionError", "Connecting", "Confirming",
          "Switching", "SilentSwitching", "OnPartial", "On"}

ErrorCode == {"None", "Fatal", "ServerTimeout", "NoServerAvailable"}

BackendErrorCode == {"Fatal"}

NextStep == {"None", "Quit", "Update", "Reconnect", "Disconnect"}

Principal == {"Null", "ExtensionUser", "ClientUser"}

\* m_initiator > user, with Null < ExtensionUser < ClientUser.
Outranks(p, user) ==
  \/ p = "ClientUser" /\ user # "ClientUser"
  \/ p = "ExtensionUser" /\ user = "Null"

Call == [op : {"none", "initialize", "activate", "deactivate"},
         key : Keys \cup {NoKey}]

NoCall == [op |-> "none", key |-> NoKey]
CallInitialize == [op |-> "initialize", key |-> NoKey]
CallActivate(k) == [op |-> "activate", key |-> k]
CallDeactivate == [op |-> "deactivate", key |-> NoKey]

isActive ==
  state \notin {"Initializing", "PermissionRequired", "Off"}

isSwitching == state \in {"Switching", "SilentSwitching"}

\* Types of the controller's members (controller.h); the retry counter is an int
\* that never goes below zero.
TypeOK ==
  /\ state \in State
  /\ error \in ErrorCode
  /\ nextStep \in NextStep
  /\ initiator \in Principal
  /\ queue \in Seq(Keys)
  /\ retry \in Nat
  /\ handshakeTimer \in BOOLEAN
  /\ confirmingTimer \in BOOLEAN
  /\ enableDisconnect \in BOOLEAN
  /\ portalDetected \in BOOLEAN
  /\ backendAvailable \in BOOLEAN
  /\ initPending \in BOOLEAN
  /\ connectedTime \in BOOLEAN
  /\ exitKey \in Keys \cup {NoKey}
  /\ multihop \in BOOLEAN
  /\ nextMultihop \in BOOLEAN
  /\ hasProfiles \in BOOLEAN
  /\ device \in BOOLEAN
  /\ readyToQuit \in BOOLEAN
  /\ call \in Call

Init ==
  /\ state = "Initializing"
  /\ error = "None"
  /\ nextStep = "None"
  /\ initiator = "Null"
  /\ queue = <<>>
  /\ retry = 0
  /\ handshakeTimer = FALSE
  /\ confirmingTimer = FALSE
  /\ enableDisconnect = FALSE
  /\ portalDetected = FALSE
  /\ backendAvailable = FALSE
  /\ initPending = FALSE
  /\ connectedTime = FALSE
  /\ exitKey = NoKey
  /\ multihop = FALSE
  /\ nextMultihop = FALSE
  /\ hasProfiles \in ProfileModes
  /\ device \in DeviceModes
  /\ readyToQuit = FALSE
  /\ call = NoCall

-----------------------------------------------------------------------------
(* Pieces shared by the handlers.                                          *)

\* The event loop is running and no call into the backend is being made.
Idle == ~readyToQuit /\ call = NoCall

SetState_timerKeptRunning(s) ==
  /\ state' = s
  /\ confirmingTimer' = IF s = state THEN confirmingTimer
                                     ELSE confirmingTimer \/ s = "Confirming"
  /\ enableDisconnect' = (s = state /\ enableDisconnect)

\* setState(), with maybeEnableDisconnectInConfirming() on its signal.  No
\* handler leaves StateConfirming and comes back to it.
SetState(s) ==
  /\ state' = s
  /\ confirmingTimer' = IF s = state THEN confirmingTimer ELSE s = "Confirming"
  /\ enableDisconnect' = (s = state /\ enableDisconnect)

ClearAttempt_timerKeptRunning ==
  /\ queue' = <<>>
  /\ retry' = 0
  /\ UNCHANGED handshakeTimer

\* m_handshakeTimer.stop(), m_activationQueue.clear() and clearRetryCounter(),
\* as every teardown does.
ClearAttempt ==
  /\ handshakeTimer' = FALSE
  /\ queue' = <<>>
  /\ retry' = 0

SubmitFirst_timerLeftToBackend(q, s, user) ==
  /\ handshakeTimer' = FALSE
  /\ call' = CallActivate(Head(q))
  /\ SetState(IF user = "ExtensionUser" \/ s \in {"Switching", "SilentSwitching"}
              THEN s ELSE "Confirming")

\* activateNext() on a queue q whose head is submitted, in state s.
SubmitFirst(q, s, user) ==
  /\ handshakeTimer' = TRUE
  /\ call' = CallActivate(Head(q))
  /\ SetState(IF user = "ExtensionUser" \/ s \in {"Switching", "SilentSwitching"}
              THEN s ELSE "Confirming")

\* The queues setupConfigs() can produce for single or multi hop.
Hops(mh) ==
  IF mh /\ MultihopSupported THEN {<<e, x>> : e \in Keys, x \in Keys}
                             ELSE {<<x>> : x \in Keys}

\* serverUnavailable() in state s.
ServerUnavailable(s) ==
  /\ error' = IF s = "Connecting" THEN "NoServerAvailable" ELSE "ServerTimeout"
  /\ SetState("ConnectionError")

\* activateInternal() with setupConfigs() and activateNext(), called in state s
\* with error err and next step ns, for server data of exit key k and hop count
\* mh, after r retries.  Either no server can be chosen, or there is no device,
\* or the attempt starts.
ActivateInternal(s, user, err, ns, k, mh, r) ==
  /\ initiator' = user
  /\ multihop' = mh
  /\ retry' = r
  /\ \/ /\ ServerUnavailable(s)
        /\ nextStep' = ns
        /\ queue' = <<>>
        /\ handshakeTimer' = FALSE
        /\ exitKey' = k
        /\ call' = NoCall
     \/ /\ ~device
        /\ nextStep' = "Disconnect"
        /\ SetState(s)
        /\ error' = err
        /\ queue' = <<>>
        /\ handshakeTimer' = FALSE
        /\ exitKey' = k
        /\ call' = NoCall
     \/ /\ device
        /\ \E q \in Hops(mh) :
              /\ queue' = q
              /\ exitKey' = q[Len(q)]
              /\ SubmitFirst(q, s, user)
        /\ nextStep' = ns
        /\ error' = err

\* The body of deactivate() from the portal check on, entered in state s.
Deactivation(s) ==
  /\ portalDetected' = FALSE
  /\ SetState(IF s \in {"Switching", "SilentSwitching"} THEN s ELSE "Disconnecting")
  /\ ClearAttempt
  /\ error' = "None"
  /\ call' = CallDeactivate

\* deactivate() of a user who may, while the controller is active: at once if
\* the last attempt never reached the backend.  `timer' is whether the handshake
\* timer is still running.
DeactivateActive(timer) ==
  IF state = "ConnectionError" /\ error = "NoServerAvailable"
  THEN /\ SetState("Off")
       /\ handshakeTimer' = timer
       /\ UNCHANGED <<error, queue, retry, portalDetected, call>>
  ELSE Deactivation(state)

-----------------------------------------------------------------------------
(* Initialization and the signals of the backend.                          *)

initialize ==
  /\ Idle
  /\ state = "Initializing"
  /\ backendAvailable' = FALSE
  /\ initPending' = TRUE
  /\ exitKey' = NoKey
  /\ \E mh \in MultihopModes : multihop' = mh /\ nextMultihop' = mh
  /\ call' = CallInitialize
  /\ UNCHANGED <<state, error, nextStep, initiator, attempt, confirmingTimer,
                 enableDisconnect, portalDetected, connectedTime, environment,
                 readyToQuit>>

\* The backend answers initialize(), inside the call or later.
MayInitialize == ~readyToQuit /\ initPending /\ call \in {NoCall, CallInitialize}

implPermRequired ==
  /\ MayInitialize
  /\ backendAvailable' = FALSE
  /\ SetState("PermissionRequired")
  /\ call' = NoCall
  /\ UNCHANGED <<error, nextStep, initiator, attempt, portalDetected,
                 initPending, connectedTime, server, environment, readyToQuit>>

implInitialized(status, isConnected) ==
  /\ MayInitialize
  /\ initPending' = FALSE
  /\ backendAvailable' = status
  /\ SetState(IF status /\ isConnected THEN "On" ELSE "Off")
  /\ connectedTime' = ((status /\ isConnected) \/ connectedTime)
  /\ call' = NoCall
  /\ UNCHANGED <<error, nextStep, initiator, attempt, portalDetected, server,
                 environment, readyToQuit>>

\* deleteOSTunnelConfig(), which does nothing in the Linux backends.
deleteOSTunnelConfig ==
  /\ Idle
  /\ SetState("Initializing")
  /\ UNCHANGED <<error, nextStep, initiator, attempt, portalDetected, backend,
                 connectedTime, server, environment, readyToQuit, call>>

handleBackendFailure(code) ==
  /\ Idle
  /\ error' = code
  /\ UNCHANGED <<state, nextStep, initiator, attempt, confirmingTimer,
                 enableDisconnect, portalDetected, backend, connectedTime,
                 server, environment, readyToQuit, call>>

ConnectedState_nullIsPartial == IF initiator = "ClientUser" THEN "On" ELSE "OnPartial"

\* Who asked for the tunnel decides what it is shown as.
ConnectedState == IF initiator = "ExtensionUser" THEN "OnPartial" ELSE "On"

StampTime_onlyWithoutSwitch == ~isSwitching

\* A server switch keeps the connection time, if there is one.
StampTime == ~isSwitching \/ ~connectedTime

\* What connected() does once the last hop is up.
AllHopsConnected ==
  /\ connectedTime' = (StampTime \/ connectedTime)
  /\ IF nextStep \in {"Quit", "Disconnect", "Update"}
     THEN Deactivation(ConnectedState)
     ELSE /\ SetState(ConnectedState)
          /\ error' = "None"
          /\ ClearAttempt
          /\ UNCHANGED <<portalDetected, call>>

Expected_anyWhenIdle(k) == queue = <<>> \/ Head(queue) = k

\* Whether a handshake with k is expected; connected() ignores any other.
Expected(k) == IF queue = <<>> THEN exitKey = k ELSE Head(queue) = k

connected(k) ==
  /\ Idle
  /\ Expected(k)
  /\ IF Len(queue) > 1
     THEN /\ queue' = Tail(queue)
          /\ IF hasProfiles \/ device
             THEN SubmitFirst(Tail(queue), state, initiator)
             ELSE UNCHANGED <<state, confirmingTimer, enableDisconnect,
                              handshakeTimer, call>>
          /\ UNCHANGED <<error, connectedTime, retry, portalDetected>>
     ELSE AllHopsConnected
  /\ UNCHANGED <<nextStep, initiator, backend, server, environment, readyToQuit>>

\* The backend reports the end of the tunnel, inside deactivate() or at any
\* other time.
disconnected ==
  /\ ~readyToQuit
  /\ call \in {NoCall, CallDeactivate}
  /\ \/ /\ nextStep \in {"Quit", "Update"}
        /\ readyToQuit' = (nextStep = "Quit")
        /\ nextStep' = "None"
        /\ SetState("Off")
        /\ ClearAttempt
        /\ call' = NoCall
        /\ UNCHANGED <<error, initiator, connectedTime, server>>
     \/ /\ nextStep = "Reconnect"
        /\ ActivateInternal(state, initiator, error, "None", NoKey,
                            nextMultihop, 0)
        /\ UNCHANGED <<connectedTime, nextMultihop, readyToQuit>>
     \/ /\ nextStep \in {"None", "Disconnect"}
        /\ nextStep' = "None"
        /\ connectedTime' = FALSE
        /\ initiator' = "Null"
        /\ SetState("Off")
        /\ ClearAttempt
        /\ call' = NoCall
        /\ UNCHANGED <<error, server, readyToQuit>>
  /\ UNCHANGED <<portalDetected, backend, environment>>

\* Any other return of a call into the backend.
implReturn ==
  /\ ~readyToQuit
  /\ call # NoCall
  /\ call' = NoCall
  /\ UNCHANGED <<state, error, nextStep, initiator, attempt, confirmingTimer,
                 enableDisconnect, portalDetected, backend, connectedTime,
                 server, environment, readyToQuit>>

-----------------------------------------------------------------------------
(* Timers.                                                                 *)

NextRetry_countsDown == retry - 1

\* ++m_connectionRetry.
NextRetry == retry + 1

MayRetry_offByOne == NextRetry = 1 \/ NextRetry <= CONNECTION_MAX_RETRY

\* The first retry forces port 53, the later ones are bounded.
MayRetry == NextRetry = 1 \/ NextRetry < CONNECTION_MAX_RETRY

handshakeTimeout ==
  /\ Idle
  /\ handshakeTimer
  /\ \/ /\ hasProfiles
        /\ error' = "ServerTimeout"
        /\ SetState("ConnectionError")
        /\ handshakeTimer' = FALSE
        /\ call' = CallDeactivate
        /\ UNCHANGED <<queue, retry, nextStep, initiator,
                       exitKey, multihop, portalDetected>>
     \/ /\ ~hasProfiles
        /\ nextStep \in {"Quit", "Disconnect", "Update"}
        /\ isActive
        /\ DeactivateActive(FALSE)
        /\ UNCHANGED <<nextStep, initiator, exitKey, multihop>>
     \/ /\ ~hasProfiles
        /\ nextStep \in {"Quit", "Disconnect", "Update"}
        /\ ~isActive
        /\ handshakeTimer' = FALSE
        /\ UNCHANGED <<state, confirmingTimer, enableDisconnect, error, queue,
                       retry, nextStep, initiator,
                       exitKey, multihop, portalDetected, call>>
     \/ /\ ~hasProfiles
        /\ nextStep \in {"None", "Reconnect"}
        /\ MayRetry
        /\ ActivateInternal(state, initiator, error, nextStep, exitKey,
                            multihop, NextRetry)
        /\ UNCHANGED portalDetected
     \/ /\ ~hasProfiles
        /\ nextStep \in {"None", "Reconnect"}
        /\ ~MayRetry
        /\ retry' = NextRetry
        /\ ServerUnavailable(state)
        /\ handshakeTimer' = FALSE
        /\ UNCHANGED <<queue, nextStep, initiator,
                       exitKey, multihop, portalDetected, call>>
  /\ UNCHANGED <<backend, connectedTime, nextMultihop, environment, readyToQuit>>

confirmingTimeout ==
  /\ Idle
  /\ confirmingTimer
  /\ confirmingTimer' = FALSE
  /\ enableDisconnect' = TRUE
  /\ UNCHANGED <<state, error, nextStep, initiator, attempt, portalDetected,
                 backend, connectedTime, server, environment, readyToQuit, call>>

-----------------------------------------------------------------------------
(* Requests of the user, the browser extension and the application.        *)

MayActivate ==
  state \in {"Off", "OnPartial", "Switching", "SilentSwitching",
             "RegeneratingKey"}

\* activate(InterfaceConfig): the profile of peer k.
activateProfile(k, user) ==
  /\ Idle
  /\ hasProfiles
  /\ MayActivate
  /\ \/ /\ ~backendAvailable
        /\ error' = "NoServerAvailable"
        /\ SetState("ConnectionError")
        /\ UNCHANGED <<initiator, attempt, call>>
     \/ /\ backendAvailable /\ state = "Off"   \* no network connectivity
        /\ error' = "None"
        /\ UNCHANGED <<state, confirmingTimer, enableDisconnect, initiator,
                       attempt, call>>
     \/ /\ backendAvailable
        /\ error' = "None"
        /\ initiator' = user
        /\ retry' = 0
        /\ queue' = <<k>>
        /\ SubmitFirst(<<k>>, IF user = "ExtensionUser" THEN state
                                                        ELSE "Connecting", user)
  /\ UNCHANGED <<nextStep, portalDetected, backend, connectedTime, server,
                 environment, readyToQuit>>

\* activate(ServerData), with single- or multi-hop server data.
activateServer(mh, user) ==
  /\ Idle
  /\ ~hasProfiles
  /\ MayActivate
  /\ \/ /\ state = "Off" /\ portalDetected
        /\ portalDetected' = FALSE
        /\ error' = "None" /\ exitKey' = NoKey /\ multihop' = mh
        /\ UNCHANGED <<state, confirmingTimer, enableDisconnect, nextStep,
                       initiator, attempt, call>>
     \/ /\ state = "Off" /\ ~portalDetected    \* no network connectivity
        /\ error' = "None" /\ exitKey' = NoKey /\ multihop' = mh
        /\ UNCHANGED <<state, confirmingTimer, enableDisconnect, nextStep,
                       initiator, attempt, call, portalDetected>>
     \/ /\ state # "Off" \/ ~portalDetected
        /\ ActivateInternal(IF user = "ExtensionUser" THEN state
                                                      ELSE "Connecting",
                            user, "None", nextStep, NoKey, mh, 0)
        /\ UNCHANGED portalDetected
  /\ UNCHANGED <<backend, connectedTime, nextMultihop, environment, readyToQuit>>

deactivate(user) ==
  /\ Idle
  /\ ~Outranks(initiator, user)
  /\ isActive
  /\ DeactivateActive(handshakeTimer)
  /\ UNCHANGED <<nextStep, initiator, backend, connectedTime, server,
                 environment, readyToQuit>>

\* switchServers(): a full deactivation first when the hop count changes.
switchServers(mh) ==
  LET s == IF state = "Connecting" THEN state ELSE "Switching" IN
  /\ Idle
  /\ ~hasProfiles
  /\ isActive
  /\ nextMultihop' = mh
  /\ \/ /\ MultihopSupported /\ mh # multihop
        /\ nextStep' = "Reconnect"
        /\ Deactivation(s)
        /\ UNCHANGED <<initiator, exitKey, multihop>>
     \/ /\ ~MultihopSupported \/ mh = multihop
        /\ ActivateInternal(s, initiator, error, nextStep, NoKey, mh, 0)
        /\ UNCHANGED portalDetected
  /\ UNCHANGED <<backend, connectedTime, environment, readyToQuit>>

silentSwitchServers ==
  /\ Idle
  /\ ~hasProfiles
  /\ state = "On"
  /\ ActivateInternal("SilentSwitching", initiator, error, nextStep, exitKey,
                      multihop, 0)
  /\ UNCHANGED <<portalDetected, backend, connectedTime, nextMultihop,
                 environment, readyToQuit>>

startKeyRegeneration ==
  /\ Idle
  /\ SetState("RegeneratingKey")
  /\ UNCHANGED <<error, nextStep, initiator, attempt, portalDetected, backend,
                 connectedTime, server, environment, readyToQuit, call>>

quit ==
  /\ Idle
  /\ readyToQuit' = ~isActive
  /\ nextStep' = IF isActive THEN "Quit" ELSE nextStep
  /\ IF isActive /\ state # "Disconnecting"
     THEN DeactivateActive(handshakeTimer)
     ELSE UNCHANGED <<state, confirmingTimer, enableDisconnect, error, attempt,
                      portalDetected, call>>
  /\ UNCHANGED <<initiator, backend, connectedTime, server, environment>>

updateRequired ==
  /\ Idle
  /\ isActive
  /\ nextStep' = "Update"
  /\ IF state \in {"On", "OnPartial"}
     THEN DeactivateActive(handshakeTimer)
     ELSE UNCHANGED <<state, confirmingTimer, enableDisconnect, error, attempt,
                      portalDetected, call>>
  /\ UNCHANGED <<initiator, backend, connectedTime, server, environment,
                 readyToQuit>>

captivePortal(present) ==
  /\ Idle
  /\ portalDetected' = present
  /\ UNCHANGED <<state, error, nextStep, initiator, attempt, confirmingTimer,
                 enableDisconnect, backend, connectedTime, server, environment,
                 readyToQuit, call>>

\* Profiles and devices are added and removed by their models.
environmentChanges ==
  /\ Idle
  /\ hasProfiles' \in ProfileModes
  /\ device' \in DeviceModes
  /\ UNCHANGED <<state, error, nextStep, initiator, attempt, confirmingTimer,
                 enableDisconnect, portalDetected, backend, connectedTime,
                 server, readyToQuit, call>>

-----------------------------------------------------------------------------

UserNext ==
  \/ \E user \in {"ExtensionUser", "ClientUser"} :
        \/ \E k \in Keys : activateProfile(k, user)
        \/ \E mh \in MultihopModes : activateServer(mh, user)
        \/ deactivate(user)
  \/ \E mh \in MultihopModes : switchServers(mh)
  \/ silentSwitchServers
  \/ startKeyRegeneration
  \/ quit
  \/ updateRequired
  \/ deleteOSTunnelConfig
  \/ \E present \in BOOLEAN : captivePortal(present)
  \/ environmentChanges
  \/ initialize

TimerNext == handshakeTimeout \/ confirmingTimeout

SignalNext ==
  \/ \E k \in Keys : connected(k)
  \/ disconnected
  \/ \E s, c \in BOOLEAN : implInitialized(s, c)
  \/ implPermRequired
  \/ \E code \in BackendErrorCode : handleBackendFailure(code)
  \/ implReturn

CtlNext == UserNext \/ TimerNext \/ SignalNext

CtlSpec == Init /\ [][CtlNext]_ctlVars

-----------------------------------------------------------------------------
(* Properties that hold whatever the backend reports.                      *)

\* The handshake timer never fires without a hop that is being tried:
\* handshakeTimeout() asserts it and then dereferences the queue's ends.
TimerHasHop == handshakeTimer => queue # <<>>

\* The retries are bounded: the location is given up, at the latest one
\* attempt after CONNECTION_MAX_RETRY when a late handshake with the entry hop
\* restarts the timer of a connection already given up.
RetriesEnd ==
  /\ retry <= CONNECTION_MAX_RETRY + 1
  /\ handshakeTimer => retry <= CONNECTION_MAX_RETRY

\* The connection is only shown as partial while the tunnel is the extension's,
\* whoever activated, switched or retried in between.
PartialIsExtension == state = "OnPartial" => initiator = "ExtensionUser"

\* A connected state always has a connection time to show: switches keep it,
\* disconnections clear it only on the way to StateOff.
ConnectedHasTime == state \in {"On", "OnPartial"} => connectedTime

\* A connection attempt never waits without a timeout, unless a deactivation
\* is already owed (the device is gone: nextStep says so, or an update
\* requested since).
WaitIsTimed ==
  state \in {"Connecting", "Confirming"} =>
    handshakeTimer \/ nextStep \in {"Disconnect", "Update"}

\* The disconnect button in StateConfirming is only ever enabled by the timer
\* of the current StateConfirming.
ConfirmingTimerScoped ==
  /\ confirmingTimer \/ enableDisconnect => state = "Confirming"
  /\ ~(confirmingTimer /\ enableDisconnect)

\* What the user is shown is true in each of these ways (the state, the time and
\* the button of ControllerView, all read from controller.cpp).
ShownIsTrue == PartialIsExtension /\ ConnectedHasTime /\ ConfirmingTimerScoped

=============================================================================
