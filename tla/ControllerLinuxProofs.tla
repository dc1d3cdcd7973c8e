------------------------ MODULE ControllerLinuxProofs ------------------------
(***************************************************************************)
(* Proofs about the plain Linux client: with any number of messages under  *)
(* way and any number of daemon restarts, waiting for disconnected() has a *)
(* reason, and what the controller shows is what the daemon has.           *)
(***************************************************************************)
EXTENDS ControllerLinux, ControllerProofs

\* Messages that end a tunnel in the controller's eyes, that tell of one, and
\* the refusal of a status request.
IsEnd(m) == \/ m.ev \in {"disconnected", "ownerLost"}
            \/ m.ev \in {"activate", "deactivate"} /\ IsFailure(m)

IsEvidence(m) == \/ m.ev = "connected"
                 \/ m.ev = "status" /\ ~m.error /\ m.ok

IsRefusal(m) == m.ev = "status" /\ ~m.error /\ ~m.ok

IsStart(m) == m.ev = "activate" /\ m.ok

\* An end, or the result of a successful activation, is in q after position i.
EndAfter(q, i) == \E j \in DOMAIN q : j > i /\ IsEnd(q[j])
StartAfter(q, i) == \E j \in DOMAIN q : j > i /\ IsStart(q[j])

\* Whatever tells of a tunnel is followed by its end.
EvidenceEnds(q) == \A i \in DOMAIN q : IsEvidence(q[i]) => EndAfter(q, i)

\* Whatever tells of an end is followed by a new start.
EndsRestart(q) == \A i \in DOMAIN q : IsEnd(q[i]) => StartAfter(q, i)

NoRefusal(q) == \A i \in DOMAIN q : ~IsRefusal(q[i])

\* No activation is on its way to the daemon.
NoActivate == /\ call.op # "activate"
              /\ \A i \in DOMAIN toDaemon : toDaemon[i].op # "activate"

-----------------------------------------------------------------------------

\* With profiles the server data stay empty, attempts have one hop and nothing
\* but quit() defers a step.
ProfilesOnly ==
  /\ hasProfiles
  /\ nextStep \in {"None", "Quit"}
  /\ Len(queue) <= 1
  /\ exitKey = NoKey
  /\ call.op = "activate" => call.key \in Keys

\* The daemon's connections are of known peers, and end with its process.
DaemonSound ==
  /\ conns \in [{SingleHop} -> {Service!None} \cup [server : Keys, told : BOOLEAN]]
  /\ ~serving => daemonIdle

\* Nothing is activated before the backend has answered initialize().
UnavailableIsQuiet ==
  /\ initPending \/ state = "Initializing" => ~backendAvailable
  /\ ~backendAvailable => NoActivate /\ queue = <<>>
  /\ state = "ConnectionError" /\ error = "NoServerAvailable" => ~backendAvailable

\* The messages under way agree with the daemon: when it is idle, news of a
\* tunnel is followed by its end; when it is not, news of an end is followed by
\* a start, and the tunnel was not denied.
NewsIsOrdered ==
  /\ daemonIdle => EvidenceEnds(fromDaemon)
  /\ daemonIdle \/ refused \/ EndsRestart(fromDaemon)
  /\ initPending \/ state = "Initializing" =>
       daemonIdle \/ refused \/ NoRefusal(fromDaemon)

\* ShownIsDaemons while messages are under way.
OnIsOrEnds == state \in {"On", "OnPartial"} /\ daemonIdle => EndAfter(fromDaemon, 0)

OffIsIdleOr ==
  state = "Off" /\ queue = <<>> =>
    /\ NoActivate \/ overtaken
    /\ backendAvailable /\ ~daemonIdle => refused \/ overtaken

BusTypeOK ==
  /\ serving \in BOOLEAN
  /\ toDaemon \in Seq(Request)
  /\ fromDaemon \in Seq(Event)
  /\ stops \in 0 .. MaxStops
  /\ refused \in BOOLEAN
  /\ overtaken \in BOOLEAN

LinuxPart ==
  /\ BusTypeOK
  /\ ProfilesOnly
  /\ DaemonSound
  /\ UnavailableIsQuiet
  /\ NewsIsOrdered
  /\ OnIsOrEnds
  /\ OffIsIdleOr
  /\ EndIsUnderWay

LinuxInv == CtlInv /\ LinuxPart

-----------------------------------------------------------------------------
(* Queues of messages.                                                     *)

\* The elements of a queue without its head.
LEMMA TailElements ==
  ASSUME NEW S, NEW q \in Seq(S), q # <<>>
  PROVE  /\ Tail(q) \in Seq(S)
         /\ Head(q) = q[1] /\ 1 \in DOMAIN q /\ Head(q) \in S
         /\ \A i \in DOMAIN Tail(q) : i + 1 \in DOMAIN q /\ Tail(q)[i] = q[i + 1]
         /\ \A i \in DOMAIN q : i # 1 => i - 1 \in DOMAIN Tail(q) /\ Tail(q)[i - 1] = q[i]
  OBVIOUS

\* The elements of two queues joined.
LEMMA JoinElements ==
  ASSUME NEW S, NEW q \in Seq(S), NEW e \in Seq(S)
  PROVE  /\ q \o e \in Seq(S)
         /\ \A i \in DOMAIN q : i \in DOMAIN (q \o e) /\ (q \o e)[i] = q[i]
         /\ \A i \in DOMAIN e : /\ Len(q) + i \in DOMAIN (q \o e)
                                /\ (q \o e)[Len(q) + i] = e[i]
         /\ \A i \in DOMAIN (q \o e) : i \in DOMAIN q \/ (i - Len(q)) \in DOMAIN e
  OBVIOUS

\* What is left of the news once the first message has been handled.
LEMMA NewsTail ==
  ASSUME NEW S, NEW q \in Seq(S), q # <<>>
  PROVE  /\ EvidenceEnds(q) => EvidenceEnds(Tail(q))
         /\ EvidenceEnds(q) /\ IsEvidence(Head(q)) => EndAfter(Tail(q), 0)
         /\ EndsRestart(q) => EndsRestart(Tail(q))
         /\ EndsRestart(q) /\ IsEnd(Head(q)) => StartAfter(q, 1)
         /\ NoRefusal(q) => NoRefusal(Tail(q))
         /\ EndAfter(q, 0) /\ ~IsEnd(Head(q)) => EndAfter(Tail(q), 0)
<1> DEFINE t == Tail(q)
<1>1. /\ Head(q) = q[1] /\ 1 \in DOMAIN q
      /\ \A i \in DOMAIN t : i \in Nat /\ i + 1 \in DOMAIN q /\ t[i] = q[i + 1]
      /\ \A i \in DOMAIN q : i \in Nat /\ i > 0
      /\ \A i \in DOMAIN q : i # 1 => i - 1 \in DOMAIN t /\ t[i - 1] = q[i]
  BY TailElements
<1> HIDE DEF t
<1>0. \A i \in Nat : \A j \in DOMAIN q :
        j > i + 1 => \E m \in DOMAIN t : m > i /\ t[m] = q[j]
  <2> TAKE i \in Nat
  <2> TAKE j \in DOMAIN q
  <2> HAVE j > i + 1
  <2>1. j # 1 /\ j - 1 > i
    BY <1>1
  <2> QED
    BY <1>1, <2>1
<1>2. \A i \in Nat : EndAfter(q, i + 1) => EndAfter(t, i)
  BY <1>0 DEF EndAfter
<1>3. \A i \in Nat : StartAfter(q, i + 1) => StartAfter(t, i)
  BY <1>0 DEF StartAfter
<1>4. EvidenceEnds(q) => EvidenceEnds(t)
  BY <1>1, <1>2 DEF EvidenceEnds
<1>5. EndsRestart(q) => EndsRestart(t)
  BY <1>1, <1>3 DEF EndsRestart
<1>6. EvidenceEnds(q) /\ IsEvidence(Head(q)) => EndAfter(t, 0)
  <2> SUFFICES ASSUME EvidenceEnds(q), IsEvidence(Head(q)) PROVE EndAfter(t, 0)
    OBVIOUS
  <2>1. EndAfter(q, 0 + 1)
    BY <1>1 DEF EvidenceEnds
  <2> QED
    BY <1>2, <2>1
<1>7. EndsRestart(q) /\ IsEnd(Head(q)) => StartAfter(q, 1)
  BY <1>1 DEF EndsRestart
<1>8. NoRefusal(q) => NoRefusal(t)
  BY <1>1 DEF NoRefusal
<1>9. EndAfter(q, 0) /\ ~IsEnd(Head(q)) => EndAfter(t, 0)
  BY <1>1 DEF EndAfter
<1> QED
  BY <1>4, <1>5, <1>6, <1>7, <1>8, <1>9 DEF t

\* What messages e that are sent make of the news q under way.
LEMMA NewsJoined ==
  ASSUME NEW S, NEW q \in Seq(S), NEW e \in Seq(S)
  PROVE  /\ EvidenceEnds(q) /\ EvidenceEnds(e) => EvidenceEnds(q \o e)
         /\ EndAfter(e, 0) /\ EvidenceEnds(e) => EvidenceEnds(q \o e)
         /\ EndsRestart(q) /\ EndsRestart(e) => EndsRestart(q \o e)
         /\ StartAfter(e, 0) /\ EndsRestart(e) => EndsRestart(q \o e)
         /\ NoRefusal(q) /\ NoRefusal(e) => NoRefusal(q \o e)
         /\ EndAfter(q, 0) \/ EndAfter(e, 0) => EndAfter(q \o e, 0)
<1> DEFINE t == q \o e
           n == Len(q)
<1>1. /\ n \in Nat
      /\ \A i \in DOMAIN q : i \in DOMAIN t /\ t[i] = q[i] /\ i \in Nat /\ i > 0 /\ i <= n
      /\ \A i \in DOMAIN e : n + i \in DOMAIN t /\ t[n + i] = e[i] /\ i \in Nat /\ i > 0
      /\ \A i \in DOMAIN t : /\ i \in Nat
                             /\ \/ i \in DOMAIN q /\ t[i] = q[i]
                                \/ (i - n) \in DOMAIN e /\ t[i] = e[i - n]
  OBVIOUS
<1> HIDE DEF t, n
<1>2. \A i \in DOMAIN q : EndAfter(q, i) => EndAfter(t, i)
  BY <1>1 DEF EndAfter
<1>3. \A i \in DOMAIN e : EndAfter(e, i) => EndAfter(t, n + i)
  BY <1>1 DEF EndAfter
<1>4. EndAfter(e, 0) => \A i \in DOMAIN q : EndAfter(t, i)
  BY <1>1 DEF EndAfter
<1>5. \A i \in DOMAIN q : StartAfter(q, i) => StartAfter(t, i)
  BY <1>1 DEF StartAfter
<1>6. \A i \in DOMAIN e : StartAfter(e, i) => StartAfter(t, n + i)
  BY <1>1 DEF StartAfter
<1>7. StartAfter(e, 0) => \A i \in DOMAIN q : StartAfter(t, i)
  BY <1>1 DEF StartAfter
<1>8. \A i \in DOMAIN t : i \in DOMAIN q \/ \E j \in DOMAIN e : i = n + j /\ t[i] = e[j]
  <2> TAKE i \in DOMAIN t
  <2>1. CASE (i - n) \in DOMAIN e /\ t[i] = e[i - n]
    <3>1. i = n + (i - n)
      BY <1>1
    <3> QED
      BY <2>1, <3>1
  <2> QED
    BY <1>1, <2>1
<1>9. EvidenceEnds(e) /\ (EvidenceEnds(q) \/ EndAfter(e, 0)) => EvidenceEnds(t)
  BY <1>1, <1>2, <1>3, <1>4, <1>8 DEF EvidenceEnds
<1>10. EndsRestart(e) /\ (EndsRestart(q) \/ StartAfter(e, 0)) => EndsRestart(t)
  BY <1>1, <1>5, <1>6, <1>7, <1>8 DEF EndsRestart
<1>11. NoRefusal(q) /\ NoRefusal(e) => NoRefusal(t)
  BY <1>1, <1>8 DEF NoRefusal
<1>12. EndAfter(q, 0) \/ EndAfter(e, 0) => EndAfter(t, 0)
  BY <1>1 DEF EndAfter
<1> QED
  BY <1>9, <1>10, <1>11, <1>12 DEF t

-----------------------------------------------------------------------------
(* The steps of the client's users and timers.                             *)

\* The calls are told apart by their operation.
LEMMA CallOps ==
  /\ NoCall.op = "none" /\ CallInitialize.op = "initialize"
  /\ CallDeactivate.op = "deactivate" /\ \A k : CallActivate(k).op = "activate"
  /\ NoCall # CallDeactivate
  BY DEF NoCall, CallInitialize, CallDeactivate, CallActivate

\* A step that leaves the bus alone preserves LinuxPart if what it shows was
\* shown before, and what it does not show as a wait it does not wait for.
LEMMA QuietStep ==
  ASSUME LinuxInv, UNCHANGED linuxVars, ProfilesOnly', UnavailableIsQuiet',
         initPending' \/ state' = "Initializing" =>
           initPending \/ state = "Initializing",
         state' \in {"On", "OnPartial"} => state \in {"On", "OnPartial"},
         call' \in Call,
         call' = CallDeactivate \/ call' = call \/ call.op = "none",
         state' = "Disconnecting"
           \/ (state' = "ConnectionError" /\ error' # "NoServerAvailable" /\ backendAvailable')
         => \/ call' = CallDeactivate
            \/ call' = call /\ state' = state /\ error' = error
               /\ backendAvailable' = backendAvailable,
         state' = "Off" /\ queue' = <<>> =>
           \/ ~backendAvailable'
           \/ /\ state = "Off" /\ queue = <<>> /\ backendAvailable
              /\ call'.op = "activate" => call' = call
  PROVE  LinuxPart'
<1> USE DEF LinuxInv, LinuxPart
<1>1. BusTypeOK' /\ DaemonSound'
  BY DEF linuxVars, BusTypeOK, DaemonSound, daemonIdle, Service!NoConns, Service!None
<1>2. NewsIsOrdered'
  BY DEF linuxVars, NewsIsOrdered, daemonIdle, EvidenceEnds, EndsRestart, NoRefusal,
         EndAfter, StartAfter, Service!NoConns, Service!None
<1>3. OnIsOrEnds'
  BY DEF linuxVars, OnIsOrEnds, daemonIdle, EndAfter, Service!NoConns, Service!None
<1>4. OffIsIdleOr'
  BY DEF linuxVars, OffIsIdleOr, daemonIdle, NoActivate, UnavailableIsQuiet,
         Service!NoConns, Service!None
<1>5. EndIsUnderWay'
  BY DEF linuxVars, EndIsUnderWay, EndUnderWay
<1> QED
  BY <1>1, <1>2, <1>3, <1>4, <1>5

\* Controller::initialize().
LEMMA StartupPart ==
  ASSUME LinuxInv, startup
  PROVE  LinuxPart'
<1> USE DEF LinuxInv, LinuxPart
<1>0. UNCHANGED linuxVars /\ initialize /\ call = NoCall /\ state = "Initializing"
  BY DEF startup, Quietly, initialize, Idle
<1>1. ProfilesOnly'
  BY <1>0, CallOps DEF ProfilesOnly, initialize, attempt, environment
<1>2. UnavailableIsQuiet'
  BY <1>0, CallOps DEF UnavailableIsQuiet, initialize, NoActivate, linuxVars, attempt
<1>3. call' \in Call
  BY <1>0, NoCallType DEF initialize
<1> QED
  BY <1>0, <1>1, <1>2, <1>3, CallOps, QuietStep DEF initialize

\* activate() of a profile.
LEMMA ActivatePart ==
  ASSUME LinuxInv, userActivates
  PROVE  LinuxPart'
<1> USE DEF LinuxInv, LinuxPart
<1>0. PICK user \in Users, k \in Keys : Quietly(activateProfile(k, user))
  BY DEF userActivates
<1>1. /\ UNCHANGED linuxVars /\ call = NoCall /\ MayActivate
      /\ UNCHANGED <<nextStep, backendAvailable, initPending, exitKey, hasProfiles>>
  BY <1>0 DEF Quietly, activateProfile, Idle, backend, server, environment
<1>2. \/ /\ ~backendAvailable
         /\ error' = "NoServerAvailable" /\ state' = "ConnectionError"
         /\ UNCHANGED <<queue, call>>
      \/ UNCHANGED <<state, queue, call>> /\ backendAvailable /\ error' = "None"
      \/ /\ backendAvailable /\ error' = "None"
         /\ queue' = <<k>> /\ call' = CallActivate(k)
         /\ state' \in {state, "Confirming"}
  <2>1. Head(<<k>>) = k
    OBVIOUS
  <2> QED
    BY <1>0, <2>1 DEF Quietly, activateProfile, SetState, SubmitFirst, attempt
<1>3. (queue' # <<>> /\ Len(queue') <= 1) \/ queue' = queue
  <2>1. CASE queue' = <<k>>
    <3>1. Len(queue') = 1
      BY <2>1
    <3>2. queue' # <<>>
      BY <2>1
    <3> QED
      BY <3>1, <3>2
  <2> QED
    BY <1>2, <2>1
<1>4. ProfilesOnly'
  BY <1>1, <1>2, <1>3 DEF ProfilesOnly, CallActivate
<1>5. UnavailableIsQuiet'
  BY <1>1, <1>2, CallOps DEF UnavailableIsQuiet, NoActivate, linuxVars, MayActivate
<1>6. call' \in Call
  BY <1>1, <1>2, NoCallType DEF CallActivate, Call
<1>7. state' = "Disconnecting"
        \/ (state' = "ConnectionError" /\ error' # "NoServerAvailable" /\ backendAvailable')
      => FALSE
  BY <1>1, <1>2 DEF MayActivate
<1>8. state' = "Off" /\ queue' = <<>> /\ backendAvailable' =>
        /\ state = "Off" /\ queue = <<>> /\ backendAvailable
        /\ call'.op = "activate" => call' = call
  <2>1. <<k>> # <<>>
    OBVIOUS
  <2> QED
    BY <1>1, <1>2, <2>1 DEF MayActivate
<1> QED
  BY <1>1, <1>2, <1>4, <1>5, <1>6, <1>7, <1>8, CallOps, QuietStep DEF MayActivate

\* DeactivateActive(), which deactivate() and quit() share, shows StateOff only
\* where there is no backend, and otherwise calls the backend.
LEMMA DeactivateActivePart ==
  ASSUME LinuxInv, UNCHANGED linuxVars, DeactivateActive(handshakeTimer),
         call = NoCall, nextStep' \in {"None", "Quit"},
         UNCHANGED <<backendAvailable, initPending, exitKey, hasProfiles>>
  PROVE  LinuxPart'
<1> USE DEF LinuxInv, LinuxPart
<1>1. \/ /\ state = "ConnectionError" /\ error = "NoServerAvailable"
         /\ state' = "Off" /\ UNCHANGED <<error, queue, call>>
      \/ /\ \/ state' = "Disconnecting"
            \/ state' = state /\ state \in {"Switching", "SilentSwitching"}
         /\ queue' = <<>> /\ call' = CallDeactivate /\ error' = "None"
  <2>1. CASE state = "ConnectionError" /\ error = "NoServerAvailable"
    BY <2>1 DEF DeactivateActive, SetState
  <2>2. CASE ~(state = "ConnectionError" /\ error = "NoServerAvailable")
    <3>1. Deactivation(state)
      BY <2>2 DEF DeactivateActive
    <3>2. SetState(IF state \in {"Switching", "SilentSwitching"} THEN state
                                                               ELSE "Disconnecting")
      BY <3>1 DEF Deactivation
    <3>3. state' = IF state \in {"Switching", "SilentSwitching"} THEN state
                                                               ELSE "Disconnecting"
      BY <3>2 DEF SetState
    <3>4. queue' = <<>> /\ call' = CallDeactivate /\ error' = "None"
      BY <3>1 DEF Deactivation, ClearAttempt
    <3> QED
      BY <3>3, <3>4
  <2> QED
    BY <2>1, <2>2
<1>2. ProfilesOnly'
  BY <1>1, CallOps DEF ProfilesOnly
<1>3. UnavailableIsQuiet'
  BY <1>1, CallOps DEF UnavailableIsQuiet, NoActivate, linuxVars
<1>4. call' \in Call
  BY <1>1, NoCallType
<1>5. state' = "Off" => ~backendAvailable'
  BY <1>1 DEF UnavailableIsQuiet
<1> QED
  BY <1>1, <1>2, <1>3, <1>4, <1>5, CallOps, QuietStep

\* deactivate() of either user.
LEMMA DeactivatePart ==
  ASSUME LinuxInv, userDeactivates
  PROVE  LinuxPart'
<1>1. /\ UNCHANGED linuxVars /\ call = NoCall /\ DeactivateActive(handshakeTimer)
      /\ UNCHANGED <<nextStep, backendAvailable, initPending, exitKey, hasProfiles>>
  BY DEF userDeactivates, Quietly, deactivate, Idle, backend, server, environment
<1> QED
  BY <1>1, DeactivateActivePart DEF LinuxInv, LinuxPart, ProfilesOnly

\* quit().
LEMMA QuitPart ==
  ASSUME LinuxInv, userQuits
  PROVE  LinuxPart'
<1> USE DEF LinuxInv, LinuxPart
<1>1. /\ UNCHANGED linuxVars /\ call = NoCall
      /\ UNCHANGED <<backendAvailable, initPending, exitKey, hasProfiles>>
      /\ nextStep' \in {"None", "Quit"}
  BY DEF userQuits, Quietly, quit, Idle, backend, server, environment, ProfilesOnly
<1>2. CASE isActive /\ state # "Disconnecting"
  BY <1>1, <1>2, DeactivateActivePart DEF userQuits, Quietly, quit
<1>3. CASE ~(isActive /\ state # "Disconnecting")
  <2>1. UNCHANGED <<state, error, queue, call>>
    BY <1>3 DEF userQuits, Quietly, quit, attempt
  <2>2. ProfilesOnly' /\ UnavailableIsQuiet' /\ call' \in Call
    BY <1>1, <2>1, NoCallType DEF ProfilesOnly, UnavailableIsQuiet, NoActivate, linuxVars
  <2> QED
    BY <1>1, <2>1, <2>2, CallOps, QuietStep DEF UnavailableIsQuiet
<1> QED
  BY <1>2, <1>3

\* handshakeTimeout(), which with profiles gives up at once.
LEMMA TimeoutPart ==
  ASSUME LinuxInv, handshakeTimesOut
  PROVE  LinuxPart'
<1> USE DEF LinuxInv, LinuxPart
<1>1. /\ UNCHANGED linuxVars /\ call = NoCall /\ handshakeTimer
      /\ UNCHANGED <<backendAvailable, initPending, hasProfiles, exitKey, nextStep, queue>>
      /\ state' = "ConnectionError" /\ error' = "ServerTimeout" /\ call' = CallDeactivate
  BY DEF handshakeTimesOut, Quietly, handshakeTimeout, Idle, backend, environment,
         ProfilesOnly, SetState
<1>2. backendAvailable
  BY <1>1 DEF UnavailableIsQuiet, CtlInv, TimerHasHop
<1>3. ProfilesOnly' /\ UnavailableIsQuiet' /\ call' \in Call
  BY <1>1, <1>2, NoCallType, CallOps
     DEF ProfilesOnly, UnavailableIsQuiet, NoActivate, linuxVars
<1> QED
  BY <1>1, <1>3, CallOps, QuietStep DEF UnavailableIsQuiet

-----------------------------------------------------------------------------
(* The calls of LinuxController.                                           *)

\* The call a request stands for is on its way once the request is sent.
LEMMA CallPart ==
  ASSUME LinuxInv, NEW op, NEW request \in Request, Call_(op, request),
         request.op = "activate" <=> op = "activate",
         op = "deactivate" => request.op = "deactivate"
  PROVE  LinuxPart'
<1> USE DEF LinuxInv, LinuxPart
<1>0. /\ call.op = op /\ call' = NoCall /\ toDaemon' = Append(toDaemon, request)
      /\ UNCHANGED <<conns, serving, fromDaemon, stops, refused, overtaken>>
      /\ UNCHANGED <<state, error, nextStep, queue, backendAvailable, initPending,
                     exitKey, hasProfiles>>
  BY DEF Call_, implReturn, attempt, backend, server, environment
<1>1. /\ toDaemon \in Seq(Request) /\ toDaemon' \in Seq(Request)
      /\ \A i \in DOMAIN toDaemon : i \in DOMAIN toDaemon' /\ toDaemon'[i] = toDaemon[i]
      /\ Len(toDaemon) + 1 \in DOMAIN toDaemon' /\ toDaemon'[Len(toDaemon) + 1] = request
      /\ \A i \in DOMAIN toDaemon' :
           (i \in DOMAIN toDaemon /\ toDaemon'[i] = toDaemon[i]) \/ toDaemon'[i] = request
  BY <1>0 DEF BusTypeOK
<1>2. BusTypeOK' /\ ProfilesOnly' /\ DaemonSound'
  BY <1>0, <1>1, CallOps
     DEF BusTypeOK, ProfilesOnly, DaemonSound, daemonIdle, Service!NoConns, Service!None
<1>3. NoActivate => NoActivate'
  BY <1>0, <1>1, CallOps DEF NoActivate
<1>4. UnavailableIsQuiet' /\ OffIsIdleOr'
  BY <1>0, <1>3
     DEF UnavailableIsQuiet, OffIsIdleOr, daemonIdle, Service!NoConns, Service!None
<1>5. NewsIsOrdered' /\ OnIsOrEnds'
  BY <1>0 DEF NewsIsOrdered, OnIsOrEnds, daemonIdle, EvidenceEnds, EndsRestart,
              NoRefusal, EndAfter, StartAfter, Service!NoConns, Service!None
<1>6. EndUnderWay => EndUnderWay'
  BY <1>0, <1>1, CallOps DEF EndUnderWay
<1>7. EndIsUnderWay'
  BY <1>0, <1>6 DEF EndIsUnderWay
<1> QED
  BY <1>2, <1>4, <1>5, <1>7

-----------------------------------------------------------------------------
(* Replies and signals.                                                    *)

\* What taking a message from the bus does to the bus.
LEMMA ReceiveNews ==
  ASSUME LinuxInv, NEW evs, Receive(evs), overtaken' \in BOOLEAN
  PROVE  /\ BusTypeOK' /\ DaemonSound' /\ daemonIdle' = daemonIdle
         /\ call = NoCall /\ fromDaemon \in Seq(Event) /\ fromDaemon # <<>>
         /\ Head(fromDaemon) \in Event /\ Head(fromDaemon).ev \in evs
         /\ fromDaemon' = Tail(fromDaemon) /\ fromDaemon' \in Seq(Event)
         /\ UNCHANGED <<conns, serving, toDaemon, stops, refused>>
         /\ (initPending' \/ state' = "Initializing" =>
               initPending \/ state = "Initializing")
            => NewsIsOrdered'
         /\ EndAfter(fromDaemon, 0) /\ ~IsEnd(Head(fromDaemon)) => EndAfter(fromDaemon, 0)'
<1> USE DEF LinuxInv, LinuxPart
<1>0. /\ call = NoCall /\ fromDaemon # <<>> /\ Head(fromDaemon).ev \in evs
      /\ fromDaemon' = Tail(fromDaemon)
      /\ UNCHANGED <<conns, serving, toDaemon, stops, refused>>
  BY DEF Receive, Idle
<1>1. /\ fromDaemon \in Seq(Event) /\ Tail(fromDaemon) \in Seq(Event)
      /\ Head(fromDaemon) \in Event
  BY <1>0, TailElements DEF BusTypeOK
<1>2. BusTypeOK' /\ DaemonSound' /\ daemonIdle' = daemonIdle
  BY <1>0, <1>1 DEF BusTypeOK, DaemonSound, daemonIdle, Service!NoConns, Service!None
<1>3. EndAfter(fromDaemon, 0) /\ ~IsEnd(Head(fromDaemon)) => EndAfter(fromDaemon, 0)'
  BY <1>0, <1>1, NewsTail DEF EndAfter
<1>4. /\ EvidenceEnds(fromDaemon) => EvidenceEnds(fromDaemon')
      /\ EndsRestart(fromDaemon) => EndsRestart(fromDaemon')
      /\ NoRefusal(fromDaemon) => NoRefusal(fromDaemon')
  BY <1>0, <1>1, NewsTail
<1>5. ASSUME initPending' \/ state' = "Initializing" =>
               initPending \/ state = "Initializing"
      PROVE  NewsIsOrdered'
  BY <1>0, <1>2, <1>4, <1>5 DEF NewsIsOrdered, EvidenceEnds, EndsRestart, NoRefusal,
                               EndAfter, StartAfter
<1> QED
  BY <1>0, <1>1, <1>2, <1>3, <1>5

\* The answer to initialize() is the daemon's, or the daemon has refused.
LEMMA InitializedPart ==
  ASSUME LinuxInv, initializeCompleted
  PROVE  LinuxPart'
<1> USE DEF LinuxInv, LinuxPart
<1> DEFINE m == Head(fromDaemon)
<1>0. /\ Receive({"status"}) /\ overtaken' = overtaken /\ overtaken' \in BOOLEAN
      /\ implInitialized(~m.error, ~m.error /\ m.ok)
  BY DEF initializeCompleted, BusTypeOK
<1> HIDE DEF m
<1>1. /\ initPending /\ ~initPending' /\ call' = NoCall
      /\ backendAvailable' = ~m.error
      /\ state' = IF ~m.error /\ ~m.error /\ m.ok THEN "On" ELSE "Off"
      /\ UNCHANGED <<error, nextStep, queue, exitKey, hasProfiles>>
  BY <1>0 DEF implInitialized, MayInitialize, SetState, attempt, server, environment
<1>2. /\ BusTypeOK' /\ DaemonSound' /\ daemonIdle' = daemonIdle /\ NewsIsOrdered'
      /\ UNCHANGED <<conns, toDaemon, refused>>
      /\ m = Head(fromDaemon) /\ m = fromDaemon[1] /\ m \in Event /\ m.ev = "status"
      /\ fromDaemon \in Seq(Event) /\ fromDaemon # <<>> /\ fromDaemon' = Tail(fromDaemon)
      /\ 1 \in DOMAIN fromDaemon
  BY <1>0, <1>1, ReceiveNews DEF m
<1>3. ~backendAvailable /\ NoActivate /\ queue = <<>>
  BY <1>1 DEF UnavailableIsQuiet
<1>4. NoActivate' /\ queue' = <<>>
  BY <1>1, <1>2, <1>3, CallOps DEF NoActivate
<1>5. ProfilesOnly' /\ UnavailableIsQuiet' /\ EndIsUnderWay'
  BY <1>1, <1>4, CallOps DEF ProfilesOnly, UnavailableIsQuiet, EndIsUnderWay
<1>6. state' = "On" /\ daemonIdle => EndAfter(Tail(fromDaemon), 0)
  BY <1>1, <1>2, NewsTail DEF NewsIsOrdered, IsEvidence
<1>7. OnIsOrEnds'
  BY <1>1, <1>2, <1>6 DEF OnIsOrEnds, EndAfter
<1>8. state' = "Off" /\ backendAvailable' /\ ~daemonIdle => refused
  BY <1>1, <1>2 DEF NewsIsOrdered, NoRefusal, IsRefusal
<1>9. OffIsIdleOr'
  BY <1>2, <1>4, <1>8 DEF OffIsIdleOr
<1> QED
  BY <1>2, <1>5, <1>7, <1>9

\* What a report of an end leaves: StateOff, with the tunnel gone unless a call
\* was refused or the report has overtaken an activation.
LEMMA ReportEndPart ==
  ASSUME LinuxInv, NEW evs, Receive(evs), IsEnd(Head(fromDaemon)), ReportEnd
  PROVE  LinuxPart'
<1> USE DEF LinuxInv, LinuxPart
<1>0. /\ disconnected /\ overtaken' = (overtaken \/ ActivationUnderWay)
      /\ overtaken' \in BOOLEAN
  BY DEF ReportEnd, BusTypeOK
<1>1. /\ state' = "Off" /\ queue' = <<>> /\ call' = NoCall /\ nextStep' = "None"
      /\ UNCHANGED <<backendAvailable, initPending, exitKey, hasProfiles>>
  BY <1>0 DEF disconnected, SetState, ClearAttempt, ProfilesOnly, server, backend,
              environment
<1>2. /\ BusTypeOK' /\ DaemonSound' /\ daemonIdle' = daemonIdle /\ NewsIsOrdered'
      /\ fromDaemon \in Seq(Event) /\ fromDaemon # <<>>
      /\ UNCHANGED <<conns, toDaemon, refused>>
  BY <1>0, <1>1, ReceiveNews
<1>3. NoActivate' \/ overtaken'
  BY <1>0, <1>1, <1>2, CallOps DEF NoActivate, ActivationUnderWay
<1>4. StartAfter(fromDaemon, 1) => ActivationUnderWay
  BY <1>2 DEF StartAfter, IsStart, ActivationUnderWay
<1>5. EndsRestart(fromDaemon) => StartAfter(fromDaemon, 1)
  BY <1>2, NewsTail
<1>6. ~daemonIdle => refused \/ overtaken'
  BY <1>0, <1>4, <1>5 DEF NewsIsOrdered
<1>7. OffIsIdleOr'
  BY <1>2, <1>3, <1>6 DEF OffIsIdleOr
<1>8. NoActivate => NoActivate'
  BY <1>1, <1>2, CallOps DEF NoActivate
<1>9. ProfilesOnly' /\ UnavailableIsQuiet' /\ EndIsUnderWay' /\ OnIsOrEnds'
  BY <1>1, <1>8, CallOps
     DEF ProfilesOnly, UnavailableIsQuiet, EndIsUnderWay, OnIsOrEnds
<1> QED
  BY <1>2, <1>7, <1>9

\* A message that changes nothing was no end.
LEMMA IgnoredPart ==
  ASSUME LinuxInv, NEW evs, Receive(evs), ~IsEnd(Head(fromDaemon)),
         UNCHANGED <<ctlVars, overtaken>>
  PROVE  LinuxPart'
<1> USE DEF LinuxInv, LinuxPart
<1>0. /\ overtaken' \in BOOLEAN
      /\ UNCHANGED <<state, error, nextStep, queue, call, backendAvailable, initPending,
                     exitKey, hasProfiles, overtaken>>
  BY DEF ctlVars, BusTypeOK, attempt, backend, server, environment
<1>1. /\ BusTypeOK' /\ DaemonSound' /\ daemonIdle' = daemonIdle /\ NewsIsOrdered'
      /\ UNCHANGED <<conns, toDaemon, refused>>
      /\ EndAfter(fromDaemon, 0) => EndAfter(fromDaemon, 0)'
  BY <1>0, ReceiveNews
<1>2. NoActivate' = NoActivate
  BY <1>0, <1>1 DEF NoActivate
<1>3. ProfilesOnly' /\ UnavailableIsQuiet' /\ OffIsIdleOr' /\ OnIsOrEnds'
  BY <1>0, <1>1, <1>2 DEF ProfilesOnly, UnavailableIsQuiet, OffIsIdleOr, OnIsOrEnds
<1>4. fromDaemon \in Seq(Event)
  BY DEF BusTypeOK
<1>5. EndUnderWay => EndUnderWay'
  <2>1. \A q \in Seq(Event) : EndAfter(q, 0) <=> \E i \in DOMAIN q : IsEnd(q[i])
    BY DEF EndAfter
  <2>2. CASE \E i \in DOMAIN fromDaemon : IsEnd(fromDaemon[i])
    <3>1. EndAfter(fromDaemon, 0)'
      BY <1>1, <1>4, <2>1, <2>2
    <3> QED
      BY <3>1 DEF EndAfter, EndUnderWay, IsEnd
  <2>3. CASE call = CallDeactivate \/ \E i \in DOMAIN toDaemon : toDaemon[i].op = "deactivate"
    BY <1>0, <1>1, <2>3 DEF EndUnderWay
  <2> QED
    BY <2>2, <2>3 DEF EndUnderWay, IsEnd
<1>6. EndIsUnderWay'
  BY <1>0, <1>5 DEF EndIsUnderWay
<1> QED
  BY <1>1, <1>3, <1>6

\* The replies to activate() and deactivate().
LEMMA OperationPart ==
  ASSUME LinuxInv, operationCompleted
  PROVE  LinuxPart'
<1> DEFINE m == Head(fromDaemon)
<1>0. Receive({"activate", "deactivate"}) /\ m.ev \in {"activate", "deactivate"}
  BY DEF operationCompleted, Receive
<1>1. CASE IsFailure(m)
  <2>1. IsEnd(m) /\ ReportEnd
    BY <1>0, <1>1 DEF IsEnd, operationCompleted
  <2> QED
    BY <1>0, <2>1, ReportEndPart
<1>2. CASE ~IsFailure(m)
  <2>1. ~IsEnd(m) /\ UNCHANGED <<ctlVars, overtaken>>
    BY <1>0, <1>2 DEF IsEnd, operationCompleted
  <2> QED
    BY <1>0, <2>1, IgnoredPart
<1> QED
  BY <1>1, <1>2

\* connected() of the last hop is news of a tunnel.
LEMMA ConnectedPart ==
  ASSUME LinuxInv, dbusConnected
  PROVE  LinuxPart'
<1> USE DEF LinuxInv, LinuxPart
<1> DEFINE k == Head(fromDaemon).key
<1>0. /\ Receive({"connected"}) /\ overtaken' = overtaken /\ overtaken' \in BOOLEAN
      /\ IF Expected(k) THEN connected(k) ELSE UNCHANGED ctlVars
      /\ Head(fromDaemon).ev = "connected"
  BY DEF dbusConnected, Receive, BusTypeOK
<1>1. CASE ~Expected(k)
  <2>1. ~IsEnd(Head(fromDaemon)) /\ UNCHANGED <<ctlVars, overtaken>>
    BY <1>0, <1>1 DEF IsEnd
  <2> QED
    BY <1>0, <2>1, IgnoredPart
<1>2. CASE Expected(k)
  <2>1. Head(fromDaemon) \in Event
    BY <1>0, ReceiveNews
  <2>2. k \in Keys
    BY <1>0, <2>1 DEF Event
  <2>3. queue # <<>> /\ Len(queue) <= 1
    BY <1>2, <2>2, KeysAssumption DEF Expected, ProfilesOnly
  <2> HIDE DEF k
  <2>4. /\ AllHopsConnected
        /\ UNCHANGED <<nextStep, backendAvailable, initPending, exitKey, hasProfiles>>
    <3>1. ~(Len(queue) > 1)
      BY <2>3 DEF CtlInv, TypeOK
    <3> QED
      BY <1>0, <1>2, <3>1 DEF connected, backend, server, environment
  <2>5. /\ queue' = <<>>
        /\ \/ state' = "Disconnecting" /\ call' = CallDeactivate
           \/ state' \in {"On", "OnPartial"} /\ call' = call
    <3>1. ConnectedState \in {"On", "OnPartial"}
      BY DEF ConnectedState
    <3>2. CASE nextStep \in {"Quit", "Disconnect", "Update"}
      <4>1. Deactivation(ConnectedState)
        BY <2>4, <3>2 DEF AllHopsConnected
      <4> QED
        BY <3>1, <4>1 DEF Deactivation, SetState, ClearAttempt
    <3>3. CASE nextStep \notin {"Quit", "Disconnect", "Update"}
      <4>1. SetState(ConnectedState) /\ ClearAttempt /\ UNCHANGED call
        BY <2>4, <3>3 DEF AllHopsConnected
      <4> QED
        BY <3>1, <4>1 DEF SetState, ClearAttempt
    <3> QED
      BY <3>2, <3>3
  <2>6. backendAvailable /\ ~initPending
    BY <2>3 DEF UnavailableIsQuiet
  <2>7. /\ BusTypeOK' /\ DaemonSound' /\ daemonIdle' = daemonIdle /\ NewsIsOrdered'
        /\ fromDaemon \in Seq(Event) /\ fromDaemon # <<>> /\ fromDaemon' = Tail(fromDaemon)
        /\ call = NoCall
    BY <1>0, <2>4, <2>5, ReceiveNews
  <2>8. daemonIdle => EndAfter(Tail(fromDaemon), 0)
    BY <1>0, <2>7, NewsTail DEF NewsIsOrdered, IsEvidence
  <2>9. OnIsOrEnds'
    BY <2>5, <2>7, <2>8 DEF OnIsOrEnds, EndAfter
  <2>10. ProfilesOnly'
    BY <2>4, <2>5, <2>7, CallOps DEF ProfilesOnly
  <2>11. UnavailableIsQuiet' /\ OffIsIdleOr'
    BY <2>4, <2>5, <2>6 DEF UnavailableIsQuiet, OffIsIdleOr
  <2>12. EndIsUnderWay'
    BY <2>5 DEF EndIsUnderWay, EndUnderWay
  <2> QED
    BY <2>7, <2>9, <2>10, <2>11, <2>12
<1> QED
  BY <1>1, <1>2

-----------------------------------------------------------------------------
(* The daemon and the bus.                                                 *)

\* A daemon is idle or has the connection of a peer.
LEMMA IdleOrConnected ==
  ASSUME DaemonSound
  PROVE  /\ daemonIdle <=> conns[SingleHop] = Service!None
         /\ ~daemonIdle => conns[SingleHop] \in [server : Keys, told : BOOLEAN]
<1>1. conns = [h \in {SingleHop} |-> conns[h]]
  BY DEF DaemonSound
<1>2. Service!NoConns = [h \in {SingleHop} |-> Service!None]
  BY DEF Service!NoConns
<1>3. conns[SingleHop] = Service!None => daemonIdle
  BY <1>1, <1>2 DEF daemonIdle
<1>4. daemonIdle => conns[SingleHop] = Service!None
  BY <1>2 DEF daemonIdle
<1> QED
  BY <1>3, <1>4 DEF DaemonSound

\* The messages e that a step of the daemon sends keep the order of the news if
\* they tell of the end of the tunnel it takes down, or of the start of the one
\* it sets up.
LEMMA BusStep ==
  ASSUME LinuxInv, UNCHANGED <<ctlVars, overtaken>>,
         NEW e \in Seq(Event), fromDaemon' = fromDaemon \o e,
         serving' \in BOOLEAN, stops' \in 0 .. MaxStops, refused' \in BOOLEAN,
         toDaemon' \in Seq(Request), refused => refused', DaemonSound',
         \A i \in DOMAIN toDaemon' : \E j \in DOMAIN toDaemon : toDaemon'[i] = toDaemon[j],
         daemonIdle' => EvidenceEnds(e) /\ (daemonIdle \/ EndAfter(e, 0)),
         ~daemonIdle' => \/ refused' /\ ~daemonIdle
                         \/ ~daemonIdle /\ EndsRestart(e) /\ NoRefusal(e)
                         \/ ~NoActivate /\ EndsRestart(e) /\ StartAfter(e, 0),
         \A i \in DOMAIN toDaemon :
           toDaemon[i].op = "deactivate" =>
             EndAfter(e, 0) \/ \E j \in DOMAIN toDaemon' : toDaemon'[j].op = "deactivate"
  PROVE  LinuxPart'
<1> USE DEF LinuxInv, LinuxPart
<1>0. UNCHANGED <<state, error, nextStep, queue, call, backendAvailable, initPending,
                  exitKey, hasProfiles, overtaken>>
  BY DEF ctlVars, attempt, backend, server, environment
<1>1. fromDaemon \in Seq(Event) /\ fromDaemon' \in Seq(Event)
  BY JoinElements DEF BusTypeOK
<1>2. BusTypeOK' /\ ProfilesOnly'
  BY <1>0, <1>1 DEF BusTypeOK, ProfilesOnly
<1>3. NoActivate => NoActivate'
  BY <1>0 DEF NoActivate
<1>4. UnavailableIsQuiet'
  BY <1>0, <1>3 DEF UnavailableIsQuiet
<1>5. daemonIdle' => EvidenceEnds(fromDaemon)'
  <2>1. daemonIdle' => EvidenceEnds(fromDaemon \o e)
    BY <1>1, NewsJoined DEF NewsIsOrdered
  <2> QED
    BY <2>1 DEF EvidenceEnds, EndAfter
<1>6. daemonIdle' \/ refused' \/ EndsRestart(fromDaemon)'
  <2>1. daemonIdle' \/ refused' \/ EndsRestart(fromDaemon \o e)
    BY <1>1, NewsJoined DEF NewsIsOrdered
  <2> QED
    BY <2>1 DEF EndsRestart, StartAfter
<1>7. initPending' \/ state' = "Initializing" =>
        daemonIdle' \/ refused' \/ NoRefusal(fromDaemon)'
  <2> SUFFICES ASSUME initPending \/ state = "Initializing", ~daemonIdle', ~refused'
               PROVE  NoRefusal(fromDaemon)'
    BY <1>0
  <2>1. NoActivate
    BY DEF UnavailableIsQuiet
  <2>2. NoRefusal(fromDaemon) /\ NoRefusal(e)
    BY <2>1 DEF NewsIsOrdered
  <2>3. NoRefusal(fromDaemon \o e)
    BY <1>1, <2>2, NewsJoined
  <2> QED
    BY <2>3 DEF NoRefusal
<1>8. NewsIsOrdered'
  BY <1>5, <1>6, <1>7 DEF NewsIsOrdered
<1>9. EndAfter(fromDaemon, 0) \/ EndAfter(e, 0) => EndAfter(fromDaemon, 0)'
  <2>1. EndAfter(fromDaemon, 0) \/ EndAfter(e, 0) => EndAfter(fromDaemon \o e, 0)
    BY <1>1, NewsJoined
  <2> QED
    BY <2>1 DEF EndAfter
<1>10. OnIsOrEnds'
  BY <1>0, <1>9 DEF OnIsOrEnds
<1>11. OffIsIdleOr'
  BY <1>0, <1>3 DEF OffIsIdleOr
<1>12. \A q \in Seq(Event) : EndAfter(q, 0) <=> \E i \in DOMAIN q : IsEnd(q[i])
  BY DEF EndAfter
<1>13. EndAfter(fromDaemon, 0)' => EndUnderWay'
  BY DEF EndAfter, EndUnderWay, IsEnd
<1>14. EndUnderWay => EndUnderWay'
  <2>1. CASE \E i \in DOMAIN fromDaemon : IsEnd(fromDaemon[i])
    BY <1>1, <1>9, <1>12, <1>13, <2>1
  <2>2. CASE call = CallDeactivate
    BY <1>0, <2>2 DEF EndUnderWay
  <2>3. CASE \E i \in DOMAIN toDaemon : toDaemon[i].op = "deactivate"
    <3>1. EndAfter(e, 0) \/ \E j \in DOMAIN toDaemon' : toDaemon'[j].op = "deactivate"
      BY <2>3
    <3> QED
      BY <1>9, <1>13, <3>1 DEF EndUnderWay
  <2> QED
    BY <2>1, <2>2, <2>3 DEF EndUnderWay, IsEnd
<1>15. EndIsUnderWay'
  BY <1>0, <1>14 DEF EndIsUnderWay
<1> QED
  BY <1>2, <1>4, <1>8, <1>10, <1>11, <1>15

\* The news in a single message.
LEMMA OneMessage ==
  ASSUME NEW m \in Event
  PROVE  /\ <<m>> \in Seq(Event)
         /\ ~IsEvidence(m) => EvidenceEnds(<<m>>)
         /\ IsEnd(m) => EndAfter(<<m>>, 0)
         /\ ~IsEnd(m) => EndsRestart(<<m>>)
         /\ IsStart(m) => StartAfter(<<m>>, 0)
         /\ ~IsRefusal(m) => NoRefusal(<<m>>)
<1> DEFINE e == <<m>>
<1>1. e \in Seq(Event) /\ DOMAIN e = {1} /\ e[1] = m
  OBVIOUS
<1> HIDE DEF e
<1>2. /\ ~IsEvidence(m) => EvidenceEnds(e)
      /\ IsEnd(m) => EndAfter(e, 0)
      /\ ~IsEnd(m) => EndsRestart(e)
      /\ IsStart(m) => StartAfter(e, 0)
      /\ ~IsRefusal(m) => NoRefusal(e)
  BY <1>1 DEF EvidenceEnds, EndAfter, EndsRestart, StartAfter, NoRefusal
<1> QED
  BY <1>1, <1>2 DEF e

\* What the replies are taken for.
LEMMA Replies ==
  /\ \A ev \in {"status", "activate", "deactivate"} : \A ok \in BOOLEAN :
       /\ Reply(ev, ok) \in Event /\ Reply(ev, ok).ev = ev
       /\ ~Reply(ev, ok).error /\ Reply(ev, ok).ok = ok
  /\ \A r \in Request : /\ Error(r) \in Event /\ Error(r).ev = r.op
                        /\ Error(r).error /\ ~Error(r).ok
                        /\ r.op \in {"status", "activate", "deactivate"}
  /\ \A ev \in {"disconnected", "ownerLost"} : [ev |-> ev] \in Event
  /\ \A k \in Keys : [ev |-> "connected", key |-> k] \in Event
<1>1. \A ev \in {"status", "activate", "deactivate"} : \A ok \in BOOLEAN :
       /\ Reply(ev, ok) \in Event /\ Reply(ev, ok).ev = ev
       /\ ~Reply(ev, ok).error /\ Reply(ev, ok).ok = ok
  BY DEF Reply, Event
<1>2. \A r \in Request : r.op \in {"status", "activate", "deactivate"}
  BY DEF Request
<1>3. \A r \in Request : /\ Error(r) \in Event /\ Error(r).ev = r.op
                         /\ Error(r).error /\ ~Error(r).ok
  BY <1>2 DEF Error, Event
<1>4. \A ev \in {"disconnected", "ownerLost"} : [ev |-> ev] \in Event
  BY DEF Event
<1>5. \A k \in Keys : [ev |-> "connected", key |-> k] \in Event
  BY DEF Event
<1> QED
  BY <1>1, <1>2, <1>3, <1>4, <1>5

\* What is left once the daemon, or the bus, has taken a call.
LEMMA TakeCall ==
  ASSUME LinuxInv, toDaemon # <<>>, toDaemon' = Tail(toDaemon)
  PROVE  /\ Head(toDaemon) \in Request /\ toDaemon' \in Seq(Request)
         /\ \A i \in DOMAIN toDaemon' :
              \E j \in DOMAIN toDaemon : toDaemon'[i] = toDaemon[j]
         /\ Head(toDaemon).op = "activate" => ~NoActivate
         /\ Head(toDaemon).op # "deactivate" =>
              \A i \in DOMAIN toDaemon : toDaemon[i].op = "deactivate" =>
                \E j \in DOMAIN toDaemon' : toDaemon'[j].op = "deactivate"
<1>1. toDaemon \in Seq(Request)
  BY DEF LinuxInv, LinuxPart, BusTypeOK
<1>2. /\ Tail(toDaemon) \in Seq(Request)
      /\ Head(toDaemon) = toDaemon[1] /\ 1 \in DOMAIN toDaemon /\ Head(toDaemon) \in Request
      /\ \A i \in DOMAIN Tail(toDaemon) :
           i + 1 \in DOMAIN toDaemon /\ Tail(toDaemon)[i] = toDaemon[i + 1]
      /\ \A i \in DOMAIN toDaemon : i # 1 =>
           i - 1 \in DOMAIN Tail(toDaemon) /\ Tail(toDaemon)[i - 1] = toDaemon[i]
  BY <1>1, TailElements
<1>3. \A i \in DOMAIN toDaemon' : \E j \in DOMAIN toDaemon : toDaemon'[i] = toDaemon[j]
  BY <1>2
<1>4. Head(toDaemon).op = "activate" => ~NoActivate
  BY <1>2 DEF NoActivate
<1>5. ASSUME Head(toDaemon).op # "deactivate",
             NEW i \in DOMAIN toDaemon, toDaemon[i].op = "deactivate"
      PROVE  \E j \in DOMAIN toDaemon' : toDaemon'[j].op = "deactivate"
  BY <1>2, <1>5
<1> QED
  BY <1>2, <1>3, <1>4, <1>5

\* The daemon answers a status request, or refuses to.
LEMMA StatusPart ==
  ASSUME LinuxInv, daemonStatus
  PROVE  LinuxPart'
<1> USE DEF LinuxInv, LinuxPart
<1>0. /\ Take("status") /\ toDaemon # <<>> /\ toDaemon' = Tail(toDaemon)
      /\ Head(toDaemon).op = "status"
      /\ UNCHANGED <<ctlVars, serving, stops, overtaken, conns>>
  BY DEF daemonStatus, Take
<1>1. PICK ok \in {FALSE, ~daemonIdle} :
        /\ Send(<<Reply("status", ok)>>)
        /\ refused' = (refused \/ (~ok /\ ~daemonIdle))
  BY DEF daemonStatus
<1>2. ok \in BOOLEAN /\ (ok => ~daemonIdle) /\ refused' \in BOOLEAN
  BY <1>1 DEF BusTypeOK
<1> DEFINE m == Reply("status", ok)
<1>3. m \in Event /\ ~IsEnd(m) /\ (IsEvidence(m) => ok) /\ (IsRefusal(m) => ~ok)
  BY <1>2, Replies DEF IsEnd, IsEvidence, IsRefusal
<1>4. fromDaemon' = fromDaemon \o <<m>>
  BY <1>1 DEF Send
<1> HIDE DEF m
<1>5. DaemonSound' /\ daemonIdle' = daemonIdle
  BY <1>0 DEF DaemonSound, daemonIdle, Service!NoConns, Service!None
<1>6. daemonIdle' => EvidenceEnds(<<m>>)
  BY <1>2, <1>3, <1>5, OneMessage
<1>7. ~daemonIdle' => \/ refused' /\ ~daemonIdle
                      \/ ~daemonIdle /\ EndsRestart(<<m>>) /\ NoRefusal(<<m>>)
  BY <1>1, <1>2, <1>3, <1>5, OneMessage
<1>8. serving' \in BOOLEAN /\ stops' \in 0 .. MaxStops /\ (refused => refused')
  BY <1>0, <1>1 DEF BusTypeOK
<1>9. <<m>> \in Seq(Event)
  BY <1>3
<1> QED
  BY <1>0, <1>2, <1>4, <1>5, <1>6, <1>7, <1>8, <1>9, TakeCall, BusStep

\* The daemon sets up a connection, or fails to.
LEMMA DaemonActivatePart ==
  ASSUME LinuxInv, daemonActivate
  PROVE  LinuxPart'
<1> USE DEF LinuxInv, LinuxPart
<1> DEFINE k == Head(toDaemon).key
<1>0. /\ toDaemon # <<>> /\ toDaemon' = Tail(toDaemon) /\ Head(toDaemon).op = "activate"
      /\ UNCHANGED <<ctlVars, serving, stops, overtaken>> /\ serving
  BY DEF daemonActivate, Take
<1>1. Head(toDaemon) \in Request
  BY <1>0, TakeCall
<1>2. k \in Keys
  BY <1>0, <1>1 DEF Request
<1>3. serving' \in BOOLEAN /\ stops' \in 0 .. MaxStops
  BY <1>0 DEF BusTypeOK
<1>4. conns \in [{SingleHop} -> {Service!None} \cup [server : Keys, told : BOOLEAN]]
  BY DEF DaemonSound
<1>5. Service!NoConns \in [{SingleHop} -> {Service!None} \cup [server : Keys, told : BOOLEAN]]
  BY DEF Service!NoConns
<1>6. Service!Fresh(k) \in [server : Keys, told : BOOLEAN] /\ Service!Fresh(k) # Service!None
  BY <1>2, KeysAssumption DEF Service!Fresh, Service!None
<1>7. \A others \in {conns, Service!NoConns} :
        LET c == [others EXCEPT ![SingleHop] = Service!Fresh(k)]
        IN  /\ c \in [{SingleHop} -> {Service!None} \cup [server : Keys, told : BOOLEAN]]
            /\ c[SingleHop] = Service!Fresh(k)
  BY <1>4, <1>5, <1>6
<1>8. CASE Service!Activated(SingleHop, k) /\ Send(<<Reply("activate", TRUE)>>) /\ UNCHANGED refused
  <2>1. PICK others \in {conns, Service!NoConns} :
          conns' = [others EXCEPT ![SingleHop] = Service!Fresh(k)]
    BY <1>8 DEF Service!Activated
  <2>2. DaemonSound' /\ conns'[SingleHop] # Service!None
    BY <1>0, <1>6, <1>7, <2>1 DEF DaemonSound, daemonIdle, Service!None
  <2>3. ~daemonIdle'
    BY <2>2 DEF daemonIdle, Service!NoConns, Service!None
  <2> DEFINE m == Reply("activate", TRUE)
  <2>4. m \in Event /\ ~IsEnd(m) /\ IsStart(m)
    BY Replies DEF IsEnd, IsStart, IsFailure
  <2>5. fromDaemon' = fromDaemon \o <<m>>
    BY <1>8 DEF Send
  <2> HIDE DEF m
  <2>6. EndsRestart(<<m>>) /\ StartAfter(<<m>>, 0) /\ <<m>> \in Seq(Event)
    BY <2>4, OneMessage
  <2>7. refused' \in BOOLEAN /\ (refused => refused')
    BY <1>8 DEF BusTypeOK
  <2> QED
    BY <1>0, <1>3, <2>2, <2>3, <2>5, <2>6, <2>7, TakeCall, BusStep
<1>9. CASE /\ Service!NotActivated(SingleHop, k)
           /\ Send(<<Reply("activate", FALSE)>>)
           /\ refused' = (refused \/ conns' # Service!NoConns)
  <2>1. \/ conns' = conns \/ conns' = Service!NoConns
        \/ conns[SingleHop] # Service!None
           /\ conns' = [conns EXCEPT ![SingleHop] = Service!Fresh(k)]
    BY <1>9 DEF Service!NotActivated
  <2>2. DaemonSound'
    BY <1>0, <1>4, <1>5, <1>7, <2>1 DEF DaemonSound, daemonIdle, Service!None
  <2>3. daemonIdle' <=> conns' = Service!NoConns
    BY DEF daemonIdle, Service!NoConns, Service!None
  <2>4. daemonIdle => daemonIdle'
    BY <2>1, <2>3, IdleOrConnected DEF daemonIdle
  <2> DEFINE m == Reply("activate", FALSE)
  <2>5. m \in Event /\ IsEnd(m) /\ ~IsEvidence(m)
    BY Replies DEF IsEnd, IsEvidence, IsFailure
  <2>6. fromDaemon' = fromDaemon \o <<m>>
    BY <1>9 DEF Send
  <2> HIDE DEF m
  <2>7. EvidenceEnds(<<m>>) /\ EndAfter(<<m>>, 0) /\ <<m>> \in Seq(Event)
    BY <2>5, OneMessage
  <2>8. refused' \in BOOLEAN /\ (refused => refused') /\ (~daemonIdle' => refused')
    BY <1>9, <2>3 DEF BusTypeOK
  <2> QED
    BY <1>0, <1>3, <2>2, <2>4, <2>6, <2>7, <2>8, TakeCall, BusStep
<1> QED
  BY <1>8, <1>9 DEF daemonActivate

\* The daemon takes the tunnel down and tells so, or refuses to.
LEMMA DaemonDeactivatePart ==
  ASSUME LinuxInv, daemonDeactivate
  PROVE  LinuxPart'
<1> USE DEF LinuxInv, LinuxPart
<1>0. /\ toDaemon # <<>> /\ toDaemon' = Tail(toDaemon) /\ Head(toDaemon).op = "deactivate"
      /\ UNCHANGED <<ctlVars, serving, stops, overtaken>> /\ serving
      /\ serving' \in BOOLEAN /\ stops' \in 0 .. MaxStops
  BY DEF daemonDeactivate, Take, BusTypeOK
<1>1. CASE /\ Service!Deactivated
           /\ \E ok \in BOOLEAN :
                Send(<<[ev |-> "disconnected"], Reply("deactivate", ok)>>)
           /\ UNCHANGED refused
  <2>1. PICK ok \in BOOLEAN : Send(<<[ev |-> "disconnected"], Reply("deactivate", ok)>>)
    BY <1>1
  <2> DEFINE d == [ev |-> "disconnected"]
             m == Reply("deactivate", ok)
  <2>2. d \in Event /\ m \in Event /\ IsEnd(d) /\ ~IsEvidence(d) /\ ~IsEvidence(m)
    BY Replies DEF IsEnd, IsEvidence
  <2>3. fromDaemon' = fromDaemon \o <<d, m>>
    BY <2>1 DEF Send
  <2> HIDE DEF d, m
  <2> DEFINE e == <<d, m>>
  <2>4. e \in Seq(Event) /\ DOMAIN e = {1, 2} /\ e[1] = d /\ e[2] = m
    BY <2>2
  <2> HIDE DEF e
  <2>5. EvidenceEnds(e) /\ EndAfter(e, 0)
    BY <2>2, <2>4 DEF EvidenceEnds, EndAfter
  <2>6. conns' = Service!NoConns
    BY <1>1 DEF Service!Deactivated
  <2>7. DaemonSound' /\ daemonIdle'
    BY <2>6 DEF DaemonSound, daemonIdle, Service!NoConns, Service!None
  <2>8. refused' \in BOOLEAN /\ (refused => refused') /\ fromDaemon' = fromDaemon \o e
    BY <1>1, <2>3 DEF BusTypeOK, e
  <2> QED
    BY <1>0, <2>4, <2>5, <2>7, <2>8, TakeCall, BusStep
<1>2. CASE /\ UNCHANGED conns
           /\ Send(<<Reply("deactivate", FALSE)>>)
           /\ refused' = (refused \/ ~daemonIdle)
  <2> DEFINE m == Reply("deactivate", FALSE)
  <2>1. m \in Event /\ IsEnd(m) /\ ~IsEvidence(m)
    BY Replies DEF IsEnd, IsEvidence, IsFailure
  <2>2. fromDaemon' = fromDaemon \o <<m>>
    BY <1>2 DEF Send
  <2> HIDE DEF m
  <2>3. EvidenceEnds(<<m>>) /\ EndAfter(<<m>>, 0) /\ <<m>> \in Seq(Event)
    BY <2>1, OneMessage
  <2>4. DaemonSound' /\ daemonIdle' = daemonIdle
    BY <1>0, <1>2 DEF DaemonSound, daemonIdle, Service!NoConns, Service!None
  <2>5. refused' \in BOOLEAN /\ (refused => refused') /\ (~daemonIdle => refused')
    BY <1>2 DEF BusTypeOK
  <2> QED
    BY <1>0, <2>2, <2>3, <2>4, <2>5, TakeCall, BusStep
<1> QED
  BY <1>1, <1>2 DEF daemonDeactivate

\* The daemon announces the handshake of the connection it has.
LEMMA AnnouncePart ==
  ASSUME LinuxInv, daemonAnnounces
  PROVE  LinuxPart'
<1> USE DEF LinuxInv, LinuxPart
<1>0. /\ serving /\ Service!Announced({SingleHop})
      /\ Send(<<[ev |-> "connected", key |-> conns[SingleHop].server]>>)
      /\ UNCHANGED <<ctlVars, serving, toDaemon, stops, refused, overtaken>>
  BY DEF daemonAnnounces
<1>1. conns[SingleHop] # Service!None
  BY <1>0 DEF Service!Announced
<1>2. conns[SingleHop] \in [server : Keys, told : BOOLEAN] /\ ~daemonIdle
  BY <1>1, IdleOrConnected
<1>3. conns' = [h \in {SingleHop} |-> [conns[h] EXCEPT !.told = TRUE]]
  BY <1>0 DEF Service!Announced
<1>4. conns'[SingleHop] \in [server : Keys, told : BOOLEAN] /\ conns'[SingleHop].told
  BY <1>2, <1>3
<1>5. conns'[SingleHop] # Service!None
  BY <1>4 DEF Service!None
<1>6. DaemonSound' /\ ~daemonIdle'
  BY <1>0, <1>3, <1>4, <1>5 DEF DaemonSound, daemonIdle, Service!NoConns, Service!None
<1> DEFINE m == [ev |-> "connected", key |-> conns[SingleHop].server]
<1>7. m \in Event /\ ~IsEnd(m) /\ ~IsRefusal(m)
  BY <1>2, Replies DEF IsEnd, IsRefusal
<1>8. fromDaemon' = fromDaemon \o <<m>>
  BY <1>0 DEF Send
<1> HIDE DEF m
<1>9. EndsRestart(<<m>>) /\ NoRefusal(<<m>>) /\ <<m>> \in Seq(Event)
  BY <1>7, OneMessage
<1>10. /\ serving' \in BOOLEAN /\ stops' \in 0 .. MaxStops /\ refused' \in BOOLEAN
       /\ refused => refused'
       /\ toDaemon' \in Seq(Request) /\ toDaemon' = toDaemon
  BY <1>0 DEF BusTypeOK
<1> QED
  BY <1>0, <1>2, <1>6, <1>8, <1>9, <1>10, BusStep

\* The daemon stops, and the bus tells of it and answers the calls left.
LEMMA StopPart ==
  ASSUME LinuxInv, daemonStops
  PROVE  LinuxPart'
<1> USE DEF LinuxInv, LinuxPart
<1> DEFINE lost == [ev |-> "ownerLost"]
           errors == [i \in DOMAIN toDaemon |-> Error(toDaemon[i])]
           e == <<lost>> \o errors
<1>0. /\ stops < MaxStops /\ stops' = stops + 1 /\ serving' = FALSE
      /\ conns' = Service!NoConns /\ fromDaemon' = fromDaemon \o e
      /\ toDaemon' = <<>> /\ UNCHANGED <<ctlVars, refused, overtaken>>
  BY DEF daemonStops, Service!stop, Send
<1>1. toDaemon \in Seq(Request)
  BY DEF BusTypeOK
<1>2. errors \in Seq(Event) /\ DOMAIN errors = DOMAIN toDaemon
  BY <1>1, Replies
<1>3. \A i \in DOMAIN errors : errors[i].error
  BY <1>1, Replies
<1>4. lost \in Event /\ IsEnd(lost) /\ ~IsEvidence(lost)
  BY Replies DEF IsEnd, IsEvidence
<1> HIDE DEF lost, errors
<1>5. \A i \in DOMAIN errors : ~IsEvidence(errors[i])
  <2> TAKE i \in DOMAIN errors
  <2>1. errors[i] = Error(toDaemon[i]) /\ toDaemon[i] \in Request
    BY <1>1, <1>2 DEF errors
  <2>2. errors[i].ev # "connected"
    BY <2>1, Replies
  <2> QED
    BY <1>3, <2>2 DEF IsEvidence
<1>6. EvidenceEnds(errors)
  BY <1>5 DEF EvidenceEnds
<1>7. <<lost>> \in Seq(Event) /\ EvidenceEnds(<<lost>>) /\ EndAfter(<<lost>>, 0)
  BY <1>4, OneMessage
<1>8. e \in Seq(Event) /\ EvidenceEnds(e) /\ EndAfter(e, 0)
  BY <1>2, <1>6, <1>7, NewsJoined, JoinElements
<1> HIDE DEF e
<1>9. DaemonSound' /\ daemonIdle'
  BY <1>0 DEF DaemonSound, daemonIdle, Service!NoConns, Service!None
<1>10. /\ serving' \in BOOLEAN /\ stops' \in 0 .. MaxStops /\ refused' \in BOOLEAN
       /\ refused => refused'
  <2>1. MaxStops \in Nat
    BY LinuxAssumption
  <2>2. stops' \in 0 .. MaxStops
    BY <1>0, <2>1 DEF BusTypeOK
  <2> QED
    BY <1>0, <2>2 DEF BusTypeOK
<1>11. toDaemon' \in Seq(Request) /\ DOMAIN toDaemon' = {}
  BY <1>0
<1> QED
  BY <1>0, <1>8, <1>9, <1>10, <1>11, BusStep

\* The daemon starts, with no connection.
LEMMA StartPart ==
  ASSUME LinuxInv, daemonStarts
  PROVE  LinuxPart'
<1> USE DEF LinuxInv, LinuxPart
<1> DEFINE e == << >>
<1>0. /\ ~serving /\ serving' \in BOOLEAN /\ conns' = Service!NoConns
      /\ UNCHANGED <<ctlVars, toDaemon, fromDaemon, stops, refused, overtaken>>
  BY DEF daemonStarts, Service!start
<1>1. e \in Seq(Event) /\ DOMAIN e = {}
  OBVIOUS
<1>2. fromDaemon' = fromDaemon \o e
  BY <1>0 DEF BusTypeOK
<1> HIDE DEF e
<1>3. EvidenceEnds(e)
  BY <1>1 DEF EvidenceEnds
<1>4. daemonIdle
  BY <1>0 DEF DaemonSound
<1>5. DaemonSound' /\ daemonIdle'
  BY <1>0 DEF DaemonSound, daemonIdle, Service!NoConns, Service!None
<1>6. /\ stops' \in 0 .. MaxStops /\ refused' \in BOOLEAN /\ (refused => refused')
      /\ toDaemon' \in Seq(Request) /\ toDaemon' = toDaemon
  BY <1>0 DEF BusTypeOK
<1> QED
  BY <1>0, <1>1, <1>2, <1>3, <1>4, <1>5, <1>6, BusStep

\* The bus answers a call to a daemon that cannot be started.
LEMMA CallFailsPart ==
  ASSUME LinuxInv, callFails
  PROVE  LinuxPart'
<1> USE DEF LinuxInv, LinuxPart
<1>0. /\ ~serving /\ toDaemon # <<>> /\ toDaemon' = Tail(toDaemon)
      /\ Send(<<Error(Head(toDaemon))>>)
      /\ UNCHANGED <<ctlVars, conns, serving, stops, refused, overtaken>>
  BY DEF callFails
<1>1. Head(toDaemon) \in Request
  BY <1>0, TakeCall
<1> DEFINE m == Error(Head(toDaemon))
<1>2. m \in Event /\ ~IsEvidence(m) /\ (Head(toDaemon).op = "deactivate" => IsEnd(m))
  BY <1>1, Replies DEF IsEvidence, IsEnd, IsFailure
<1>3. fromDaemon' = fromDaemon \o <<m>>
  BY <1>0 DEF Send
<1> HIDE DEF m
<1>4. /\ <<m>> \in Seq(Event) /\ EvidenceEnds(<<m>>)
      /\ Head(toDaemon).op = "deactivate" => EndAfter(<<m>>, 0)
  BY <1>2, OneMessage
<1>5. DaemonSound' /\ daemonIdle /\ daemonIdle'
  BY <1>0 DEF DaemonSound, daemonIdle, Service!NoConns, Service!None
<1>6. /\ serving' \in BOOLEAN /\ stops' \in 0 .. MaxStops /\ refused' \in BOOLEAN
      /\ refused => refused'
  BY <1>0 DEF BusTypeOK
<1> QED
  BY <1>0, <1>3, <1>4, <1>5, <1>6, TakeCall, BusStep

-----------------------------------------------------------------------------

\* Every step of the Linux client is one of the controller with any backend,
\* or leaves the controller alone.
LEMMA LinuxIsController ==
  ASSUME LinuxInv, [LinuxNext]_vars
  PROVE  [CtlNext]_ctlVars
<1>1. CASE UNCHANGED vars
  BY <1>1 DEF vars
<1>2. CASE startup \/ userActivates \/ userDeactivates \/ userQuits \/ handshakeTimesOut
  BY <1>2, LinuxAssumption
     DEF startup, userActivates, userDeactivates, userQuits, handshakeTimesOut, Quietly,
         CtlNext, UserNext, TimerNext
<1>3. CASE implInitialize \/ implActivate \/ implDeactivate
  BY <1>3 DEF implInitialize, implActivate, implDeactivate, Call_, CtlNext, SignalNext
<1>4. CASE initializeCompleted
  <2>1. PICK s, c \in BOOLEAN : implInitialized(s, c)
    BY <1>4 DEF initializeCompleted
  <2> QED
    BY <2>1 DEF CtlNext, SignalNext
<1>5. CASE operationCompleted \/ dbusDisconnected \/ dbusNameOwnerChanged
  BY <1>5 DEF operationCompleted, dbusDisconnected, dbusNameOwnerChanged, ReportEnd,
              CtlNext, SignalNext
<1>6. CASE dbusConnected
  <2>1. Receive({"connected"}) /\ overtaken' \in BOOLEAN
    BY <1>6 DEF dbusConnected, LinuxInv, LinuxPart, BusTypeOK
  <2>2. Head(fromDaemon) \in Event /\ Head(fromDaemon).ev = "connected"
    BY <2>1, ReceiveNews
  <2>3. Head(fromDaemon).key \in Keys
    BY <2>2 DEF Event
  <2> QED
    BY <1>6, <2>3 DEF dbusConnected, CtlNext, SignalNext
<1>7. CASE DaemonNext
  BY <1>7 DEF DaemonNext, DaemonAnswers, daemonStatus, daemonActivate, daemonDeactivate,
              callFails, daemonAnnounces, daemonStops, daemonStarts, Take
<1> QED
  BY <1>1, <1>2, <1>3, <1>4, <1>5, <1>6, <1>7 DEF LinuxNext, BackendNext

\* The invariant holds initially, whatever the daemon has.
LEMMA LinuxInitInv == LinuxInit => LinuxInv
<1> SUFFICES ASSUME LinuxInit PROVE LinuxInv
  OBVIOUS
<1>1. CtlInv
  BY InitInv DEF LinuxInit
<1>2. /\ toDaemon \in Seq(Request) /\ fromDaemon \in Seq(Event)
      /\ DOMAIN toDaemon = {} /\ DOMAIN fromDaemon = {}
  BY DEF LinuxInit
<1>3. BusTypeOK
  <2>1. MaxStops \in Nat
    BY LinuxAssumption
  <2>2. stops \in 0 .. MaxStops
    BY <2>1 DEF LinuxInit
  <2> QED
    BY <1>2, <2>2 DEF LinuxInit, BusTypeOK
<1>4. ProfilesOnly
  <2>1. Len(queue) = 0
    BY DEF LinuxInit, Init
  <2> QED
    BY <2>1, LinuxAssumption, CallOps DEF LinuxInit, Init, ProfilesOnly
<1>5. DaemonSound
  BY DEF LinuxInit, DaemonSound, daemonIdle, Service!NoConns
<1>6. UnavailableIsQuiet
  BY <1>2, CallOps DEF LinuxInit, Init, UnavailableIsQuiet, NoActivate
<1>7. NewsIsOrdered
  BY <1>2 DEF NewsIsOrdered, EvidenceEnds, EndsRestart, NoRefusal
<1>8. OnIsOrEnds /\ OffIsIdleOr /\ EndIsUnderWay
  BY DEF LinuxInit, Init, OnIsOrEnds, OffIsIdleOr, EndIsUnderWay
<1> QED
  BY <1>1, <1>3, <1>4, <1>5, <1>6, <1>7, <1>8 DEF LinuxInv, LinuxPart

\* Every step preserves the invariant.
LEMMA LinuxNextInv == LinuxInv /\ [LinuxNext]_vars => LinuxInv'
<1> SUFFICES ASSUME LinuxInv, [LinuxNext]_vars PROVE LinuxInv'
  OBVIOUS
<1>1. CtlInv'
  BY LinuxIsController, NextInv DEF LinuxInv
<1>2. CASE UNCHANGED vars
  <2>1. /\ UNCHANGED linuxVars
        /\ UNCHANGED <<state, error, nextStep, queue, call, backendAvailable, initPending,
                       exitKey, hasProfiles>>
    BY <1>2 DEF vars, ctlVars, attempt, backend, server, environment
  <2>2. ProfilesOnly' /\ UnavailableIsQuiet' /\ call' \in Call
    BY <2>1 DEF ProfilesOnly, UnavailableIsQuiet, NoActivate, linuxVars, LinuxInv,
                LinuxPart, CtlInv, TypeOK
  <2>3. LinuxPart'
    BY <2>1, <2>2, QuietStep
  <2> QED
    BY <1>1, <2>3 DEF LinuxInv
<1>3. CASE implInitialize \/ implActivate \/ implDeactivate
  <2>1. CASE implInitialize
    <3>1. [op |-> "status"] \in Request
      BY DEF Request
    <3> QED
      BY <1>1, <2>1, <3>1, CallPart DEF implInitialize, LinuxInv
  <2>2. CASE implDeactivate
    <3>1. [op |-> "deactivate"] \in Request
      BY DEF Request
    <3> QED
      BY <1>1, <2>2, <3>1, CallPart DEF implDeactivate, LinuxInv
  <2>3. CASE implActivate
    <3>1. call.key \in Keys
      BY <2>3 DEF implActivate, Call_, LinuxInv, LinuxPart, ProfilesOnly
    <3>2. [op |-> "activate", key |-> call.key] \in Request
      BY <3>1 DEF Request
    <3> QED
      BY <1>1, <2>3, <3>2, CallPart DEF implActivate, LinuxInv
  <2> QED
    BY <1>3, <2>1, <2>2, <2>3
<1>4. CASE dbusDisconnected \/ dbusNameOwnerChanged
  <2>1. PICK evs \in {{"disconnected"}, {"ownerLost"}} : Receive(evs) /\ ReportEnd
    BY <1>4 DEF dbusDisconnected, dbusNameOwnerChanged
  <2>2. IsEnd(Head(fromDaemon))
    BY <2>1 DEF Receive, IsEnd
  <2> QED
    BY <1>1, <2>1, <2>2, ReportEndPart DEF LinuxInv
<1>5. CASE startup \/ userActivates \/ userDeactivates \/ userQuits \/ handshakeTimesOut
  BY <1>1, <1>5, StartupPart, ActivatePart, DeactivatePart, QuitPart, TimeoutPart
     DEF LinuxInv
<1>6. CASE initializeCompleted \/ operationCompleted \/ dbusConnected
  BY <1>1, <1>6, InitializedPart, OperationPart, ConnectedPart DEF LinuxInv
<1>7. CASE DaemonNext
  BY <1>1, <1>7, StatusPart, DaemonActivatePart, DaemonDeactivatePart, AnnouncePart,
     StopPart, StartPart, CallFailsPart DEF LinuxInv, DaemonNext, DaemonAnswers
<1> QED
  BY <1>2, <1>3, <1>4, <1>5, <1>6, <1>7 DEF LinuxNext, BackendNext

\* The inductive invariant of the Linux client holds in every reachable state.
THEOREM LinuxInvariant == LinuxSpec => []LinuxInv
  BY LinuxInitInv, LinuxNextInv, PTL DEF LinuxSpec

\* The controller's members, the daemon's connections and the messages on the
\* bus keep their types.
THEOREM LinuxTypes == LinuxSpec => []LinuxTypeOK
<1>1. LinuxInv => LinuxTypeOK
  <2> SUFFICES ASSUME LinuxInv PROVE LinuxTypeOK
    OBVIOUS
  <2>1. TypeOK /\ BusTypeOK
    BY DEF LinuxInv, LinuxPart, CtlInv
  <2>2. {Service!None} \cup [server : Keys, told : BOOLEAN]
          \subseteq [server : Keys \cup {NoKey}, told : BOOLEAN]
    <3>1. Service!None \in [server : Keys \cup {NoKey}, told : BOOLEAN]
      BY DEF Service!None
    <3>2. \A c \in [server : Keys, told : BOOLEAN] :
            c \in [server : Keys \cup {NoKey}, told : BOOLEAN]
      OBVIOUS
    <3> QED
      BY <3>1, <3>2
  <2>3. conns \in [{SingleHop} -> [server : Keys \cup {NoKey}, told : BOOLEAN]]
    BY <2>2 DEF LinuxInv, LinuxPart, DaemonSound
  <2> QED
    BY <2>1, <2>3 DEF LinuxTypeOK, BusTypeOK
<1> QED
  BY <1>1, LinuxInvariant, PTL

\* However many messages are under way and however often the daemon is
\* replaced, a controller that waits for disconnected() (StateDisconnecting, or
\* StateConnectionError after a timeout) has a report of the end to come.
THEOREM NoWaitWithoutEnd == LinuxSpec => []EndIsUnderWay
<1>1. LinuxInv => EndIsUnderWay
  BY DEF LinuxInv, LinuxPart
<1> QED
  BY <1>1, LinuxInvariant, PTL

\* StateOn is only shown over a tunnel, and StateOff over one only when a call
\* was refused or a repeated report has ended a younger attempt.
THEOREM ShownIsWhatDaemonHas == LinuxSpec => []ShownIsDaemons
<1>1. LinuxInv => ShownIsDaemons
  <2> SUFFICES ASSUME LinuxInv PROVE ShownIsDaemons
    OBVIOUS
  <2>1. OffIsIdleUnless
    BY DEF LinuxInv, LinuxPart, OffIsIdleOr, OffIsIdleUnless
  <2>2. fromDaemon = <<>> => ~EndAfter(fromDaemon, 0)
    BY DEF EndAfter
  <2>3. OnIsConnection
    BY <2>2 DEF LinuxInv, LinuxPart, OnIsOrEnds, OnIsConnection, Settled
  <2> QED
    BY <2>1, <2>3 DEF ShownIsDaemons
<1> QED
  BY <1>1, LinuxInvariant, PTL

=============================================================================
