----------------------- MODULE ControllerNetmgrProofs ------------------------
(***************************************************************************)
(* Proofs about the Flatpak client: with any users, any number of          *)
(* activations and any delay of NetworkManager, a disconnection is always  *)
(* answered, the poll timer has its device, and a late handshake never     *)
(* turns the client on; with a patient user of the client, what StateOff   *)
(* and StateOn say of the tunnel is true.                                  *)
(***************************************************************************)
EXTENDS ControllerNetmgr, ControllerProofs

\* With profiles the server data stay empty, attempts have one hop and no step
\* is deferred but that of quit() and of updateRequired().
ProfilesOnly ==
  /\ hasProfiles
  /\ nextStep \in {"None", "Quit", "Update"}
  /\ Len(queue) <= 1
  /\ exitKey = NoKey
  /\ call.op = "activate" => call.key \in Keys

\* What is under way before the first activation: the connection is added, and
\* the device of an earlier run may go.
ToQuiet(q) == \A i \in DOMAIN q : q[i].op = "add"
FromQuiet(q) == \A i \in DOMAIN q : q[i].ev \in {"added", "addFailed", "deviceRemoved"}

\* A device that is announced has an identity.
AddedReal(q) == \A i \in DOMAIN q : q[i].ev = "deviceAdded" => q[i].id # 0

\* A deactivation is asked for, is answered.
Asks(q) == \E i \in DOMAIN q : q[i].op = "deactivate"
Answers(q) == \E i \in DOMAIN q : q[i].ev = "deactivated"

\* Nothing was activated before the backend has answered initialize(), and
\* nothing was taken down.
UnavailableIsQuiet ==
  /\ initPending => state = "Initializing"
  /\ state = "Initializing" =>
       /\ ~backendAvailable /\ dev = NM!NoDevice
       /\ call.op \in {"none", "initialize"}
       /\ ToQuiet(toNM) /\ FromQuiet(fromNM)
  /\ ~backendAvailable => call.op # "activate" /\ queue = <<>> /\ ~waiting /\ ~pollTimer
  /\ state = "ConnectionError" /\ error = "NoServerAvailable" => ~backendAvailable

\* Only a real device has an identity.
DevicesSound ==
  /\ nmDev = NM!NoNMDevice \/ nmDev.id # 0
  /\ dev = NM!NoDevice \/ dev.id # 0
  /\ AddedReal(fromNM)

\* The traffic that is waited for is that of the peer asked for.
WaitHasPeer == waiting => serverKey \in Keys

\* DisconnectAnswered, whatever error the backend has reported since.
EndIsOwed ==
  state = "Disconnecting" \/ (state = "ConnectionError" /\ backendAvailable)
    => call = CallDeactivate \/ DeactivationInFlight

NetPart ==
  /\ NM!NetTypeOK
  /\ ProfilesOnly
  /\ UnavailableIsQuiet
  /\ DevicesSound
  /\ WaitHasPeer
  /\ PollHasDevice
  /\ EndIsOwed

NetInv == CtlInv /\ NetPart

-----------------------------------------------------------------------------
(* The steps of users and timers.                                          *)

\* The calls are told apart by their operation.
LEMMA CallOps ==
  /\ NoCall.op = "none" /\ CallInitialize.op = "initialize"
  /\ CallDeactivate.op = "deactivate" /\ \A k : CallActivate(k).op = "activate"
  /\ NoCall # CallDeactivate /\ CallInitialize # CallDeactivate
  BY DEF NoCall, CallInitialize, CallDeactivate, CallActivate

\* A step of the controller alone leaves the backend's part as it was.
LEMMA NetUnmoved ==
  ASSUME NetInv, UNCHANGED netVars
  PROVE  /\ NM!NetTypeOK' /\ DevicesSound' /\ WaitHasPeer' /\ PollHasDevice'
         /\ (DeactivationInFlight' <=> DeactivationInFlight)
         /\ UNCHANGED <<waiting, pollTimer, dev, toNM, fromNM>>
<1> USE DEF NetInv, NetPart, netVars
<1>1. NM!NetTypeOK'
  BY DEF NM!NetTypeOK
<1>2. DevicesSound' /\ WaitHasPeer' /\ PollHasDevice'
  BY DEF DevicesSound, AddedReal, WaitHasPeer, PollHasDevice, NM!NoNMDevice, NM!NoDevice
<1>3. DeactivationInFlight' <=> DeactivationInFlight
  BY DEF DeactivationInFlight
<1> QED
  BY <1>1, <1>2, <1>3

\* Controller::initialize().
LEMMA StartupPart ==
  ASSUME NetInv, startup
  PROVE  NetPart'
<1> USE DEF NetInv, NetPart
<1>0. UNCHANGED netVars /\ initialize
  BY DEF startup, Quietly
<1>1. /\ call' = CallInitialize /\ state = "Initializing" /\ ~backendAvailable'
      /\ initPending' /\ exitKey' = NoKey
      /\ UNCHANGED <<state, error, nextStep, queue, hasProfiles>>
  BY <1>0 DEF initialize, attempt, environment
<1>2. ProfilesOnly'
  BY <1>1, CallOps DEF ProfilesOnly
<1>3. UnavailableIsQuiet'
  BY <1>0, <1>1, NetUnmoved, CallOps DEF UnavailableIsQuiet, ToQuiet, FromQuiet, NM!NoDevice
<1>4. EndIsOwed'
  BY <1>1 DEF EndIsOwed
<1> QED
  BY <1>0, <1>2, <1>3, <1>4, NetUnmoved

\* activate() of a profile.
LEMMA ActivatePart ==
  ASSUME NetInv, userActivates
  PROVE  NetPart'
<1> USE DEF NetInv, NetPart
<1>0. PICK user \in Users, k \in Keys : Quietly(activateProfile(k, user))
  BY DEF userActivates
<1>1. /\ UNCHANGED netVars /\ call = NoCall /\ MayActivate
      /\ UNCHANGED <<nextStep, backendAvailable, initPending, exitKey, hasProfiles>>
  BY <1>0 DEF Quietly, activateProfile, Idle, backend, server, environment
<1>2. \/ /\ ~backendAvailable
         /\ error' = "NoServerAvailable" /\ state' = "ConnectionError"
         /\ UNCHANGED <<queue, call>>
      \/ UNCHANGED <<state, queue, call>> /\ backendAvailable /\ error' = "None"
      \/ /\ backendAvailable /\ error' = "None"
         /\ queue' = <<k>> /\ call' = CallActivate(k)
         /\ state' \in {state, "Confirming"}
  <2>1. Head(<<k>>) = k
    OBVIOUS
  <2> QED
    BY <1>0, <2>1 DEF Quietly, activateProfile, SetState, SubmitFirst, attempt
<1>3. Len(queue') <= 1
  <2>1. CASE queue' = <<k>>
    <3>1. Len(queue') = 1
      BY <2>1
    <3> QED
      BY <3>1
  <2> QED
    BY <1>2, <2>1 DEF ProfilesOnly
<1>4. ProfilesOnly'
  BY <1>1, <1>2, <1>3, CallOps DEF ProfilesOnly, CallActivate
<1>5. UnavailableIsQuiet'
  BY <1>1, <1>2, CallOps, NetUnmoved DEF UnavailableIsQuiet, ToQuiet, FromQuiet, MayActivate, NM!NoDevice
<1>6. EndIsOwed'
  BY <1>1, <1>2 DEF EndIsOwed, MayActivate
<1> QED
  BY <1>1, <1>4, <1>5, <1>6, NetUnmoved

\* DeactivateActive(), which deactivate(), quit() and updateRequired() share.
LEMMA DeactivateActivePart ==
  ASSUME NetInv, UNCHANGED netVars, DeactivateActive(handshakeTimer), isActive,
         nextStep' \in {"None", "Quit", "Update"},
         UNCHANGED <<backendAvailable, initPending, exitKey, hasProfiles>>
  PROVE  NetPart' /\ state' \notin {"On", "OnPartial"}
<1> USE DEF NetInv, NetPart
<1>1. \/ /\ state = "ConnectionError" /\ error = "NoServerAvailable"
         /\ state' = "Off" /\ UNCHANGED <<error, queue, call>>
      \/ /\ \/ state' = "Disconnecting"
            \/ state' = state /\ state \in {"Switching", "SilentSwitching"}
         /\ queue' = <<>> /\ call' = CallDeactivate /\ error' = "None"
  <2>1. CASE state = "ConnectionError" /\ error = "NoServerAvailable"
    BY <2>1 DEF DeactivateActive, SetState
  <2>2. CASE ~(state = "ConnectionError" /\ error = "NoServerAvailable")
    <3>1. Deactivation(state)
      BY <2>2 DEF DeactivateActive
    <3>2. state' = IF state \in {"Switching", "SilentSwitching"} THEN state
                                                               ELSE "Disconnecting"
      BY <3>1 DEF Deactivation, SetState
    <3>3. queue' = <<>> /\ call' = CallDeactivate /\ error' = "None"
      BY <3>1 DEF Deactivation, ClearAttempt
    <3> QED
      BY <3>2, <3>3
  <2> QED
    BY <2>1, <2>2
<1>2. Len(queue') <= 1
  BY <1>1 DEF ProfilesOnly
<1>3. ProfilesOnly'
  BY <1>1, <1>2, CallOps DEF ProfilesOnly
<1>4. UnavailableIsQuiet'
  BY <1>1, CallOps, NetUnmoved DEF UnavailableIsQuiet, ToQuiet, FromQuiet, isActive, NM!NoDevice
<1>5. EndIsOwed'
  BY <1>1 DEF EndIsOwed
<1> QED
  BY <1>1, <1>3, <1>4, <1>5, NetUnmoved

\* deactivate() of either user.
LEMMA DeactivatePart ==
  ASSUME NetInv, userDeactivates
  PROVE  NetPart' /\ state' \notin {"On", "OnPartial"}
<1>1. /\ UNCHANGED netVars /\ isActive /\ DeactivateActive(handshakeTimer)
      /\ UNCHANGED <<nextStep, backendAvailable, initPending, exitKey, hasProfiles>>
  BY DEF userDeactivates, Quietly, deactivate, backend, server, environment
<1> QED
  BY <1>1, DeactivateActivePart DEF NetInv, NetPart, ProfilesOnly

\* A step that changes nothing that the invariant speaks of but the next step.
LEMMA OnlyNextStepPart ==
  ASSUME NetInv, UNCHANGED netVars, nextStep' \in {"None", "Quit", "Update"},
         UNCHANGED <<state, error, queue, call, backendAvailable, initPending, exitKey,
                     hasProfiles>>
  PROVE  NetPart'
<1> USE DEF NetInv, NetPart
<1>1. ProfilesOnly'
  BY DEF ProfilesOnly
<1>2. UnavailableIsQuiet' /\ EndIsOwed'
  BY NetUnmoved DEF UnavailableIsQuiet, ToQuiet, FromQuiet, EndIsOwed, NM!NoDevice
<1> QED
  BY <1>1, <1>2, NetUnmoved

\* quit() and updateRequired(), which take the tunnel down or leave the next
\* step to the slot that ends what is under way.
LEMMA QuitPart ==
  ASSUME NetInv, userQuits \/ updateArrives
  PROVE  NetPart' /\ (state' \in {"On", "OnPartial"} => state' = state)
<1>1. /\ UNCHANGED netVars
      /\ UNCHANGED <<backendAvailable, initPending, exitKey, hasProfiles>>
      /\ nextStep' \in {"None", "Quit", "Update"}
  BY DEF userQuits, updateArrives, Quietly, quit, updateRequired, backend, server,
         environment, NetInv, NetPart, ProfilesOnly
<1>2. \/ isActive /\ DeactivateActive(handshakeTimer)
      \/ UNCHANGED <<state, error, queue, call>>
  BY DEF userQuits, updateArrives, Quietly, quit, updateRequired, attempt
<1> QED
  BY <1>1, <1>2, DeactivateActivePart, OnlyNextStepPart

\* handshakeTimeout(), which with profiles gives up at once.
LEMMA TimeoutPart ==
  ASSUME NetInv, handshakeTimesOut
  PROVE  NetPart' /\ state' = "ConnectionError"
<1> USE DEF NetInv, NetPart
<1>1. /\ UNCHANGED netVars /\ handshakeTimer
      /\ UNCHANGED <<backendAvailable, initPending, hasProfiles, exitKey, nextStep, queue>>
      /\ state' = "ConnectionError" /\ error' = "ServerTimeout" /\ call' = CallDeactivate
  BY DEF handshakeTimesOut, Quietly, handshakeTimeout, backend, environment,
         ProfilesOnly, SetState
<1>2. backendAvailable
  BY <1>1 DEF UnavailableIsQuiet, CtlInv, TimerHasHop
<1>3. ProfilesOnly'
  BY <1>1, CallOps DEF ProfilesOnly
<1>4. UnavailableIsQuiet' /\ EndIsOwed'
  BY <1>1, <1>2, CallOps DEF UnavailableIsQuiet, EndIsOwed
<1> QED
  BY <1>1, <1>3, <1>4, NetUnmoved

\* The confirming timer only enables a button.
LEMMA ConfirmingPart ==
  ASSUME NetInv, confirmingTimesOut
  PROVE  NetPart' /\ state' = state
<1>1. /\ UNCHANGED netVars
      /\ UNCHANGED <<state, error, nextStep, queue, call, backendAvailable, initPending,
                     exitKey, hasProfiles>>
  BY DEF confirmingTimesOut, Quietly, confirmingTimeout, attempt, backend, server,
         environment
<1>2. nextStep' \in {"None", "Quit", "Update"}
  BY <1>1 DEF NetInv, NetPart, ProfilesOnly
<1> QED
  BY <1>1, <1>2, OnlyNextStepPart

-----------------------------------------------------------------------------
(* Channels.                                                               *)

\* What is left of the messages once the first was taken.
LEMMA TailMessages ==
  ASSUME NEW S, NEW q \in Seq(S), q # <<>>
  PROVE  /\ Tail(q) \in Seq(S) /\ Head(q) \in S /\ Head(q) = q[1] /\ 1 \in DOMAIN q
         /\ \A i \in DOMAIN Tail(q) : i + 1 \in DOMAIN q /\ Tail(q)[i] = q[i + 1]
         /\ \A i \in DOMAIN q : i # 1 => i - 1 \in DOMAIN Tail(q) /\ Tail(q)[i - 1] = q[i]
  OBVIOUS

\* The messages with one more.
LEMMA AppendMessages ==
  ASSUME NEW S, NEW q \in Seq(S), NEW m \in S
  PROVE  /\ Append(q, m) \in Seq(S)
         /\ \A i \in DOMAIN q : i \in DOMAIN Append(q, m) /\ Append(q, m)[i] = q[i]
         /\ Len(q) + 1 \in DOMAIN Append(q, m) /\ Append(q, m)[Len(q) + 1] = m
         /\ \A i \in DOMAIN Append(q, m) :
              (i \in DOMAIN q /\ Append(q, m)[i] = q[i]) \/ Append(q, m)[i] = m
  OBVIOUS

\* The client takes a message.
LEMMA ReceiveMessage ==
  ASSUME NEW q \in Seq(NM!Event), q # <<>>
  PROVE  /\ Tail(q) \in Seq(NM!Event) /\ Head(q) \in NM!Event
         /\ FromQuiet(q) => FromQuiet(Tail(q)) /\ Head(q).ev \in {"added", "addFailed", "deviceRemoved"}
         /\ AddedReal(q) => AddedReal(Tail(q)) /\ (Head(q).ev = "deviceAdded" => Head(q).id # 0)
         /\ Head(q).ev # "deactivated" => (Answers(q) => Answers(Tail(q)))
<1> DEFINE t == Tail(q)
<1>1. /\ t \in Seq(NM!Event) /\ Head(q) \in NM!Event /\ Head(q) = q[1] /\ 1 \in DOMAIN q
      /\ \A i \in DOMAIN t : i + 1 \in DOMAIN q /\ t[i] = q[i + 1]
      /\ \A i \in DOMAIN q : i # 1 => i - 1 \in DOMAIN t /\ t[i - 1] = q[i]
  BY TailMessages
<1> HIDE DEF t
<1>2. FromQuiet(q) => FromQuiet(t) /\ Head(q).ev \in {"added", "addFailed", "deviceRemoved"}
  BY <1>1 DEF FromQuiet
<1>3. AddedReal(q) => AddedReal(t) /\ (Head(q).ev = "deviceAdded" => Head(q).id # 0)
  BY <1>1 DEF AddedReal
<1>4. Head(q).ev # "deactivated" => (Answers(q) => Answers(t))
  BY <1>1 DEF Answers
<1> QED
  BY <1>1, <1>2, <1>3, <1>4 DEF t

\* NetworkManager takes a request.
LEMMA TakeRequest ==
  ASSUME NEW q \in Seq(NM!Request), q # <<>>
  PROVE  /\ Tail(q) \in Seq(NM!Request) /\ Head(q) \in NM!Request
         /\ ToQuiet(q) => ToQuiet(Tail(q)) /\ Head(q).op = "add"
         /\ Head(q).op # "deactivate" => (Asks(q) => Asks(Tail(q)))
<1> DEFINE t == Tail(q)
<1>1. /\ t \in Seq(NM!Request) /\ Head(q) \in NM!Request /\ Head(q) = q[1] /\ 1 \in DOMAIN q
      /\ \A i \in DOMAIN t : i + 1 \in DOMAIN q /\ t[i] = q[i + 1]
      /\ \A i \in DOMAIN q : i # 1 => i - 1 \in DOMAIN t /\ t[i - 1] = q[i]
  BY TailMessages
<1> HIDE DEF t
<1>2. ToQuiet(q) => ToQuiet(t) /\ Head(q).op = "add"
  BY <1>1 DEF ToQuiet
<1>3. Head(q).op # "deactivate" => (Asks(q) => Asks(t))
  BY <1>1 DEF Asks
<1> QED
  BY <1>1, <1>2, <1>3 DEF t

\* NetworkManager sends a message.
LEMMA SendMessage ==
  ASSUME NEW q \in Seq(NM!Event), NEW m \in NM!Event
  PROVE  /\ Append(q, m) \in Seq(NM!Event)
         /\ FromQuiet(q) /\ m.ev \in {"added", "addFailed", "deviceRemoved"}
              => FromQuiet(Append(q, m))
         /\ AddedReal(q) /\ (m.ev = "deviceAdded" => m.id # 0) => AddedReal(Append(q, m))
         /\ Answers(q) \/ m.ev = "deactivated" => Answers(Append(q, m))
<1> DEFINE t == Append(q, m)
           n == Len(q) + 1
<1>1. /\ t \in Seq(NM!Event)
      /\ \A i \in DOMAIN q : i \in DOMAIN t /\ t[i] = q[i]
      /\ n \in DOMAIN t /\ t[n] = m
      /\ \A i \in DOMAIN t : (i \in DOMAIN q /\ t[i] = q[i]) \/ t[i] = m
  BY AppendMessages
<1> HIDE DEF t, n
<1>2. FromQuiet(q) /\ m.ev \in {"added", "addFailed", "deviceRemoved"} => FromQuiet(t)
  BY <1>1 DEF FromQuiet
<1>3. AddedReal(q) /\ (m.ev = "deviceAdded" => m.id # 0) => AddedReal(t)
  BY <1>1 DEF AddedReal
<1>4. Answers(q) \/ m.ev = "deactivated" => Answers(t)
  BY <1>1 DEF Answers
<1> QED
  BY <1>1, <1>2, <1>3, <1>4 DEF t

\* The client sends a request.
LEMMA SendRequest ==
  ASSUME NEW q \in Seq(NM!Request), NEW r \in NM!Request
  PROVE  /\ Append(q, r) \in Seq(NM!Request)
         /\ ToQuiet(q) /\ r.op = "add" => ToQuiet(Append(q, r))
         /\ Asks(q) \/ r.op = "deactivate" => Asks(Append(q, r))
<1> DEFINE t == Append(q, r)
           n == Len(q) + 1
<1>1. /\ t \in Seq(NM!Request)
      /\ \A i \in DOMAIN q : i \in DOMAIN t /\ t[i] = q[i]
      /\ n \in DOMAIN t /\ t[n] = r
      /\ \A i \in DOMAIN t : (i \in DOMAIN q /\ t[i] = q[i]) \/ t[i] = r
  BY AppendMessages
<1> HIDE DEF t, n
<1>2. ToQuiet(q) /\ r.op = "add" => ToQuiet(t)
  BY <1>1 DEF ToQuiet
<1>3. Asks(q) \/ r.op = "deactivate" => Asks(t)
  BY <1>1 DEF Asks
<1> QED
  BY <1>1, <1>2, <1>3 DEF t

-----------------------------------------------------------------------------
(* The calls of the controller.                                            *)

\* What the devices inside NetworkManager and in the client are.
LEMMA SnapshotSound ==
  ASSUME NM!NetTypeOK, DevicesSound
  PROVE  /\ NM!Snapshot \in NM!Device
         /\ NM!Snapshot.id = nmDev.id /\ NM!Snapshot.ac = nmDev.ac
         /\ NM!Snapshot = NM!NoDevice \/ NM!Snapshot.id # 0
<1>1. nmDev \in NM!NMDevice
  BY DEF NM!NetTypeOK
<1>2. NM!Snapshot \in NM!Device
  BY <1>1 DEF NM!Snapshot, NM!Device, NM!NMDevice
<1>3. NM!Snapshot.id = nmDev.id /\ NM!Snapshot.ac = nmDev.ac
  BY DEF NM!Snapshot
<1>4. nmDev = NM!NoNMDevice => NM!Snapshot = NM!NoDevice
  BY DEF NM!NoNMDevice, NM!Snapshot, NM!NoDevice
<1> QED
  BY <1>2, <1>3, <1>4 DEF DevicesSound

\* The controller learns that the backend is ready, or is not.
LEMMA InitializedPart ==
  ASSUME NetInv, NEW s \in BOOLEAN, NEW c \in BOOLEAN, implInitialized(s, c),
         NM!NetTypeOK', DevicesSound', UNCHANGED <<waiting, pollTimer, serverKey>>
  PROVE  NetPart' /\ state = "Initializing"
<1> USE DEF NetInv, NetPart
<1>1. /\ initPending /\ ~initPending' /\ call' = NoCall
      /\ state' \in {"On", "Off"}
      /\ UNCHANGED <<error, nextStep, queue, exitKey, hasProfiles>>
  BY DEF implInitialized, MayInitialize, SetState, attempt, server, environment
<1>2. /\ state = "Initializing" /\ ~backendAvailable
      /\ ~waiting /\ ~pollTimer /\ queue = <<>>
  BY <1>1 DEF UnavailableIsQuiet
<1>3. ProfilesOnly' /\ UnavailableIsQuiet' /\ EndIsOwed'
  BY <1>1, <1>2, CallOps DEF ProfilesOnly, UnavailableIsQuiet, EndIsOwed
<1>4. WaitHasPeer' /\ PollHasDevice'
  BY <1>2 DEF WaitHasPeer, PollHasDevice
<1> QED
  BY <1>2, <1>3, <1>4

\* initCompleted() keeps types and devices.
LEMMA InitCompletedSound ==
  ASSUME NetInv, NM!initCompleted, fromNM' \in Seq(NM!Event), AddedReal(fromNM')
  PROVE  NM!NetTypeOK' /\ DevicesSound' /\ UNCHANGED <<waiting, pollTimer, serverKey>>
<1> USE DEF NetInv, NetPart
<1>1. /\ remote' = TRUE /\ dev' = NM!Snapshot
      /\ UNCHANGED <<waiting, baseline, pollTimer, serverKey, toNM, nmExists, nmKey, nmDev,
                     lastId>>
  BY DEF NM!initCompleted, NM!nmVars
<1>2. NM!Snapshot \in NM!Device /\ (NM!Snapshot = NM!NoDevice \/ NM!Snapshot.id # 0)
  BY SnapshotSound
<1>3. NM!NetTypeOK'
  BY <1>1, <1>2 DEF NM!NetTypeOK
<1>4. DevicesSound'
  BY <1>1, <1>2 DEF DevicesSound, AddedReal, NM!NoNMDevice, NM!NoDevice
<1> QED
  BY <1>1, <1>3, <1>4

\* The call into the backend returns and the rest of the controller stays.
LEMMA ReturnPart ==
  ASSUME NetInv, implReturn, NM!NetTypeOK', DevicesSound', WaitHasPeer', PollHasDevice',
         state = "Initializing" => dev' = dev /\ ToQuiet(toNM') /\ FromQuiet(fromNM'),
         ~backendAvailable => UNCHANGED <<waiting, pollTimer>>,
         call = CallDeactivate \/ DeactivationInFlight => DeactivationInFlight'
  PROVE  NetPart' /\ state' = state
<1> USE DEF NetInv, NetPart
<1>1. /\ call' = NoCall
      /\ UNCHANGED <<state, error, nextStep, queue, backendAvailable, initPending, exitKey,
                     hasProfiles>>
  BY DEF implReturn, attempt, backend, server, environment
<1>2. ProfilesOnly' /\ EndIsOwed'
  BY <1>1, CallOps DEF ProfilesOnly, EndIsOwed
<1>3. UnavailableIsQuiet'
  BY <1>1, CallOps DEF UnavailableIsQuiet, ToQuiet, FromQuiet, NM!NoDevice
<1> QED
  BY <1>1, <1>2, <1>3

\* initialize() of the backend.
LEMMA ImplInitializePart ==
  ASSUME NetInv, implInitialize
  PROVE  NetPart' /\ (state' = state \/ state = "Initializing")
<1> USE DEF NetInv, NetPart
<1>0. fromNM \in Seq(NM!Event) /\ toNM \in Seq(NM!Request) /\ AddedReal(fromNM)
  BY DEF NM!NetTypeOK, DevicesSound
<1>1. CASE NM!initializeFails /\ implInitialized(FALSE, FALSE)
  <2>1. UNCHANGED netVars
    BY <1>1 DEF NM!initializeFails, NM!netVars, NM!clientVars, NM!nmVars, netVars
  <2>2. UNCHANGED <<waiting, pollTimer, serverKey>>
    BY <2>1 DEF netVars
  <2> QED
    BY <1>1, <2>1, <2>2, NetUnmoved, InitializedPart
<1>2. CASE NM!initCompleted /\ UNCHANGED fromNM /\ implInitialized(TRUE, NM!IsConnected)
  <2>1. NM!NetTypeOK' /\ DevicesSound' /\ UNCHANGED <<waiting, pollTimer, serverKey>>
    BY <1>0, <1>2, InitCompletedSound
  <2>2. NM!IsConnected \in BOOLEAN
    BY DEF NM!IsConnected
  <2> QED
    BY <1>2, <2>1, <2>2, InitializedPart
<1>3. CASE call = CallInitialize /\ NM!initializeAdds /\ implReturn
  <2>1. /\ toNM' = Append(toNM, [op |-> "add"])
        /\ UNCHANGED <<remote, dev, waiting, baseline, pollTimer, serverKey, fromNM,
                       nmExists, nmKey, nmDev, lastId>>
    BY <1>3 DEF NM!initializeAdds, NM!Send, NM!clientVars, NM!nmVars
  <2> DEFINE r == [op |-> "add"]
  <2>2. r \in NM!Request /\ r.op = "add"
    BY DEF NM!Request
  <2>3. toNM' = Append(toNM, r)
    BY <2>1
  <2> HIDE DEF r
  <2>4. /\ toNM' \in Seq(NM!Request) /\ (ToQuiet(toNM) => ToQuiet(toNM'))
        /\ Asks(toNM) => Asks(toNM')
    BY <1>0, <2>2, <2>3, SendRequest
  <2>5. NM!NetTypeOK'
    BY <2>1, <2>4 DEF NM!NetTypeOK
  <2>6. DevicesSound' /\ WaitHasPeer' /\ PollHasDevice'
    BY <2>1 DEF DevicesSound, AddedReal, WaitHasPeer, PollHasDevice, NM!NoNMDevice, NM!NoDevice
  <2>7. DeactivationInFlight => DeactivationInFlight'
    BY <2>1, <2>4 DEF DeactivationInFlight, Asks
  <2>8. state = "Initializing" => dev' = dev /\ ToQuiet(toNM') /\ FromQuiet(fromNM')
    BY <2>1, <2>4 DEF UnavailableIsQuiet
  <2>9. UNCHANGED <<waiting, pollTimer>> /\ call # CallDeactivate
    BY <1>3, <2>1, CallOps
  <2> QED
    BY <1>3, <2>5, <2>6, <2>7, <2>8, <2>9, ReturnPart
<1> QED
  BY <1>1, <1>2, <1>3 DEF implInitialize

\* activate() of the backend.
LEMMA ImplActivatePart ==
  ASSUME NetInv, implActivate
  PROVE  NetPart' /\ state' = state
<1> USE DEF NetInv, NetPart
<1>0. fromNM \in Seq(NM!Event) /\ toNM \in Seq(NM!Request)
  BY DEF NM!NetTypeOK
<1> DEFINE k == call.key
           r == [op |-> "update", key |-> k]
<1>1. /\ implReturn /\ call.op = "activate" /\ k \in Keys
      /\ waiting' = TRUE /\ baseline' = 0 /\ serverKey' = k /\ toNM' = Append(toNM, r)
      /\ UNCHANGED <<remote, dev, pollTimer, fromNM, nmExists, nmKey, nmDev, lastId>>
  BY DEF implActivate, NM!activate, NM!Send, NM!nmVars, ProfilesOnly
<1>2. r \in NM!Request
  BY <1>1 DEF NM!Request
<1> HIDE DEF r, k
<1>3. toNM' \in Seq(NM!Request) /\ (Asks(toNM) => Asks(toNM'))
  BY <1>0, <1>1, <1>2, SendRequest
<1>4. backendAvailable /\ state # "Initializing" /\ call # CallDeactivate
  BY <1>1, CallOps DEF UnavailableIsQuiet
<1>5. 0 \in 0 .. MaxRx
  <2>1. MaxRx \in Nat
    BY NetmgrAssumption
  <2> QED
    BY <2>1
<1>6. NM!NetTypeOK'
  BY <1>1, <1>3, <1>5 DEF NM!NetTypeOK
<1>7. DevicesSound' /\ WaitHasPeer' /\ PollHasDevice'
  BY <1>1 DEF DevicesSound, AddedReal, WaitHasPeer, PollHasDevice, NM!NoNMDevice, NM!NoDevice
<1>8. DeactivationInFlight => DeactivationInFlight'
  BY <1>1, <1>3 DEF DeactivationInFlight, Asks
<1> QED
  BY <1>1, <1>4, <1>6, <1>7, <1>8, ReturnPart

\* disconnected() ends what is under way and shows StateOff.
LEMMA DisconnectedPart ==
  ASSUME NetInv, disconnected, NM!NetTypeOK', DevicesSound', WaitHasPeer', PollHasDevice',
         state # "Initializing",
         ~backendAvailable => ~waiting' /\ ~pollTimer'
  PROVE  NetPart' /\ state' = "Off"
<1> USE DEF NetInv, NetPart
<1>1. /\ state' = "Off" /\ queue' = <<>> /\ call' = NoCall /\ nextStep' = "None"
      /\ UNCHANGED <<backendAvailable, initPending, exitKey, hasProfiles>>
  BY DEF disconnected, SetState, ClearAttempt, ProfilesOnly, server, backend, environment
<1>2. ProfilesOnly' /\ UnavailableIsQuiet' /\ EndIsOwed'
  BY <1>1, CallOps DEF ProfilesOnly, UnavailableIsQuiet, EndIsOwed
<1> QED
  BY <1>1, <1>2

\* deactivate() of the backend.
LEMMA ImplDeactivatePart ==
  ASSUME NetInv, implDeactivate
  PROVE  NetPart' /\ (state' = state \/ state' = "Off")
<1> USE DEF NetInv, NetPart
<1>0. fromNM \in Seq(NM!Event) /\ toNM \in Seq(NM!Request) /\ call = CallDeactivate
  BY DEF NM!NetTypeOK, implDeactivate
<1>1. state # "Initializing"
  BY <1>0, CallOps DEF UnavailableIsQuiet
<1>2. CASE disconnected /\ UNCHANGED netVars
  BY <1>1, <1>2, NetUnmoved, DisconnectedPart DEF UnavailableIsQuiet
<1>3. CASE NM!deactivate /\ implReturn
  <2> DEFINE r == [op |-> "deactivate", ac |-> dev.ac]
  <2>1. /\ toNM' = Append(toNM, r)
        /\ UNCHANGED <<remote, dev, waiting, baseline, pollTimer, serverKey, fromNM,
                       nmExists, nmKey, nmDev, lastId>>
    BY <1>3 DEF NM!deactivate, NM!Send, NM!clientVars, NM!nmVars
  <2>2. dev \in NM!Device
    BY DEF NM!NetTypeOK
  <2>3. r \in NM!Request /\ r.op = "deactivate"
    BY <2>2 DEF NM!Request, NM!Device
  <2> HIDE DEF r
  <2>4. toNM' \in Seq(NM!Request) /\ Asks(toNM')
    BY <1>0, <2>1, <2>3, SendRequest
  <2>5. NM!NetTypeOK'
    BY <2>1, <2>4 DEF NM!NetTypeOK
  <2>6. DevicesSound' /\ WaitHasPeer' /\ PollHasDevice'
    BY <2>1 DEF DevicesSound, AddedReal, WaitHasPeer, PollHasDevice, NM!NoNMDevice, NM!NoDevice
  <2>7. DeactivationInFlight'
    BY <2>4 DEF DeactivationInFlight, Asks
  <2> QED
    BY <1>1, <1>3, <2>1, <2>5, <2>6, <2>7, ReturnPart
<1> QED
  BY <1>2, <1>3 DEF implDeactivate

-----------------------------------------------------------------------------
(* Replies, signals and the poll timer.                                    *)

\* What taking a message leaves.
LEMMA ReceivePart ==
  ASSUME NetInv, NEW ev, NM!Receive(ev)
  PROVE  /\ fromNM' \in Seq(NM!Event) /\ Head(fromNM) \in NM!Event
         /\ Head(fromNM).ev = ev /\ AddedReal(fromNM')
         /\ FromQuiet(fromNM) => FromQuiet(fromNM') /\ ev \in {"added", "addFailed", "deviceRemoved"}
         /\ ev = "deviceAdded" => Head(fromNM).id # 0
         /\ ev # "deactivated" => (Answers(fromNM) => Answers(fromNM'))
<1>1. /\ fromNM # <<>> /\ Head(fromNM).ev = ev /\ fromNM' = Tail(fromNM)
      /\ fromNM \in Seq(NM!Event) /\ AddedReal(fromNM)
  BY DEF NM!Receive, NetInv, NetPart, NM!NetTypeOK, DevicesSound
<1> QED
  BY <1>1, ReceiveMessage

\* The answer to AddConnection2.
LEMMA InitReplyPart ==
  ASSUME NetInv, initReply
  PROVE  NetPart' /\ state = "Initializing"
<1> USE DEF NetInv, NetPart
<1>1. CASE NM!addCompleted /\ implInitialized(TRUE, NM!IsConnected)
  <2>1. NM!Receive("added") /\ NM!initCompleted
    BY <1>1 DEF NM!addCompleted
  <2>2. NM!NetTypeOK' /\ DevicesSound' /\ UNCHANGED <<waiting, pollTimer, serverKey>>
    BY <2>1, ReceivePart, InitCompletedSound
  <2>3. NM!IsConnected \in BOOLEAN
    BY DEF NM!IsConnected
  <2> QED
    BY <1>1, <2>2, <2>3, InitializedPart
<1>2. CASE NM!dbusInitError /\ implInitialized(nmExists, nmExists /\ NM!IsConnected)
  <2>1. NM!Receive("addFailed")
    BY <1>2 DEF NM!dbusInitError
  <2>2. NM!NetTypeOK' /\ DevicesSound' /\ UNCHANGED <<waiting, pollTimer, serverKey>>
    <3>1. CASE nmExists
      <4>1. NM!initCompleted
        BY <1>2, <3>1 DEF NM!dbusInitError
      <4> QED
        BY <2>1, <4>1, ReceivePart, InitCompletedSound
    <3>2. CASE ~nmExists
      <4>1. UNCHANGED <<remote, dev, waiting, baseline, pollTimer, serverKey, toNM,
                        nmExists, nmKey, nmDev, lastId>>
        BY <1>2, <3>2 DEF NM!dbusInitError, NM!clientVars, NM!nmVars
      <4>2. fromNM' \in Seq(NM!Event) /\ AddedReal(fromNM')
        BY <2>1, ReceivePart
      <4>3. NM!NetTypeOK'
        BY <4>1, <4>2 DEF NM!NetTypeOK
      <4>4. DevicesSound'
        BY <4>1, <4>2 DEF DevicesSound, AddedReal, NM!NoNMDevice, NM!NoDevice
      <4> QED
        BY <4>1, <4>3, <4>4
    <3> QED
      BY <3>1, <3>2
  <2>3. nmExists \in BOOLEAN /\ (nmExists /\ NM!IsConnected) \in BOOLEAN
    BY DEF NM!NetTypeOK
  <2> QED
    BY <1>2, <2>2, <2>3, InitializedPart
<1> QED
  BY <1>1, <1>2 DEF initReply

\* A message that leaves the controller's state alone keeps the invariant, if it
\* keeps the backend's part and is no answer to a deactivation.
LEMMA NewsPart ==
  ASSUME NetInv, NM!NetTypeOK', DevicesSound', WaitHasPeer', PollHasDevice',
         UNCHANGED <<state, nextStep, queue, call, backendAvailable, initPending, exitKey,
                     hasProfiles>>,
         error' = error \/ error' = "Fatal",
         state = "Initializing" => dev' = dev /\ ToQuiet(toNM') /\ FromQuiet(fromNM'),
         ~backendAvailable => ~waiting' /\ ~pollTimer',
         Asks(toNM) => Asks(toNM') \/ Answers(fromNM'),
         Answers(fromNM) => Answers(fromNM')
  PROVE  NetPart'
<1> USE DEF NetInv, NetPart
<1>1. ProfilesOnly'
  BY DEF ProfilesOnly
<1>2. UnavailableIsQuiet'
  BY DEF UnavailableIsQuiet, ToQuiet, FromQuiet, NM!NoDevice
<1>3. DeactivationInFlight => DeactivationInFlight'
  BY DEF DeactivationInFlight, Asks, Answers
<1>4. EndIsOwed'
  BY <1>3 DEF EndIsOwed
<1> QED
  BY <1>1, <1>2, <1>4

\* The rest of the backend's part when only the messages change.
LEMMA ChannelsPart ==
  ASSUME NetInv, fromNM' \in Seq(NM!Event), toNM' \in Seq(NM!Request), AddedReal(fromNM'),
         UNCHANGED <<remote, dev, waiting, baseline, pollTimer, serverKey, nmExists, nmKey,
                     nmDev, lastId>>
  PROVE  NM!NetTypeOK' /\ DevicesSound' /\ WaitHasPeer' /\ PollHasDevice'
<1> USE DEF NetInv, NetPart
<1>1. NM!NetTypeOK'
  BY DEF NM!NetTypeOK
<1>2. DevicesSound' /\ WaitHasPeer' /\ PollHasDevice'
  BY DEF DevicesSound, AddedReal, WaitHasPeer, PollHasDevice, NM!NoNMDevice, NM!NoDevice
<1> QED
  BY <1>1, <1>2

\* backendFailure() changes the error only.
LEMMA BackendErrorPart ==
  ASSUME NetInv, backendError
  PROVE  NetPart' /\ state' = state
<1> USE DEF NetInv, NetPart
<1>1. /\ NM!Receive("failed") /\ error' = "Fatal"
      /\ UNCHANGED <<state, nextStep, queue, call, backendAvailable, initPending, exitKey,
                     hasProfiles>>
      /\ UNCHANGED <<remote, dev, waiting, baseline, pollTimer, serverKey, toNM,
                     nmExists, nmKey, nmDev, lastId>>
  BY DEF backendError, NM!dbusBackendError, handleBackendFailure, attempt, backend, server,
         environment, NM!clientVars, NM!nmVars
<1>2. /\ fromNM' \in Seq(NM!Event) /\ AddedReal(fromNM')
      /\ (Answers(fromNM) => Answers(fromNM')) /\ ~FromQuiet(fromNM)
  BY <1>1, ReceivePart
<1>3. toNM' \in Seq(NM!Request) /\ (Asks(toNM) => Asks(toNM'))
  BY <1>1 DEF NM!NetTypeOK
<1>4. state # "Initializing" /\ (~backendAvailable => ~waiting' /\ ~pollTimer')
  BY <1>1, <1>2 DEF UnavailableIsQuiet
<1>5. NM!NetTypeOK' /\ DevicesSound' /\ WaitHasPeer' /\ PollHasDevice'
  BY <1>1, <1>2, <1>3, ChannelsPart
<1> QED
  BY <1>1, <1>2, <1>3, <1>4, <1>5, NewsPart

\* The reply to DeactivateConnection, and the removal of the client's device.
LEMMA TunnelEndsPart ==
  ASSUME NetInv, tunnelEnds
  PROVE  NetPart' /\ state' = "Off"
<1> USE DEF NetInv, NetPart
<1>0. toNM \in Seq(NM!Request) /\ disconnected
  BY DEF NM!NetTypeOK, tunnelEnds
<1>1. CASE NM!deactivateFinished
  <2>1. /\ NM!Receive("deactivated")
        /\ UNCHANGED <<remote, dev, waiting, baseline, pollTimer, serverKey, toNM,
                       nmExists, nmKey, nmDev, lastId>>
    BY <1>1 DEF NM!deactivateFinished, NM!clientVars, NM!nmVars
  <2>2. fromNM' \in Seq(NM!Event) /\ AddedReal(fromNM') /\ ~FromQuiet(fromNM)
    BY <2>1, ReceivePart
  <2>3. NM!NetTypeOK' /\ DevicesSound' /\ WaitHasPeer' /\ PollHasDevice'
    BY <1>0, <2>1, <2>2, ChannelsPart
  <2>4. state # "Initializing" /\ (~backendAvailable => ~waiting' /\ ~pollTimer')
    BY <2>1, <2>2 DEF UnavailableIsQuiet
  <2> QED
    BY <1>0, <2>3, <2>4, DisconnectedPart
<1>2. CASE NM!deviceRemoved
  <2>1. /\ NM!Receive("deviceRemoved") /\ dev # NM!NoDevice
        /\ pollTimer' = FALSE /\ waiting' = FALSE /\ dev' = NM!NoDevice
        /\ UNCHANGED <<remote, baseline, serverKey, toNM, nmExists, nmKey, nmDev, lastId>>
    BY <1>2 DEF NM!deviceRemoved, NM!IsOurDevice, NM!nmVars
  <2>2. fromNM' \in Seq(NM!Event) /\ AddedReal(fromNM')
    BY <2>1, ReceivePart
  <2>3. NM!NoDevice \in NM!Device
    <3>1. 0 \in NM!Ids
      <4>1. MaxActivations \in Nat
        BY NetmgrAssumption
      <4> QED
        BY <4>1 DEF NM!Ids
    <3> QED
      BY <3>1 DEF NM!NoDevice, NM!Device, NM!DeviceState
  <2>4. NM!NetTypeOK'
    BY <2>1, <2>2, <2>3 DEF NM!NetTypeOK
  <2>5. DevicesSound' /\ WaitHasPeer' /\ PollHasDevice'
    BY <2>1, <2>2 DEF DevicesSound, AddedReal, WaitHasPeer, PollHasDevice, NM!NoNMDevice,
                      NM!NoDevice
  <2>6. state # "Initializing"
    BY <2>1 DEF UnavailableIsQuiet
  <2> QED
    BY <1>0, <2>1, <2>4, <2>5, <2>6, DisconnectedPart
<1> QED
  BY <1>1, <1>2 DEF tunnelEnds

\* deviceStateChanged() with the new cached device d.
LEMMA DeviceChangedPart ==
  ASSUME NetInv, NEW d \in NM!Device, d.id # 0, dev' = d, NM!deviceStateChanged(d),
         fromNM' \in Seq(NM!Event), AddedReal(fromNM'),
         UNCHANGED <<remote, serverKey, toNM, nmExists, nmKey, nmDev, lastId>>
  PROVE  /\ NM!NetTypeOK' /\ DevicesSound' /\ WaitHasPeer' /\ PollHasDevice'
         /\ waiting' => waiting
         /\ pollTimer' => pollTimer \/ waiting
<1> USE DEF NetInv, NetPart
<1>1. /\ pollTimer' = ((pollTimer \/ (NM!ComesUp(d) /\ waiting)) /\ ~NM!GoesDown(d))
      /\ waiting' = (waiting /\ ~NM!GoesDown(d))
      /\ baseline' \in {nmDev.rx, 0, baseline}
  BY DEF NM!deviceStateChanged
<1>2. waiting \in BOOLEAN /\ pollTimer \in BOOLEAN
  BY DEF NM!NetTypeOK
<1>3. /\ waiting' \in BOOLEAN /\ pollTimer' \in BOOLEAN
      /\ waiting' => waiting
      /\ pollTimer' => pollTimer \/ waiting
      /\ (pollTimer => waiting) => (pollTimer' => waiting')
  BY <1>1, <1>2
<1>4. baseline' \in 0 .. MaxRx
  <2>1. MaxRx \in Nat
    BY NetmgrAssumption
  <2>2. nmDev.rx \in 0 .. MaxRx /\ baseline \in 0 .. MaxRx
    BY DEF NM!NetTypeOK, NM!NMDevice
  <2>3. 0 \in 0 .. MaxRx
    BY <2>1
  <2> QED
    BY <1>1, <2>2, <2>3
<1>5. NM!NetTypeOK'
  BY <1>3, <1>4 DEF NM!NetTypeOK
<1>6. DevicesSound'
  BY DEF DevicesSound, AddedReal, NM!NoNMDevice, NM!NoDevice
<1>7. WaitHasPeer' /\ PollHasDevice'
  BY <1>3 DEF WaitHasPeer, PollHasDevice
<1> QED
  BY <1>3, <1>5, <1>6, <1>7

\* Messages about settings and devices that do not end the tunnel.
LEMMA DeviceNewsPart ==
  ASSUME NetInv, deviceNews
  PROVE  NetPart' /\ state' = state
<1> USE DEF NetInv, NetPart
<1>0. /\ toNM \in Seq(NM!Request)
      /\ UNCHANGED <<state, error, nextStep, queue, call, backendAvailable, initPending,
                     exitKey, hasProfiles>>
  BY DEF NM!NetTypeOK, deviceNews, ctlVars, attempt, backend, server, environment
<1>1. CASE NM!peerCompleted
  <2> DEFINE r == [op |-> "activate"]
  <2>1. /\ NM!Receive("updated") /\ toNM' = Append(toNM, r)
        /\ UNCHANGED <<remote, dev, waiting, baseline, pollTimer, serverKey,
                       nmExists, nmKey, nmDev, lastId>>
    BY <1>1 DEF NM!peerCompleted, NM!Send, NM!clientVars, NM!nmVars
  <2>2. r \in NM!Request
    BY DEF NM!Request
  <2> HIDE DEF r
  <2>3. toNM' \in Seq(NM!Request) /\ (Asks(toNM) => Asks(toNM'))
    BY <1>0, <2>1, <2>2, SendRequest
  <2>4. /\ fromNM' \in Seq(NM!Event) /\ AddedReal(fromNM')
        /\ (Answers(fromNM) => Answers(fromNM')) /\ ~FromQuiet(fromNM)
    BY <2>1, ReceivePart
  <2>5. state # "Initializing" /\ (~backendAvailable => ~waiting' /\ ~pollTimer')
    BY <2>1, <2>4 DEF UnavailableIsQuiet
  <2>6. NM!NetTypeOK' /\ DevicesSound' /\ WaitHasPeer' /\ PollHasDevice'
    BY <2>1, <2>3, <2>4, ChannelsPart
  <2> QED
    BY <1>0, <2>3, <2>4, <2>5, <2>6, NewsPart
<1>2. CASE NM!otherDeviceRemoved
  <2>1. /\ NM!Receive("deviceRemoved")
        /\ UNCHANGED <<remote, dev, waiting, baseline, pollTimer, serverKey, toNM,
                       nmExists, nmKey, nmDev, lastId>>
    BY <1>2 DEF NM!otherDeviceRemoved, NM!clientVars, NM!nmVars
  <2>2. /\ fromNM' \in Seq(NM!Event) /\ AddedReal(fromNM')
        /\ (Answers(fromNM) => Answers(fromNM')) /\ (FromQuiet(fromNM) => FromQuiet(fromNM'))
    BY <2>1, ReceivePart
  <2>3. NM!NetTypeOK' /\ DevicesSound' /\ WaitHasPeer' /\ PollHasDevice'
    BY <1>0, <2>1, <2>2, ChannelsPart
  <2>4. /\ state = "Initializing" => dev' = dev /\ ToQuiet(toNM') /\ FromQuiet(fromNM')
        /\ ~backendAvailable => ~waiting' /\ ~pollTimer'
    BY <2>1, <2>2 DEF UnavailableIsQuiet
  <2> QED
    BY <1>0, <2>1, <2>2, <2>3, <2>4, NewsPart
<1>3. CASE NM!deviceAdded
  <2>1. /\ NM!Receive("deviceAdded")
        /\ UNCHANGED <<remote, serverKey, toNM, nmExists, nmKey, nmDev, lastId>>
    BY <1>3 DEF NM!deviceAdded, NM!nmVars
  <2>2. /\ fromNM' \in Seq(NM!Event) /\ AddedReal(fromNM') /\ Head(fromNM).id # 0
        /\ (Answers(fromNM) => Answers(fromNM')) /\ ~FromQuiet(fromNM)
    BY <2>1, ReceivePart
  <2>3. state # "Initializing"
    BY <2>2 DEF UnavailableIsQuiet
  <2>4. CASE Head(fromNM).id = nmDev.id
    <3>1. dev' = NM!Snapshot /\ NM!deviceStateChanged(NM!Snapshot)
      BY <1>3, <2>4 DEF NM!deviceAdded
    <3>2. NM!Snapshot \in NM!Device /\ NM!Snapshot.id # 0
      BY <2>2, <2>4, SnapshotSound
    <3>3. /\ NM!NetTypeOK' /\ DevicesSound' /\ WaitHasPeer' /\ PollHasDevice'
          /\ waiting' => waiting
          /\ pollTimer' => pollTimer \/ waiting
      BY <2>1, <2>2, <3>1, <3>2, DeviceChangedPart
    <3>4. ~backendAvailable => ~waiting' /\ ~pollTimer'
      BY <3>3 DEF UnavailableIsQuiet
    <3> QED
      BY <1>0, <2>1, <2>2, <2>3, <3>3, <3>4, NewsPart
  <2>5. CASE Head(fromNM).id # nmDev.id
    <3>1. UNCHANGED <<dev, baseline, pollTimer, waiting>>
      BY <1>3, <2>5 DEF NM!deviceAdded
    <3>2. NM!NetTypeOK' /\ DevicesSound' /\ WaitHasPeer' /\ PollHasDevice'
      BY <1>0, <2>1, <2>2, <3>1, ChannelsPart
    <3>3. ~backendAvailable => ~waiting' /\ ~pollTimer'
      BY <3>1 DEF UnavailableIsQuiet
    <3> QED
      BY <1>0, <2>1, <2>2, <2>3, <3>2, <3>3, NewsPart
  <2> QED
    BY <2>4, <2>5
<1>4. CASE NM!dbusStateChanged
  <2> DEFINE e == Head(fromNM)
             d == [id |-> e.id, st |-> e.st, ac |-> e.ac]
  <2>1. /\ NM!Receive("state")
        /\ UNCHANGED <<remote, serverKey, toNM, nmExists, nmKey, nmDev, lastId>>
    BY <1>4 DEF NM!dbusStateChanged, NM!nmVars
  <2>2. /\ fromNM' \in Seq(NM!Event) /\ AddedReal(fromNM')
        /\ (Answers(fromNM) => Answers(fromNM')) /\ ~FromQuiet(fromNM)
        /\ e \in NM!Event /\ e.ev = "state"
    BY <2>1, ReceivePart
  <2>3. state # "Initializing"
    BY <2>2 DEF UnavailableIsQuiet
  <2>4. d \in NM!Device /\ d.id = e.id
    BY <2>2 DEF NM!Event, NM!Device
  <2>5. CASE NM!IsOurDevice(e.id)
    <3>1. dev' = d /\ NM!deviceStateChanged(d)
      BY <1>4, <2>5 DEF NM!dbusStateChanged
    <3>2. d.id # 0
      BY <2>4, <2>5 DEF NM!IsOurDevice, DevicesSound
    <3> HIDE DEF d, e
    <3>3. /\ NM!NetTypeOK' /\ DevicesSound' /\ WaitHasPeer' /\ PollHasDevice'
          /\ waiting' => waiting
          /\ pollTimer' => pollTimer \/ waiting
      BY <2>1, <2>2, <2>4, <3>1, <3>2, DeviceChangedPart
    <3>4. ~backendAvailable => ~waiting' /\ ~pollTimer'
      BY <3>3 DEF UnavailableIsQuiet
    <3> QED
      BY <1>0, <2>1, <2>2, <2>3, <3>3, <3>4, NewsPart
  <2>6. CASE ~NM!IsOurDevice(e.id)
    <3>1. UNCHANGED <<dev, baseline, pollTimer, waiting>>
      BY <1>4, <2>6 DEF NM!dbusStateChanged
    <3>2. NM!NetTypeOK' /\ DevicesSound' /\ WaitHasPeer' /\ PollHasDevice'
      BY <1>0, <2>1, <2>2, <3>1, ChannelsPart
    <3>3. ~backendAvailable => ~waiting' /\ ~pollTimer'
      BY <3>1 DEF UnavailableIsQuiet
    <3> QED
      BY <1>0, <2>1, <2>2, <2>3, <3>2, <3>3, NewsPart
  <2> QED
    BY <2>5, <2>6
<1> QED
  BY <1>1, <1>2, <1>3, <1>4 DEF deviceNews

\* Handshake traffic is seen: an attempt that is still queued is connected, and
\* any other is left alone.
LEMMA HandshakePart ==
  ASSUME NetInv, handshakeSeen
  PROVE  NetPart' /\ (state' \in {"On", "OnPartial"} /\ state' # state => queue # <<>>)
<1> USE DEF NetInv, NetPart
<1>1. /\ waiting /\ pollTimer' = FALSE /\ waiting' = FALSE /\ call = NoCall
      /\ UNCHANGED <<remote, dev, baseline, serverKey, toNM, fromNM, nmExists, nmKey, nmDev,
                     lastId>>
  BY DEF handshakeSeen, Idle, NM!checkHandshakeTraffic, NM!nmVars
<1>2. NM!NetTypeOK'
  BY <1>1 DEF NM!NetTypeOK
<1>3. DevicesSound' /\ WaitHasPeer' /\ PollHasDevice'
  BY <1>1 DEF DevicesSound, AddedReal, WaitHasPeer, PollHasDevice, NM!NoNMDevice, NM!NoDevice
<1>4. backendAvailable /\ state # "Initializing" /\ serverKey \in Keys
  BY <1>1 DEF UnavailableIsQuiet, WaitHasPeer
<1>5. CASE ~Expected(serverKey)
  <2>1. UNCHANGED <<state, error, nextStep, queue, call, backendAvailable, initPending,
                    exitKey, hasProfiles>>
    BY <1>5 DEF handshakeSeen, ctlVars, attempt, backend, server, environment
  <2> QED
    BY <1>1, <1>2, <1>3, <1>4, <2>1, NewsPart
<1>6. CASE Expected(serverKey)
  <2>1. queue # <<>> /\ Len(queue) <= 1
    BY <1>4, <1>6, KeysAssumption DEF Expected, ProfilesOnly
  <2>2. /\ AllHopsConnected
        /\ UNCHANGED <<nextStep, backendAvailable, initPending, exitKey, hasProfiles>>
    <3>1. ~(Len(queue) > 1)
      BY <2>1 DEF CtlInv, TypeOK
    <3> QED
      BY <1>6, <3>1 DEF handshakeSeen, connected, backend, server, environment
  <2>3. /\ queue' = <<>>
        /\ \/ state' = "Disconnecting" /\ call' = CallDeactivate
           \/ state' \in {"On", "OnPartial"} /\ call' = call
    <3>1. ConnectedState \in {"On", "OnPartial"}
      BY DEF ConnectedState
    <3>2. CASE nextStep \in {"Quit", "Disconnect", "Update"}
      <4>1. Deactivation(ConnectedState)
        BY <2>2, <3>2 DEF AllHopsConnected
      <4> QED
        BY <3>1, <4>1 DEF Deactivation, SetState, ClearAttempt
    <3>3. CASE nextStep \notin {"Quit", "Disconnect", "Update"}
      <4>1. SetState(ConnectedState) /\ ClearAttempt /\ UNCHANGED call
        BY <2>2, <3>3 DEF AllHopsConnected
      <4> QED
        BY <3>1, <4>1 DEF SetState, ClearAttempt
    <3> QED
      BY <3>2, <3>3
  <2>4. ProfilesOnly'
    BY <1>1, <2>2, <2>3, CallOps DEF ProfilesOnly
  <2>5. UnavailableIsQuiet' /\ EndIsOwed'
    BY <1>4, <2>2, <2>3 DEF UnavailableIsQuiet, EndIsOwed
  <2> QED
    BY <1>2, <1>3, <2>1, <2>4, <2>5
<1> QED
  BY <1>5, <1>6

-----------------------------------------------------------------------------
(* NetworkManager.                                                         *)

\* A step of NetworkManager keeps the invariant if it keeps the types, gives its
\* device an identity, answers the deactivations it takes, and sends a client
\* that has no device nothing but replies and removals.
LEMMA NetworkManagerPart ==
  ASSUME NetInv, UNCHANGED ctlVars,
         UNCHANGED <<remote, dev, waiting, baseline, pollTimer, serverKey>>,
         toNM' \in Seq(NM!Request), fromNM' \in Seq(NM!Event), AddedReal(fromNM'),
         nmExists' \in BOOLEAN, nmKey' \in Keys \cup {NoKey}, lastId' \in NM!Ids,
         nmDev' \in NM!NMDevice, nmDev' = NM!NoNMDevice \/ nmDev'.id # 0,
         state = "Initializing" => ToQuiet(toNM') /\ FromQuiet(fromNM'),
         Asks(toNM) => Asks(toNM') \/ Answers(fromNM'),
         Answers(fromNM) => Answers(fromNM')
  PROVE  NetPart' /\ state' = state
<1> USE DEF NetInv, NetPart
<1>0. UNCHANGED <<state, error, nextStep, queue, call, backendAvailable, initPending,
                  exitKey, hasProfiles>>
  BY DEF ctlVars, attempt, backend, server, environment
<1>1. NM!NetTypeOK'
  BY DEF NM!NetTypeOK
<1>2. DevicesSound' /\ WaitHasPeer' /\ PollHasDevice'
  BY DEF DevicesSound, AddedReal, WaitHasPeer, PollHasDevice, NM!NoNMDevice, NM!NoDevice
<1>3. ~backendAvailable => ~waiting' /\ ~pollTimer'
  BY DEF UnavailableIsQuiet
<1> QED
  BY <1>0, <1>1, <1>2, <1>3, NewsPart

\* The types of what a step may leave alone, and what the two channels say.
LEMMA NetFacts ==
  ASSUME NetInv
  PROVE  /\ toNM \in Seq(NM!Request) /\ fromNM \in Seq(NM!Event) /\ AddedReal(fromNM)
         /\ nmExists \in BOOLEAN /\ nmKey \in Keys \cup {NoKey} /\ lastId \in NM!Ids
         /\ nmDev \in NM!NMDevice /\ (nmDev = NM!NoNMDevice \/ nmDev.id # 0)
         /\ state = "Initializing" =>
              ToQuiet(toNM) /\ FromQuiet(fromNM) /\ dev = NM!NoDevice
  BY DEF NetInv, NetPart, NM!NetTypeOK, DevicesSound, UnavailableIsQuiet

\* The signal of a device with an identity, which no client without one gets.
LEMMA SignalSent ==
  ASSUME NetInv, NEW q \in Seq(NM!Event), NEW d \in NM!NMDevice, d.id # 0, AddedReal(q)
  PROVE  /\ NM!StateSignal(q, d) \in Seq(NM!Event) /\ AddedReal(NM!StateSignal(q, d))
         /\ dev = NM!NoDevice => NM!StateSignal(q, d) = q
         /\ Answers(q) => Answers(NM!StateSignal(q, d))
<1> DEFINE m == [ev |-> "state", id |-> d.id, st |-> d.st, ac |-> d.ac]
<1>1. m \in NM!Event /\ m.ev = "state"
  BY DEF NM!Event, NM!NMDevice
<1>2. NM!StateSignal(q, d) = IF dev.id = d.id THEN Append(q, m) ELSE q
  BY DEF NM!StateSignal
<1> HIDE DEF m
<1>3. dev = NM!NoDevice => dev.id # d.id
  BY DEF NM!NoDevice
<1>4. /\ Append(q, m) \in Seq(NM!Event) /\ AddedReal(Append(q, m))
      /\ Answers(q) => Answers(Append(q, m))
  BY <1>1, SendMessage
<1> QED
  BY <1>2, <1>3, <1>4

\* A device that is not in its initial state has an identity.
LEMMA DeviceReal ==
  ASSUME NetInv, nmDev.st # "UNKNOWN"
  PROVE  nmDev.id # 0
  BY NetFacts DEF NM!NoNMDevice

\* NetworkManager answers AddConnection2 and Update2.
LEMMA AddUpdatePart ==
  ASSUME NetInv, UNCHANGED ctlVars, NM!nmAdd \/ NM!nmUpdate
  PROVE  NetPart' /\ state' = state
<1>0. /\ toNM # <<>> /\ toNM' = Tail(toNM) /\ Head(toNM).op \in {"add", "update"}
      /\ Head(toNM).op = "add" \/ Head(toNM).op = "update"
      /\ UNCHANGED <<remote, dev, waiting, baseline, pollTimer, serverKey, nmDev, lastId>>
  BY DEF NM!nmAdd, NM!nmUpdate, NM!Take, NM!clientVars
<1>1. PICK ev \in {"added", "addFailed", "updated", "failed"} :
        /\ fromNM' = Append(fromNM, [ev |-> ev])
        /\ Head(toNM).op = "add" => ev \in {"added", "addFailed"}
        /\ nmExists' \in {nmExists, TRUE}
        /\ Head(toNM).op = "add" => nmKey' = nmKey
        /\ nmKey' = nmKey \/ nmKey' = Head(toNM).key
  BY DEF NM!nmAdd, NM!nmUpdate, NM!Take, NM!Reply
<1> DEFINE m == [ev |-> ev]
<1>2. m \in NM!Event /\ m.ev = ev
  BY DEF NM!Event
<1>3. fromNM' = Append(fromNM, m)
  BY <1>1
<1> HIDE DEF m
<1>4. /\ Head(toNM) \in NM!Request /\ toNM' \in Seq(NM!Request)
      /\ ToQuiet(toNM) => ToQuiet(toNM') /\ Head(toNM).op = "add"
      /\ Asks(toNM) => Asks(toNM')
  BY <1>0, NetFacts, TakeRequest
<1>5. /\ fromNM' \in Seq(NM!Event) /\ AddedReal(fromNM')
      /\ Answers(fromNM) => Answers(fromNM')
      /\ FromQuiet(fromNM) /\ Head(toNM).op = "add" => FromQuiet(fromNM')
  BY <1>1, <1>2, <1>3, NetFacts, SendMessage
<1>6. Head(toNM).op = "update" => Head(toNM).key \in Keys
  BY <1>4 DEF NM!Request
<1>7. nmExists' \in BOOLEAN /\ nmKey' \in Keys \cup {NoKey}
  BY <1>0, <1>1, <1>6, NetFacts
<1>8. lastId' \in NM!Ids /\ nmDev' \in NM!NMDevice /\ (nmDev' = NM!NoNMDevice \/ nmDev'.id # 0)
  BY <1>0, NetFacts DEF NM!NoNMDevice
<1>9. state = "Initializing" => ToQuiet(toNM') /\ FromQuiet(fromNM')
  BY <1>4, <1>5, NetFacts
<1> QED
  BY <1>0, <1>4, <1>5, <1>7, <1>8, <1>9, NetworkManagerPart

\* NetworkManager sets up a device, or starts over on the one that is up.
LEMMA NmActivatePart ==
  ASSUME NetInv, UNCHANGED ctlVars, NM!nmActivate
  PROVE  NetPart' /\ state' = state
<1>0. /\ toNM # <<>> /\ toNM' = Tail(toNM) /\ Head(toNM).op = "activate"
      /\ UNCHANGED <<remote, dev, waiting, baseline, pollTimer, serverKey, nmExists, nmKey>>
  BY DEF NM!nmActivate, NM!Take, NM!clientVars
<1>1. /\ toNM' \in Seq(NM!Request) /\ ~ToQuiet(toNM) /\ (Asks(toNM) => Asks(toNM'))
      /\ nmExists' \in BOOLEAN /\ nmKey' \in Keys \cup {NoKey}
  BY <1>0, NetFacts, TakeRequest
<1>2. state # "Initializing"
  BY <1>1, NetFacts
<1>3. lastId \in 0 .. MaxActivations /\ MaxActivations \in Nat /\ MaxRx \in Nat
  BY NetFacts, NetmgrAssumption DEF NM!Ids
<1> DEFINE id == lastId + 1
<1>4. lastId < MaxActivations => id \in NM!Ids /\ id # 0
  BY <1>3 DEF NM!Ids
<1>5. 0 \in 0 .. MaxRx
  BY <1>3
<1>6. CASE /\ nmDev = NM!NoNMDevice /\ lastId < MaxActivations
           /\ nmDev' = [id |-> lastId + 1, st |-> "PREPARE", ac |-> lastId + 1,
                        rx |-> 0, key |-> nmKey]
           /\ fromNM' = Append(fromNM, [ev |-> "deviceAdded", id |-> lastId + 1])
           /\ lastId' = lastId + 1
  <2> DEFINE m == [ev |-> "deviceAdded", id |-> id]
  <2>1. m \in NM!Event /\ m.ev = "deviceAdded" /\ m.id # 0
    BY <1>4, <1>6 DEF NM!Event
  <2>2. nmDev' \in NM!NMDevice /\ nmDev'.id # 0
    BY <1>4, <1>5, <1>6, NetFacts DEF NM!NMDevice, NM!DeviceState
  <2>3. fromNM' = Append(fromNM, m) /\ lastId' \in NM!Ids
    BY <1>4, <1>6
  <2> HIDE DEF m
  <2>4. /\ fromNM' \in Seq(NM!Event) /\ AddedReal(fromNM')
        /\ Answers(fromNM) => Answers(fromNM')
    BY <2>1, <2>3, NetFacts, SendMessage
  <2> QED
    BY <1>0, <1>1, <1>2, <2>2, <2>3, <2>4, NetworkManagerPart
<1>7. CASE /\ nmDev.st \in {"PREPARE", "ACTIVATED"} /\ lastId < MaxActivations
           /\ nmDev' = [nmDev EXCEPT !.st = "PREPARE", !.ac = lastId + 1, !.key = nmKey]
           /\ fromNM' = NM!StateSignal(NM!StateSignal(fromNM,
                                             [nmDev EXCEPT !.st = "DEACTIVATING"]),
                                 nmDev')
           /\ lastId' = lastId + 1
  <2>1. nmDev.id # 0
    BY <1>7, DeviceReal
  <2> DEFINE d == [nmDev EXCEPT !.st = "DEACTIVATING"]
             q == NM!StateSignal(fromNM, d)
  <2>2. d \in NM!NMDevice /\ d.id # 0
    BY <2>1, NetFacts DEF NM!NMDevice, NM!DeviceState
  <2>3. nmDev' \in NM!NMDevice /\ nmDev'.id # 0 /\ lastId' \in NM!Ids
    BY <1>4, <1>7, <2>1, NetFacts DEF NM!NMDevice, NM!DeviceState
  <2>4. fromNM' = NM!StateSignal(q, nmDev')
    BY <1>7
  <2> HIDE DEF d
  <2>5. q \in Seq(NM!Event) /\ AddedReal(q) /\ (Answers(fromNM) => Answers(q))
    BY <2>2, NetFacts, SignalSent
  <2> HIDE DEF q
  <2>6. /\ fromNM' \in Seq(NM!Event) /\ AddedReal(fromNM')
        /\ Answers(q) => Answers(fromNM')
    BY <2>3, <2>4, <2>5, SignalSent
  <2> QED
    BY <1>0, <1>1, <1>2, <2>3, <2>5, <2>6, NetworkManagerPart
<1>8. CASE NM!Reply("failed") /\ UNCHANGED <<nmDev, lastId>>
  <2> DEFINE m == [ev |-> "failed"]
  <2>1. m \in NM!Event /\ m.ev = "failed"
    BY DEF NM!Event
  <2>2. fromNM' = Append(fromNM, m)
    BY <1>8 DEF NM!Reply
  <2> HIDE DEF m
  <2>3. /\ fromNM' \in Seq(NM!Event) /\ AddedReal(fromNM')
        /\ Answers(fromNM) => Answers(fromNM')
    BY <2>1, <2>2, NetFacts, SendMessage
  <2>4. /\ nmDev' \in NM!NMDevice /\ (nmDev' = NM!NoNMDevice \/ nmDev'.id # 0)
        /\ lastId' \in NM!Ids
    BY <1>8, NetFacts DEF NM!NoNMDevice
  <2> QED
    BY <1>0, <1>1, <1>2, <2>3, <2>4, NetworkManagerPart
<1> QED
  BY <1>6, <1>7, <1>8 DEF NM!nmActivate

\* NetworkManager answers every DeactivateConnection.
LEMMA NmDeactivatePart ==
  ASSUME NetInv, UNCHANGED ctlVars, NM!nmDeactivate
  PROVE  NetPart' /\ state' = state
<1>0. /\ toNM # <<>> /\ toNM' = Tail(toNM) /\ Head(toNM).op = "deactivate"
      /\ UNCHANGED <<remote, dev, waiting, baseline, pollTimer, serverKey, nmExists, nmKey,
                     lastId>>
  BY DEF NM!nmDeactivate, NM!Take, NM!clientVars
<1>1. /\ toNM' \in Seq(NM!Request) /\ ~ToQuiet(toNM)
      /\ nmExists' \in BOOLEAN /\ nmKey' \in Keys \cup {NoKey} /\ lastId' \in NM!Ids
  BY <1>0, NetFacts, TakeRequest
<1>2. state # "Initializing"
  BY <1>1, NetFacts
<1> DEFINE m == [ev |-> "deactivated"]
<1>3. m \in NM!Event /\ m.ev = "deactivated"
  BY DEF NM!Event
<1>4. CASE /\ nmDev.st \in {"PREPARE", "ACTIVATED"}
           /\ nmDev' = [nmDev EXCEPT !.st = "DEACTIVATING"]
           /\ fromNM' = Append(NM!StateSignal(fromNM, nmDev'), [ev |-> "deactivated"])
  <2>1. nmDev.id # 0
    BY <1>4, DeviceReal
  <2>2. nmDev' \in NM!NMDevice /\ nmDev'.id # 0
    BY <1>4, <2>1, NetFacts DEF NM!NMDevice, NM!DeviceState
  <2> DEFINE q == NM!StateSignal(fromNM, nmDev')
  <2>3. fromNM' = Append(q, m)
    BY <1>4
  <2>4. q \in Seq(NM!Event) /\ AddedReal(q)
    BY <2>2, NetFacts, SignalSent
  <2> HIDE DEF q, m
  <2>5. fromNM' \in Seq(NM!Event) /\ AddedReal(fromNM') /\ Answers(fromNM')
    BY <1>3, <2>3, <2>4, SendMessage
  <2> QED
    BY <1>0, <1>1, <1>2, <2>2, <2>5, NetworkManagerPart
<1>5. CASE nmDev' = nmDev /\ NM!Reply("deactivated")
  <2>1. fromNM' = Append(fromNM, m)
    BY <1>5 DEF NM!Reply
  <2> HIDE DEF m
  <2>2. fromNM' \in Seq(NM!Event) /\ AddedReal(fromNM') /\ Answers(fromNM')
    BY <1>3, <2>1, NetFacts, SendMessage
  <2>3. nmDev' \in NM!NMDevice /\ (nmDev' = NM!NoNMDevice \/ nmDev'.id # 0)
    BY <1>5, NetFacts DEF NM!NoNMDevice
  <2> QED
    BY <1>0, <1>1, <1>2, <2>2, <2>3, NetworkManagerPart
<1> QED
  BY <1>4, <1>5 DEF NM!nmDeactivate

\* NetworkManager moves the device from one state to another.
LEMMA MovesPart ==
  ASSUME NetInv, UNCHANGED ctlVars, NEW from, NEW to \in NM!DeviceState,
         "UNKNOWN" \notin from, NM!NMMoves(from, to)
  PROVE  NetPart' /\ state' = state
<1>0. /\ nmDev.st \in from
      /\ nmDev' = [nmDev EXCEPT !.st = to, !.ac = IF to = "DISCONNECTED" THEN 0 ELSE @]
      /\ fromNM' = NM!StateSignal(fromNM, nmDev')
      /\ UNCHANGED <<remote, dev, waiting, baseline, pollTimer, serverKey, toNM, nmExists,
                     nmKey, lastId>>
  BY DEF NM!NMMoves, NM!clientVars
<1>1. nmDev.id # 0
  BY <1>0, DeviceReal
<1>2. 0 \in NM!Ids
  <2>1. MaxActivations \in Nat
    BY NetmgrAssumption
  <2> QED
    BY <2>1 DEF NM!Ids
<1>3. nmDev' \in NM!NMDevice /\ nmDev'.id # 0
  BY <1>0, <1>1, <1>2, NetFacts DEF NM!NMDevice
<1>4. /\ fromNM' \in Seq(NM!Event) /\ AddedReal(fromNM')
      /\ dev = NM!NoDevice => fromNM' = fromNM
      /\ Answers(fromNM) => Answers(fromNM')
  BY <1>0, <1>3, NetFacts, SignalSent
<1>5. /\ toNM' \in Seq(NM!Request) /\ nmExists' \in BOOLEAN
      /\ nmKey' \in Keys \cup {NoKey} /\ lastId' \in NM!Ids
      /\ Asks(toNM) => Asks(toNM')
  BY <1>0, NetFacts
<1>6. state = "Initializing" => ToQuiet(toNM') /\ FromQuiet(fromNM')
  BY <1>0, <1>4, NetFacts
<1> QED
  BY <1>0, <1>3, <1>4, <1>5, <1>6, NetworkManagerPart

\* The rest of what NetworkManager does.
LEMMA NmOtherPart ==
  ASSUME NetInv, UNCHANGED ctlVars, NM!nmAddedElsewhere \/ NM!nmRemoves \/ NM!nmTraffic
  PROVE  NetPart' /\ state' = state
<1>0. /\ UNCHANGED <<remote, dev, waiting, baseline, pollTimer, serverKey, toNM, lastId>>
      /\ toNM' \in Seq(NM!Request) /\ lastId' \in NM!Ids
  BY NetFacts DEF NM!nmAddedElsewhere, NM!nmRemoves, NM!nmTraffic, NM!clientVars
<1>1. CASE NM!nmAddedElsewhere
  <2>1. nmExists' = TRUE /\ nmKey' \in Keys /\ UNCHANGED <<fromNM, nmDev>>
    BY <1>1 DEF NM!nmAddedElsewhere
  <2>2. /\ nmDev' \in NM!NMDevice /\ (nmDev' = NM!NoNMDevice \/ nmDev'.id # 0)
        /\ fromNM' \in Seq(NM!Event) /\ AddedReal(fromNM')
    BY <2>1, NetFacts DEF NM!NoNMDevice
  <2>3. state = "Initializing" => ToQuiet(toNM') /\ FromQuiet(fromNM')
    BY <1>0, <2>1, NetFacts
  <2> QED
    BY <1>0, <2>1, <2>2, <2>3, NetworkManagerPart
<1>2. CASE NM!nmRemoves
  <2> DEFINE m == [ev |-> "deviceRemoved", id |-> nmDev.id]
  <2>1. nmDev' = NM!NoNMDevice /\ fromNM' = Append(fromNM, m) /\ UNCHANGED <<nmExists, nmKey>>
    BY <1>2 DEF NM!nmRemoves
  <2>2. m \in NM!Event /\ m.ev = "deviceRemoved"
    BY NetFacts DEF NM!Event, NM!NMDevice
  <2>3. NM!NoNMDevice \in NM!NMDevice
    <3>1. 0 \in NM!Ids /\ 0 \in 0 .. MaxRx
      <4>1. MaxActivations \in Nat /\ MaxRx \in Nat
        BY NetmgrAssumption
      <4> QED
        BY <4>1 DEF NM!Ids
    <3> QED
      BY <3>1 DEF NM!NoNMDevice, NM!NMDevice, NM!DeviceState
  <2> HIDE DEF m
  <2>4. /\ fromNM' \in Seq(NM!Event) /\ AddedReal(fromNM')
        /\ Answers(fromNM) => Answers(fromNM')
        /\ FromQuiet(fromNM) => FromQuiet(fromNM')
    BY <2>1, <2>2, NetFacts, SendMessage
  <2>5. nmExists' \in BOOLEAN /\ nmKey' \in Keys \cup {NoKey}
    BY <2>1, NetFacts
  <2>6. state = "Initializing" => ToQuiet(toNM') /\ FromQuiet(fromNM')
    BY <1>0, <2>4, NetFacts
  <2>7. nmDev' \in NM!NMDevice /\ nmDev' = NM!NoNMDevice
    BY <2>1, <2>3
  <2> QED
    BY <1>0, <2>4, <2>5, <2>6, <2>7, NetworkManagerPart
<1>3. CASE NM!nmTraffic
  <2>1. /\ nmDev.st = "ACTIVATED" /\ nmDev.rx < MaxRx
        /\ nmDev' = [nmDev EXCEPT !.rx = @ + 1] /\ UNCHANGED <<fromNM, nmExists, nmKey>>
    BY <1>3 DEF NM!nmTraffic
  <2>2. MaxRx \in Nat
    BY NetmgrAssumption
  <2>3. nmDev.rx \in 0 .. MaxRx
    BY NetFacts DEF NM!NMDevice
  <2>4. nmDev.rx + 1 \in 0 .. MaxRx
    BY <2>1, <2>2, <2>3
  <2>5. nmDev' \in NM!NMDevice /\ nmDev'.id = nmDev.id
    BY <2>1, <2>4, NetFacts DEF NM!NMDevice
  <2>6. nmDev'.id # 0
    BY <2>1, <2>5, DeviceReal
  <2>7. /\ fromNM' \in Seq(NM!Event) /\ AddedReal(fromNM')
        /\ nmExists' \in BOOLEAN /\ nmKey' \in Keys \cup {NoKey}
    BY <2>1, NetFacts
  <2>8. state = "Initializing" => ToQuiet(toNM') /\ FromQuiet(fromNM')
    BY <1>0, <2>1, NetFacts
  <2> QED
    BY <1>0, <2>1, <2>5, <2>6, <2>7, <2>8, NetworkManagerPart
<1> QED
  BY <1>1, <1>2, <1>3

\* Whatever NetworkManager does preserves the invariant.
LEMMA NetworkManagerActsPart ==
  ASSUME NetInv, NetworkManagerActs
  PROVE  NetPart' /\ state' = state
<1>0. UNCHANGED ctlVars
  BY DEF NetworkManagerActs
<1>1. CASE NM!nmBringsUp \/ NM!nmFails \/ NM!nmDrops \/ NM!nmTearsDown
  <2>1. PICK from \in {{"PREPARE"}, {"ACTIVATED"}, {"DEACTIVATING", "FAILED"}},
             to \in NM!DeviceState : NM!NMMoves(from, to)
    BY <1>1 DEF NM!nmBringsUp, NM!nmFails, NM!nmDrops, NM!nmTearsDown, NM!DeviceState
  <2>2. "UNKNOWN" \notin from
    OBVIOUS
  <2> QED
    BY <1>0, <2>1, <2>2, MovesPart
<1> QED
  BY <1>0, <1>1, AddUpdatePart, NmActivatePart, NmDeactivatePart, NmOtherPart
     DEF NetworkManagerActs, NM!NMNext, NM!NMProgress

-----------------------------------------------------------------------------

\* Every step of the client is one of the controller with any backend, or
\* leaves the controller alone.
LEMMA NetmgrIsController ==
  ASSUME NetInv, [SysNext]_vars
  PROVE  [CtlNext]_ctlVars
<1>1. CASE UNCHANGED vars
  BY <1>1 DEF vars
<1>2. CASE startup \/ UserActs \/ handshakeTimesOut \/ confirmingTimesOut
  BY <1>2, NetmgrAssumption
     DEF startup, UserActs, userActivates, userDeactivates, userQuits, updateArrives,
         handshakeTimesOut, confirmingTimesOut, Quietly, CtlNext, UserNext, TimerNext
<1>3. CASE implInitialize \/ initReply
  <2>1. implReturn \/ \E s, c \in BOOLEAN : implInitialized(s, c)
    <3>1. NM!IsConnected \in BOOLEAN /\ nmExists \in BOOLEAN
      BY DEF NM!IsConnected, NetInv, NetPart, NM!NetTypeOK
    <3>2. (nmExists /\ NM!IsConnected) \in BOOLEAN
      OBVIOUS
    <3> QED
      BY <1>3, <3>1, <3>2 DEF implInitialize, initReply
  <2> QED
    BY <2>1 DEF CtlNext, SignalNext
<1>4. CASE implActivate \/ implDeactivate \/ tunnelEnds \/ backendError
  BY <1>4 DEF implActivate, implDeactivate, tunnelEnds, backendError, BackendErrorCode,
              CtlNext, SignalNext
<1>5. CASE handshakeSeen
  <2>1. serverKey \in Keys
    BY <1>5 DEF handshakeSeen, NM!checkHandshakeTraffic, NetInv, NetPart, WaitHasPeer
  <2> QED
    BY <1>5, <2>1 DEF handshakeSeen, CtlNext, SignalNext
<1>6. CASE deviceNews \/ NetworkManagerActs
  BY <1>6 DEF deviceNews, NetworkManagerActs
<1> QED
  BY <1>1, <1>2, <1>3, <1>4, <1>5, <1>6 DEF SysNext, BackendNext

\* The invariant holds initially, also with a tunnel of an earlier run up.
LEMMA NetInitInv == SysInit => NetInv
<1> SUFFICES ASSUME SysInit PROVE NetInv
  OBVIOUS
<1>1. CtlInv
  BY InitInv DEF SysInit
<1>2. MaxActivations \in Nat /\ MaxActivations # 0 /\ MaxRx \in Nat /\ MaxRx # 0
  BY NetmgrAssumption
<1>3. 0 \in NM!Ids /\ 1 \in NM!Ids /\ 0 \in 0 .. MaxRx /\ 1 \in 0 .. MaxRx
  BY <1>2 DEF NM!Ids
<1>4. /\ toNM \in Seq(NM!Request) /\ fromNM \in Seq(NM!Event)
      /\ DOMAIN toNM = {} /\ DOMAIN fromNM = {}
  BY DEF SysInit, NM!NetInit
<1>5. /\ nmDev \in NM!NMDevice /\ (nmDev = NM!NoNMDevice \/ nmDev.id # 0)
      /\ nmKey \in Keys \cup {NoKey} /\ lastId \in NM!Ids /\ nmExists \in BOOLEAN
  <2>1. NM!NoNMDevice \in NM!NMDevice
    BY <1>3 DEF NM!NoNMDevice, NM!NMDevice, NM!DeviceState
  <2>2. \A k \in Keys : LET d == [id |-> 1, st |-> "ACTIVATED", ac |-> 1, rx |-> 1, key |-> k]
                        IN  d \in NM!NMDevice /\ d.id # 0
    BY <1>3 DEF NM!NMDevice, NM!DeviceState
  <2> QED
    BY <1>3, <2>1, <2>2 DEF SysInit, NM!NetInit
<1>6. dev \in NM!Device /\ dev = NM!NoDevice
  BY <1>3 DEF SysInit, NM!NetInit, NM!NoDevice, NM!Device, NM!DeviceState
<1>7. NM!NetTypeOK
  BY <1>3, <1>4, <1>5, <1>6 DEF SysInit, NM!NetInit, NM!NetTypeOK
<1>8. DevicesSound
  BY <1>4, <1>5, <1>6 DEF DevicesSound, AddedReal
<1>9. WaitHasPeer /\ PollHasDevice
  BY DEF SysInit, NM!NetInit, WaitHasPeer, PollHasDevice
<1>10. ProfilesOnly
  <2>1. Len(queue) = 0
    BY DEF SysInit, Init
  <2> QED
    BY <2>1, NetmgrAssumption, CallOps DEF SysInit, Init, ProfilesOnly
<1>11. UnavailableIsQuiet /\ EndIsOwed
  BY <1>4, <1>6, CallOps
     DEF SysInit, Init, NM!NetInit, UnavailableIsQuiet, ToQuiet, FromQuiet, EndIsOwed
<1> QED
  BY <1>1, <1>7, <1>8, <1>9, <1>10, <1>11 DEF NetInv, NetPart

\* Every step preserves the invariant, and turns the client on only for an
\* attempt that is queued or at start-up.
LEMMA NetNextInv ==
  ASSUME NetInv, [SysNext]_vars
  PROVE  /\ NetInv'
         /\ state' \in {"On", "OnPartial"} /\ state' # state =>
              state = "Initializing" \/ queue # <<>>
<1>1. CtlInv'
  BY NetmgrIsController, NextInv DEF NetInv
<1> DEFINE Connects == state' \in {"On", "OnPartial"} /\ state' # state =>
                         state = "Initializing" \/ queue # <<>>
<1>2. NetPart' /\ Connects
  <2>1. CASE UNCHANGED vars
    <3>1. /\ UNCHANGED netVars
          /\ UNCHANGED <<state, error, nextStep, queue, call, backendAvailable, initPending,
                         exitKey, hasProfiles>>
      BY <2>1 DEF vars, ctlVars, attempt, backend, server, environment
    <3>2. nextStep' \in {"None", "Quit", "Update"}
      BY <3>1 DEF NetInv, NetPart, ProfilesOnly
    <3> QED
      BY <3>1, <3>2, OnlyNextStepPart
  <2>2. CASE startup
    <3>1. state = "Initializing"
      BY <2>2 DEF startup, Quietly, initialize
    <3> QED
      BY <2>2, <3>1, StartupPart
  <2>3. CASE userActivates
    <3>1. state' \in {state, "Confirming", "ConnectionError"}
      BY <2>3 DEF userActivates, Quietly, activateProfile, SubmitFirst, SetState
    <3> QED
      BY <2>3, <3>1, ActivatePart
  <2>4. CASE userDeactivates \/ userQuits \/ updateArrives
    BY <2>4, DeactivatePart, QuitPart
  <2>5. CASE handshakeTimesOut \/ confirmingTimesOut
    BY <2>5, TimeoutPart, ConfirmingPart
  <2>6. CASE implInitialize \/ implActivate \/ implDeactivate
    BY <2>6, ImplInitializePart, ImplActivatePart, ImplDeactivatePart
  <2>7. CASE initReply \/ backendError \/ tunnelEnds \/ deviceNews
    BY <2>7, InitReplyPart, BackendErrorPart, TunnelEndsPart, DeviceNewsPart
  <2>8. CASE handshakeSeen
    BY <2>8, HandshakePart
  <2>9. CASE NetworkManagerActs
    BY <2>9, NetworkManagerActsPart
  <2> QED
    BY <2>1, <2>2, <2>3, <2>4, <2>5, <2>6, <2>7, <2>8, <2>9
       DEF SysNext, UserActs, BackendNext
<1> QED
  BY <1>1, <1>2 DEF NetInv

\* The inductive invariant holds in every reachable state.
THEOREM NetmgrInvariant == SysSpec => []NetInv
<1>1. NetInv /\ [SysNext]_vars => NetInv'
  BY NetNextInv
<1> QED
  BY <1>1, NetInitInv, PTL DEF SysSpec

\* The members of controller and backend and the D-Bus messages keep their types.
THEOREM NetmgrTypes == SysSpec => []SysTypeOK
<1>1. NetInv => SysTypeOK
  BY DEF NetInv, NetPart, CtlInv, SysTypeOK
<1> QED
  BY <1>1, NetmgrInvariant, PTL

\* However long NetworkManager takes and whichever devices come and go, a
\* controller that waits for disconnected() has an answer to its deactivation
\* to come.
THEOREM DisconnectionAnswered == SysSpec => []DisconnectAnswered
<1>1. NetInv => DisconnectAnswered
  BY DEF NetInv, NetPart, EndIsOwed, DisconnectAnswered
<1> QED
  BY <1>1, NetmgrInvariant, PTL

\* The handshake poll timer never runs without the device whose counter it reads.
THEOREM PollingHasDevice == SysSpec => []PollHasDevice
<1>1. NetInv => PollHasDevice
  BY DEF NetInv, NetPart
<1> QED
  BY <1>1, NetmgrInvariant, PTL

\* A handshake seen after its attempt was cancelled does not turn the client on.
THEOREM LateHandshakeIgnored == SysSpec => OnlyQueuedConnects
<1>1. NetInv /\ [SysNext]_vars =>
        [state' \in {"On", "OnPartial"} /\ state' # state =>
           state = "Initializing" \/ queue # <<>>]_vars
  BY NetNextInv
<1> QED
  BY <1>1, NetmgrInvariant, PTL DEF SysSpec, OnlyQueuedConnects

-----------------------------------------------------------------------------
(* A patient user of the client.  One exchange with NetworkManager is      *)
(* under way at a time, so the phases below follow each other.             *)

Live == {"PREPARE", "ACTIVATED"}
WasUp == {"ACTIVATED", "DEACTIVATING", "DISCONNECTED"}

\* The requests q only take down what is up of device d.
RequestsFit(q, d) ==
  \A i \in DOMAIN q : q[i].op = "deactivate" /\ (d.st \in Live => q[i].ac = d.ac)

\* A message m that is still true of NetworkManager's device d, or harmless.
MessageFits(m, d) ==
  /\ m.ev \in {"failed", "deactivated", "deviceRemoved", "state"}
  /\ m.ev = "deactivated" => d.st \notin Live
  /\ m.ev = "deviceRemoved" /\ d # NM!NoNMDevice => m.id # d.id
  /\ m.ev = "state" /\ d # NM!NoNMDevice /\ m.id = d.id =>
       (m.st = "ACTIVATED" => d.st \in WasUp) /\ (d.st \in Live => m.ac = d.ac)

MessagesFit(q, d) == \A i \in DOMAIN q : MessageFits(q[i], d)

\* The removal of device id is among the messages q.
Removed(q, id) == \E i \in DOMAIN q : q[i].ev = "deviceRemoved" /\ q[i].id = id

\* The client's device c is NetworkManager's d, as it was some messages q ago.
CacheFits(c, d, q) ==
  /\ d = NM!NoNMDevice => c = NM!NoDevice \/ Removed(q, c.id)
  /\ d # NM!NoNMDevice =>
       /\ c.id = d.id
       /\ d.st \in Live => c.ac = d.ac
       /\ c.st = "ACTIVATED" => d.st \in WasUp

\* What is shown is true of the device, or will be.
ShownFits(s, c, d) ==
  /\ s = "Off" => d.st \notin Live
  /\ s = "On" => c.id # 0 /\ d.st \notin {"PREPARE", "FAILED"}

\* The client follows NetworkManager's device, if there is one.
Following ==
  /\ call.op \in {"none", "deactivate"}
  /\ RequestsFit(toNM, nmDev)
  /\ MessagesFit(fromNM, nmDev)
  /\ CacheFits(dev, nmDev, fromNM)
  /\ ShownFits(state, dev, nmDev)

\* An activation is on its way, and nothing else is.
Submitted ==
  /\ state = "Confirming" /\ dev = NM!NoDevice /\ nmDev = NM!NoNMDevice
  /\ \/ call.op = "activate" /\ toNM = <<>> /\ fromNM = <<>>
     \/ /\ call = NoCall /\ fromNM = <<>>
        /\ toNM = <<[op |-> "update", key |-> serverKey]>>
     \/ /\ call = NoCall /\ toNM = <<>> /\ nmKey = serverKey
        /\ fromNM = <<[ev |-> "updated"]>>
     \/ /\ call = NoCall /\ fromNM = <<>> /\ nmKey = serverKey
        /\ toNM = <<[op |-> "activate"]>>

\* The new device is announced to the client, perhaps already gone.
Announced ==
  /\ state = "Confirming" /\ call = NoCall /\ dev = NM!NoDevice /\ toNM = <<>>
  /\ \/ nmDev # NM!NoNMDevice /\ fromNM = <<[ev |-> "deviceAdded", id |-> nmDev.id]>>
     \/ /\ nmDev = NM!NoNMDevice
        /\ \E i \in NM!Ids : i # 0 /\
             fromNM = <<[ev |-> "deviceAdded", id |-> i], [ev |-> "deviceRemoved", id |-> i]>>

\* Before the backend is ready: the connection exists, with the device of an
\* earlier run or none, or it is being added.
BeforeReady ==
  /\ nmDev.st # "PREPARE" /\ serverKey = NoKey
  /\ nmDev # NM!NoNMDevice => nmExists
  /\ \/ /\ toNM = <<>> /\ (nmDev # NM!NoNMDevice \/ ~nmExists => fromNM = <<>>)
        /\ \A i \in DOMAIN fromNM : fromNM[i].ev = "deviceRemoved"
     \/ /\ call = NoCall /\ nmDev = NM!NoNMDevice
        /\ \/ toNM = <<[op |-> "add"]>> /\ fromNM = <<>>
           \/ toNM = <<>> /\ fromNM = <<[ev |-> "added"]>> /\ nmExists
           \/ toNM = <<>> /\ fromNM = <<[ev |-> "addFailed"]>>

\* The user is the client's, so an attempt is shown, and StateOff has none.
ClientShown ==
  /\ initiator # "ExtensionUser"
  /\ state \in {"Initializing", "Off", "Disconnecting", "ConnectionError", "Confirming", "On"}
  /\ state = "Off" => queue = <<>>
  /\ ~backendAvailable => state # "On"

\* Only a device that is up or coming up has to have an active connection.
DeviceStates ==
  /\ nmDev.st = "UNKNOWN" => nmDev = NM!NoNMDevice
  /\ nmDev.st \in Live => nmDev.ac # 0

\* The device's peer is the one the client asked for, if it asked.
ReadyFits ==
  /\ nmExists
  /\ nmDev # NM!NoNMDevice => serverKey \in {NoKey, nmDev.key}
  /\ Submitted \/ Announced \/ Following

PatientPart ==
  /\ ClientShown
  /\ DeviceStates
  /\ state = "Initializing" => BeforeReady
  /\ backendAvailable => ReadyFits

PatientInv == NetInv /\ PatientPart

-----------------------------------------------------------------------------
(* Messages.                                                               *)

\* The messages left once the client has taken the first.
LEMMA TakenFits ==
  ASSUME NEW q \in Seq(NM!Event), q # <<>>, NEW d, MessagesFit(q, d)
  PROVE  /\ MessagesFit(Tail(q), d) /\ MessageFits(Head(q), d)
         /\ \A id : Removed(q, id) /\ ~(Head(q).ev = "deviceRemoved" /\ Head(q).id = id)
                      => Removed(Tail(q), id)
<1> DEFINE t == Tail(q)
<1>1. /\ Head(q) = q[1] /\ 1 \in DOMAIN q
      /\ \A i \in DOMAIN t : i + 1 \in DOMAIN q /\ t[i] = q[i + 1]
      /\ \A i \in DOMAIN q : i # 1 => i - 1 \in DOMAIN t /\ t[i - 1] = q[i]
  BY TailMessages
<1> HIDE DEF t
<1>2. MessagesFit(t, d) /\ MessageFits(Head(q), d)
  BY <1>1 DEF MessagesFit
<1>3. \A id : Removed(q, id) /\ ~(Head(q).ev = "deviceRemoved" /\ Head(q).id = id)
                => Removed(t, id)
  BY <1>1 DEF Removed
<1> QED
  BY <1>2, <1>3 DEF t

\* The messages with one more.
LEMMA SentFits ==
  ASSUME NEW q \in Seq(NM!Event), NEW m \in NM!Event, NEW d, MessagesFit(q, d), MessageFits(m, d)
  PROVE  /\ MessagesFit(Append(q, m), d)
         /\ \A id : Removed(q, id) => Removed(Append(q, m), id)
         /\ m.ev = "deviceRemoved" => Removed(Append(q, m), m.id)
<1> DEFINE t == Append(q, m)
           n == Len(q) + 1
<1>1. /\ \A i \in DOMAIN q : i \in DOMAIN t /\ t[i] = q[i]
      /\ n \in DOMAIN t /\ t[n] = m
      /\ \A i \in DOMAIN t : (i \in DOMAIN q /\ t[i] = q[i]) \/ t[i] = m
  BY AppendMessages
<1> HIDE DEF t, n
<1>2. MessagesFit(t, d)
  BY <1>1 DEF MessagesFit
<1>3. /\ \A id : Removed(q, id) => Removed(t, id)
      /\ m.ev = "deviceRemoved" => Removed(t, m.id)
  BY <1>1 DEF Removed
<1> QED
  BY <1>2, <1>3 DEF t

\* The requests left once NetworkManager has taken the first, and with one more.
LEMMA RequestsStayFit ==
  ASSUME NEW q \in Seq(NM!Request), NEW d, RequestsFit(q, d)
  PROVE  /\ q # <<>> => /\ RequestsFit(Tail(q), d) /\ Head(q).op = "deactivate"
                        /\ d.st \in Live => Head(q).ac = d.ac
         /\ \A r \in NM!Request :
              r.op = "deactivate" /\ (d.st \in Live => r.ac = d.ac) => RequestsFit(Append(q, r), d)
<1>1. ASSUME q # <<>>
      PROVE  /\ RequestsFit(Tail(q), d) /\ Head(q).op = "deactivate"
             /\ d.st \in Live => Head(q).ac = d.ac
  <2> DEFINE t == Tail(q)
  <2>1. /\ Head(q) = q[1] /\ 1 \in DOMAIN q
        /\ \A i \in DOMAIN t : i + 1 \in DOMAIN q /\ t[i] = q[i + 1]
    BY <1>1, TailMessages
  <2> HIDE DEF t
  <2>2. RequestsFit(t, d) /\ Head(q).op = "deactivate" /\ (d.st \in Live => Head(q).ac = d.ac)
    BY <2>1 DEF RequestsFit
  <2> QED
    BY <2>2 DEF t
<1>2. ASSUME NEW r \in NM!Request, r.op = "deactivate", d.st \in Live => r.ac = d.ac
      PROVE  RequestsFit(Append(q, r), d)
  <2> DEFINE t == Append(q, r)
  <2>1. \A i \in DOMAIN t : (i \in DOMAIN q /\ t[i] = q[i]) \/ t[i] = r
    BY AppendMessages
  <2> HIDE DEF t
  <2>2. RequestsFit(t, d)
    BY <1>2, <2>1 DEF RequestsFit
  <2> QED
    BY <2>2 DEF t
<1> QED
  BY <1>1, <1>2

\* NetworkManager's device d becomes e: never up again once it goes down, on
\* the same active connection as long as it is up, or gone.
Moved(d, e) ==
  /\ e.st \in Live => d.st \in Live /\ e.ac = d.ac
  /\ \/ e = NM!NoNMDevice
     \/ d # NM!NoNMDevice /\ e.id = d.id /\ (d.st \in WasUp => e.st \in WasUp)

\* What is under way stays true of a device that moves.
LEMMA MovedFits ==
  ASSUME NEW d, NEW e, Moved(d, e)
  PROVE  /\ \A q : RequestsFit(q, d) => RequestsFit(q, e)
         /\ \A q : MessagesFit(q, d) => MessagesFit(q, e)
<1>1. \A q : RequestsFit(q, d) => RequestsFit(q, e)
  BY DEF RequestsFit, Moved
<1>2. \A m : MessageFits(m, d) => MessageFits(m, e)
  BY DEF MessageFits, Moved
<1> QED
  BY <1>1, <1>2 DEF MessagesFit

-----------------------------------------------------------------------------
(* The steps of users and timers, between exchanges.                       *)

\* A patient user finds nothing under way: the client follows the device.
LEMMA SettledFollows ==
  ASSUME PatientInv, Settled, call = NoCall, backendAvailable
  PROVE  Following
  BY CallOps DEF PatientInv, PatientPart, ReadyFits, Submitted, Announced, Settled

\* A step of the controller alone that shows no new StateOn or StateOff.
LEMMA FollowingStays ==
  ASSUME Following, UNCHANGED netVars, call'.op \in {"none", "deactivate"},
         state' \in {"Off", "On"} => state' = state
  PROVE  Following'
<1>1. UNCHANGED <<toNM, fromNM, dev, nmDev>>
  BY DEF netVars
<1> QED
  BY <1>1 DEF Following, ShownFits

\* The same for the rest of the invariant.
LEMMA QuietPart ==
  ASSUME PatientInv, UNCHANGED netVars, UNCHANGED <<initiator, backendAvailable>>,
         ClientShown', state' = "Initializing" => state = state' /\ call' = call,
         backendAvailable => Following'
  PROVE  PatientPart'
<1> USE DEF PatientInv, PatientPart
<1>1. UNCHANGED <<toNM, fromNM, dev, nmDev, nmExists, nmKey, serverKey>>
  BY DEF netVars
<1>2. DeviceStates'
  BY <1>1 DEF DeviceStates, NM!NoNMDevice
<1>3. state' = "Initializing" => BeforeReady'
  BY <1>1 DEF BeforeReady, NM!NoNMDevice
<1>4. backendAvailable => ReadyFits'
  BY <1>1 DEF ReadyFits, NM!NoNMDevice
<1> QED
  BY <1>2, <1>3, <1>4

\* Controller::initialize().
LEMMA PatientStartup ==
  ASSUME Patient, PatientInv, startup
  PROVE  PatientPart'
<1> USE DEF PatientInv, PatientPart
<1>0. Settled /\ UNCHANGED netVars /\ initialize
  BY DEF startup, Quietly
<1>1. /\ state = "Initializing" /\ ~backendAvailable'
      /\ UNCHANGED <<state, initiator, queue>>
  BY <1>0 DEF initialize, attempt
<1>2. UNCHANGED <<toNM, fromNM, nmDev, nmExists, nmKey, serverKey>>
  BY <1>0 DEF netVars
<1>3. ClientShown' /\ DeviceStates'
  BY <1>1, <1>2 DEF ClientShown, DeviceStates, NM!NoNMDevice
<1>4. toNM' = <<>> /\ fromNM' = <<>>
  BY <1>0, <1>2 DEF Settled
<1>5. BeforeReady'
  <2>1. /\ nmDev'.st # "PREPARE" /\ serverKey' = NoKey
        /\ nmDev' # NM!NoNMDevice => nmExists'
    BY <1>1, <1>2 DEF BeforeReady
  <2>2. \A i \in DOMAIN fromNM' : fromNM'[i].ev = "deviceRemoved"
    BY <1>4
  <2> QED
    BY <1>4, <2>1, <2>2 DEF BeforeReady, NM!NoNMDevice
<1> QED
  BY <1>1, <1>3, <1>5

\* activate() of a profile, from StateOff.
LEMMA PatientActivates ==
  ASSUME Patient, Users \subseteq {"ClientUser"}, PatientInv, userActivates
  PROVE  PatientPart'
<1> USE DEF PatientInv, PatientPart
<1>0. PICK user \in Users, k \in Keys : Quietly(activateProfile(k, user))
  BY DEF userActivates
<1>1. /\ Settled /\ UNCHANGED netVars /\ call = NoCall /\ state = "Off" /\ user = "ClientUser"
      /\ UNCHANGED backendAvailable
  BY <1>0 DEF Quietly, activateProfile, Idle, MayActivate, ClientShown, backend
<1>2. \/ /\ ~backendAvailable /\ state' = "ConnectionError"
         /\ UNCHANGED <<initiator, queue, call>>
      \/ backendAvailable /\ UNCHANGED <<state, queue, call, initiator>>
      \/ /\ backendAvailable /\ initiator' = user
         /\ call' = CallActivate(Head(<<k>>)) /\ state' = "Confirming"
  BY <1>0, <1>1 DEF Quietly, activateProfile, SetState, SubmitFirst, attempt
<1>3. CASE UNCHANGED <<initiator, queue, call>> /\ state' \in {"ConnectionError", state}
  <2>1. ClientShown'
    BY <1>1, <1>3 DEF ClientShown
  <2>2. backendAvailable => Following'
    BY <1>1, <1>3, SettledFollows, FollowingStays, CallOps
  <2> QED
    BY <1>1, <1>3, <2>1, <2>2, QuietPart
<1>4. CASE /\ backendAvailable /\ initiator' = user
           /\ call' = CallActivate(Head(<<k>>)) /\ state' = "Confirming"
  <2>1. UNCHANGED <<toNM, fromNM, dev, nmDev, nmExists, nmKey, serverKey>>
    BY <1>1 DEF netVars
  <2>2. Following /\ toNM = <<>> /\ fromNM = <<>>
    BY <1>1, <1>4, SettledFollows DEF Settled
  <2>3. nmDev.st = "UNKNOWN"
    BY <1>1, <2>2 DEF Following, ShownFits, Settled, Live
  <2>4. nmDev = NM!NoNMDevice
    BY <2>3 DEF DeviceStates
  <2>5. dev = NM!NoDevice
    BY <2>2, <2>4 DEF Following, CacheFits, Removed
  <2>6. call'.op = "activate"
    BY <1>4, CallOps
  <2>7. Submitted'
    BY <1>4, <2>1, <2>2, <2>4, <2>5, <2>6 DEF Submitted, NM!NoDevice, NM!NoNMDevice
  <2>8. ClientShown' /\ DeviceStates'
    BY <1>1, <1>4, <2>1 DEF ClientShown, DeviceStates, NM!NoNMDevice
  <2>9. ReadyFits'
    BY <1>4, <2>1, <2>4, <2>7 DEF ReadyFits, NM!NoNMDevice
  <2> QED
    BY <1>4, <2>8, <2>9
<1> QED
  BY <1>1, <1>2, <1>3, <1>4

\* A teardown by deactivate(), quit() or updateRequired().
LEMMA PatientTeardown ==
  ASSUME PatientInv, Settled, UNCHANGED netVars, call = NoCall,
         UNCHANGED <<initiator, backendAvailable>>, isActive, DeactivateActive(handshakeTimer)
  PROVE  PatientPart'
<1> USE DEF PatientInv, PatientPart
<1>1. CASE state = "ConnectionError" /\ error = "NoServerAvailable"
  <2>1. state' = "Off" /\ UNCHANGED <<queue, call>> /\ ~backendAvailable /\ queue = <<>>
    BY <1>1 DEF DeactivateActive, SetState, NetInv, NetPart, UnavailableIsQuiet
  <2>2. ClientShown'
    BY <2>1 DEF ClientShown
  <2> QED
    BY <2>1, <2>2, QuietPart
<1>2. CASE ~(state = "ConnectionError" /\ error = "NoServerAvailable")
  <2>1. Deactivation(state)
    BY <1>2 DEF DeactivateActive
  <2>2. state' = "Disconnecting" /\ call' = CallDeactivate
    BY <2>1 DEF Deactivation, SetState, ClientShown
  <2>3. ClientShown'
    BY <2>2 DEF ClientShown
  <2>4. backendAvailable => Following'
    BY <2>2, SettledFollows, FollowingStays, CallOps
  <2> QED
    BY <2>2, <2>3, <2>4, QuietPart
<1> QED
  BY <1>1, <1>2

\* A step of the controller that leaves state, queue and call alone.
LEMMA PatientIdles ==
  ASSUME PatientInv, Settled, UNCHANGED netVars, call = NoCall,
         UNCHANGED <<initiator, backendAvailable, state, queue, call>>
  PROVE  PatientPart'
<1>1. ClientShown'
  BY DEF ClientShown, PatientInv, PatientPart
<1>2. backendAvailable => Following'
  BY SettledFollows, FollowingStays, CallOps
<1> QED
  BY <1>1, <1>2, QuietPart

\* deactivate(), quit() and updateRequired().
LEMMA PatientEnds ==
  ASSUME Patient, PatientInv, userDeactivates \/ userQuits \/ updateArrives
  PROVE  PatientPart'
<1>1. Settled /\ UNCHANGED netVars /\ call = NoCall /\ UNCHANGED <<initiator, backendAvailable>>
  BY DEF userDeactivates, userQuits, updateArrives, Quietly, deactivate, quit, updateRequired,
         Idle, backend
<1>2. \/ isActive /\ DeactivateActive(handshakeTimer)
      \/ UNCHANGED <<state, queue, call>>
  BY DEF userDeactivates, userQuits, updateArrives, Quietly, deactivate, quit, updateRequired,
         attempt
<1> QED
  BY <1>1, <1>2, PatientTeardown, PatientIdles

\* The two timers.
LEMMA PatientTimesOut ==
  ASSUME Patient, PatientInv, handshakeTimesOut \/ confirmingTimesOut
  PROVE  PatientPart'
<1>0. Settled /\ UNCHANGED netVars /\ call = NoCall /\ UNCHANGED <<backendAvailable, initiator>>
  BY DEF handshakeTimesOut, confirmingTimesOut, Quietly, handshakeTimeout, confirmingTimeout,
         Idle, backend, PatientInv, NetInv, NetPart, ProfilesOnly
<1>1. CASE handshakeTimesOut
  <2>1. state' = "ConnectionError" /\ call' = CallDeactivate /\ UNCHANGED queue
    BY <1>1 DEF handshakeTimesOut, Quietly, handshakeTimeout, SetState, PatientInv, NetInv,
                NetPart, ProfilesOnly
  <2>2. ClientShown'
    BY <1>0, <2>1 DEF ClientShown, PatientInv, PatientPart
  <2>3. backendAvailable => Following'
    BY <1>0, <2>1, SettledFollows, FollowingStays, CallOps
  <2> QED
    BY <1>0, <2>1, <2>2, <2>3, QuietPart
<1>2. CASE confirmingTimesOut
  <2>1. UNCHANGED <<state, queue, call>>
    BY <1>2 DEF confirmingTimesOut, Quietly, confirmingTimeout, attempt
  <2> QED
    BY <1>0, <2>1, PatientIdles
<1> QED
  BY <1>1, <1>2

-----------------------------------------------------------------------------
(* The calls of the controller.                                            *)

\* What the client's device is once it is read from NetworkManager's.
LEMMA SnapshotFits ==
  ASSUME PatientInv, NEW q
  PROVE  CacheFits(NM!Snapshot, nmDev, q)
<1>1. NM!Snapshot.id = nmDev.id /\ NM!Snapshot.ac = nmDev.ac /\ NM!Snapshot.st = nmDev.st
  BY DEF NM!Snapshot
<1>2. nmDev = NM!NoNMDevice => NM!Snapshot = NM!NoDevice
  BY DEF NM!NoNMDevice, NM!Snapshot, NM!NoDevice
<1> QED
  BY <1>1, <1>2 DEF CacheFits, WasUp

\* The backend is ready: StateOn if a tunnel of an earlier run is up.
LEMMA PatientReady ==
  ASSUME PatientInv, BeforeReady, NM!initCompleted, implInitialized(TRUE, NM!IsConnected),
         ~backendAvailable, nmExists, toNM = <<>>, MessagesFit(fromNM', nmDev)
  PROVE  PatientPart'
<1> USE DEF PatientInv, PatientPart
<1>1. /\ dev' = NM!Snapshot /\ UNCHANGED <<toNM, serverKey, nmExists, nmKey, nmDev>>
      /\ call' = NoCall /\ backendAvailable' /\ UNCHANGED <<initiator, queue>>
      /\ state' = IF NM!IsConnected THEN "On" ELSE "Off"
  BY DEF NM!initCompleted, NM!nmVars, implInitialized, SetState, attempt
<1>2. NM!IsConnected <=> nmDev.st = "ACTIVATED"
  BY DEF NM!IsConnected, DeviceStates, Live
<1>3. CacheFits(dev', nmDev, fromNM') /\ dev'.id = nmDev.id
  BY <1>1, SnapshotFits DEF NM!Snapshot
<1>4. queue = <<>>
  BY DEF NetInv, NetPart, UnavailableIsQuiet
<1>5. ClientShown' /\ DeviceStates'
  BY <1>1, <1>4 DEF ClientShown, DeviceStates, NM!NoNMDevice
<1>6. ShownFits(state', dev', nmDev)
  <2>1. nmDev.st = "ACTIVATED" => nmDev.id # 0
    BY DeviceReal
  <2> QED
    BY <1>1, <1>2, <1>3, <2>1 DEF ShownFits, Live, BeforeReady
<1>7. RequestsFit(toNM', nmDev)
  BY <1>1 DEF RequestsFit
<1>8. Following'
  BY <1>1, <1>3, <1>6, <1>7, CallOps DEF Following
<1>9. ReadyFits'
  BY <1>1, <1>8 DEF ReadyFits, BeforeReady
<1> QED
  BY <1>1, <1>5, <1>9

\* The backend cannot be used: StateOff.
LEMMA PatientNotReady ==
  ASSUME PatientInv, NEW c \in BOOLEAN, implInitialized(FALSE, c), UNCHANGED nmDev,
         ~backendAvailable
  PROVE  PatientPart'
<1> USE DEF PatientInv, PatientPart
<1>1. state' = "Off" /\ ~backendAvailable' /\ UNCHANGED <<initiator, queue>>
  BY DEF implInitialized, SetState, attempt
<1>2. ClientShown' /\ DeviceStates'
  BY <1>1 DEF ClientShown, DeviceStates, NM!NoNMDevice, NetInv, NetPart, UnavailableIsQuiet
<1> QED
  BY <1>1, <1>2

\* What is known while initialize() is unanswered.
LEMMA PatientPending ==
  ASSUME PatientInv, NEW s \in BOOLEAN, NEW c \in BOOLEAN, implInitialized(s, c)
  PROVE  BeforeReady /\ ~backendAvailable
  BY DEF PatientInv, PatientPart, implInitialized, MayInitialize, NetInv, NetPart,
         UnavailableIsQuiet

\* initialize() of the backend.
LEMMA PatientInitializes ==
  ASSUME PatientInv, implInitialize
  PROVE  PatientPart'
<1> USE DEF PatientInv, PatientPart
<1>0. call = CallInitialize /\ call # NoCall
  BY DEF implInitialize, CallInitialize, NoCall
<1>1. CASE NM!initializeFails /\ implInitialized(FALSE, FALSE)
  <2>1. UNCHANGED nmDev
    BY <1>1 DEF NM!initializeFails, NM!netVars, NM!nmVars
  <2> QED
    BY <1>1, <2>1, PatientPending, PatientNotReady
<1>2. CASE /\ nmExists /\ NM!initCompleted /\ UNCHANGED fromNM
           /\ implInitialized(TRUE, NM!IsConnected)
  <2>0. NM!IsConnected \in BOOLEAN
    BY DEF NM!IsConnected
  <2>1. BeforeReady /\ ~backendAvailable
    BY <1>2, <2>0, PatientPending
  <2>2. /\ toNM = <<>> /\ (nmDev # NM!NoNMDevice => fromNM = <<>>)
        /\ \A i \in DOMAIN fromNM : fromNM[i].ev = "deviceRemoved"
    BY <1>0, <2>1 DEF BeforeReady
  <2>3. MessagesFit(fromNM', nmDev)
    BY <1>2, <2>2 DEF MessagesFit, MessageFits
  <2> QED
    BY <1>2, <2>1, <2>2, <2>3, PatientReady
<1>3. CASE NM!initializeAdds /\ implReturn
  <2>1. /\ ~nmExists /\ toNM' = Append(toNM, [op |-> "add"])
        /\ UNCHANGED <<serverKey, fromNM, nmExists, nmDev>>
        /\ call' = NoCall /\ UNCHANGED <<state, initiator, queue, backendAvailable>>
    BY <1>3 DEF NM!initializeAdds, NM!Send, NM!clientVars, NM!nmVars, implReturn, attempt,
                backend
  <2>2. ClientShown' /\ DeviceStates'
    BY <2>1 DEF ClientShown, DeviceStates, NM!NoNMDevice
  <2>3. ~backendAvailable
    BY <2>1 DEF ReadyFits
  <2>4. state = "Initializing" => BeforeReady'
    <3>1. CASE state = "Initializing"
      <4>1. toNM = <<>> /\ fromNM = <<>> /\ nmDev = NM!NoNMDevice
        BY <1>0, <2>1, <3>1 DEF BeforeReady
      <4>2. toNM' = <<[op |-> "add"]>>
        BY <2>1, <4>1
      <4> QED
        BY <2>1, <3>1, <4>1, <4>2 DEF BeforeReady, NM!NoNMDevice
    <3> QED
      BY <3>1
  <2> QED
    BY <2>1, <2>2, <2>3, <2>4
<1> QED
  BY <1>1, <1>2, <1>3 DEF implInitialize

\* The answer to AddConnection2.
LEMMA PatientAdded ==
  ASSUME PatientInv, initReply
  PROVE  PatientPart'
<1> USE DEF PatientInv, PatientPart
<1>0. NM!IsConnected \in BOOLEAN /\ nmExists \in BOOLEAN
  BY DEF NM!IsConnected, NetInv, NetPart, NM!NetTypeOK
<1>1. CASE NM!addCompleted /\ implInitialized(TRUE, NM!IsConnected)
  <2>1. /\ NM!initCompleted /\ fromNM # <<>> /\ Head(fromNM).ev = "added"
        /\ fromNM' = Tail(fromNM)
    BY <1>1 DEF NM!addCompleted, NM!Receive
  <2>2. BeforeReady /\ ~backendAvailable
    BY <1>0, <1>1, PatientPending
  <2>3. toNM = <<>> /\ fromNM = <<[ev |-> "added"]>> /\ nmExists
    <3>1. fromNM \in Seq(NM!Event) /\ fromNM[1] = Head(fromNM) /\ 1 \in DOMAIN fromNM
      BY <2>1, NetFacts, TailMessages
    <3> QED
      BY <2>1, <2>2, <3>1 DEF BeforeReady
  <2>4. DOMAIN fromNM' = {}
    BY <2>1, <2>3
  <2>5. MessagesFit(fromNM', nmDev)
    BY <2>4 DEF MessagesFit
  <2> QED
    BY <1>1, <2>1, <2>2, <2>3, <2>5, PatientReady
<1>2. CASE NM!dbusInitError /\ implInitialized(nmExists, nmExists /\ NM!IsConnected)
  <2>1. fromNM # <<>> /\ Head(fromNM).ev = "addFailed" /\ fromNM' = Tail(fromNM)
    BY <1>2 DEF NM!dbusInitError, NM!Receive
  <2>2. BeforeReady /\ ~backendAvailable
    BY <1>0, <1>2, PatientPending
  <2>3. toNM = <<>> /\ fromNM = <<[ev |-> "addFailed"]>>
    <3>1. fromNM \in Seq(NM!Event) /\ fromNM[1] = Head(fromNM) /\ 1 \in DOMAIN fromNM
      BY <2>1, NetFacts, TailMessages
    <3> QED
      BY <2>1, <2>2, <3>1 DEF BeforeReady
  <2>4. DOMAIN fromNM' = {}
    BY <2>1, <2>3
  <2>5. MessagesFit(fromNM', nmDev)
    BY <2>4 DEF MessagesFit
  <2>6. CASE nmExists
    <3>1. NM!initCompleted /\ nmExists = TRUE /\ (nmExists /\ NM!IsConnected) = NM!IsConnected
      BY <1>0, <1>2, <2>6 DEF NM!dbusInitError
    <3>2. implInitialized(TRUE, NM!IsConnected)
      BY <1>2, <3>1
    <3> QED
      BY <2>2, <2>3, <2>5, <2>6, <3>1, <3>2, PatientReady
  <2>7. CASE ~nmExists
    <3>1. UNCHANGED nmDev /\ nmExists = FALSE /\ (nmExists /\ NM!IsConnected) = FALSE
      BY <1>0, <1>2, <2>7 DEF NM!dbusInitError, NM!nmVars
    <3>2. implInitialized(FALSE, FALSE)
      BY <1>2, <3>1
    <3> QED
      BY <2>2, <3>1, <3>2, PatientNotReady
  <2> QED
    BY <2>6, <2>7
<1> QED
  BY <1>1, <1>2 DEF initReply

\* activate() of the backend starts the exchange.
LEMMA PatientSubmits ==
  ASSUME PatientInv, implActivate
  PROVE  PatientPart'
<1> USE DEF PatientInv, PatientPart
<1>0. /\ call.op = "activate" /\ serverKey' = call.key
      /\ toNM' = Append(toNM, [op |-> "update", key |-> call.key])
      /\ UNCHANGED <<dev, fromNM, nmExists, nmKey, nmDev>>
      /\ call' = NoCall /\ UNCHANGED <<state, initiator, queue, backendAvailable>>
  BY DEF implActivate, NM!activate, NM!Send, NM!nmVars, implReturn, attempt, backend
<1>1. backendAvailable /\ state # "Initializing"
  BY <1>0 DEF NetInv, NetPart, UnavailableIsQuiet
<1>2. /\ state = "Confirming" /\ dev = NM!NoDevice /\ nmDev = NM!NoNMDevice
      /\ toNM = <<>> /\ fromNM = <<>>
  BY <1>0, <1>1, CallOps DEF ReadyFits, Submitted, Announced, Following
<1>3. toNM' = <<[op |-> "update", key |-> serverKey']>>
  BY <1>0, <1>2
<1>4. Submitted'
  BY <1>0, <1>2, <1>3 DEF Submitted, NM!NoDevice, NM!NoNMDevice
<1>5. ClientShown' /\ DeviceStates'
  BY <1>0 DEF ClientShown, DeviceStates, NM!NoNMDevice
<1>6. ReadyFits'
  BY <1>0, <1>1, <1>2, <1>4 DEF ReadyFits, NM!NoNMDevice
<1> QED
  BY <1>0, <1>1, <1>5, <1>6

\* disconnected() of a client that follows a device that is not up.
LEMMA PatientDisconnected ==
  ASSUME PatientInv, disconnected, UNCHANGED <<nmExists, nmDev, serverKey>>,
         backendAvailable => /\ nmDev.st \notin Live
                             /\ RequestsFit(toNM', nmDev) /\ MessagesFit(fromNM', nmDev)
                             /\ CacheFits(dev', nmDev, fromNM')
  PROVE  PatientPart'
<1> USE DEF PatientInv, PatientPart
<1>1. /\ state' = "Off" /\ queue' = <<>> /\ call' = NoCall /\ UNCHANGED backendAvailable
      /\ initiator' \in {"Null", initiator}
  BY DEF disconnected, SetState, ClearAttempt, NetInv, NetPart, ProfilesOnly, backend
<1>2. ClientShown' /\ DeviceStates'
  BY <1>1 DEF ClientShown, DeviceStates, NM!NoNMDevice
<1>3. CASE backendAvailable
  <2>1. ShownFits(state', dev', nmDev)
    BY <1>1, <1>3 DEF ShownFits
  <2>2. Following'
    BY <1>1, <1>3, <2>1, CallOps DEF Following
  <2> QED
    BY <1>1, <1>2, <1>3, <2>2 DEF ReadyFits, NM!NoNMDevice
<1> QED
  BY <1>1, <1>2, <1>3

\* deactivate() of the backend, with the active connection the client knows.
LEMMA PatientTakesDown ==
  ASSUME PatientInv, implDeactivate
  PROVE  PatientPart'
<1> USE DEF PatientInv, PatientPart
<1>0. call.op = "deactivate" /\ call # NoCall
  BY CallOps DEF implDeactivate
<1>1. backendAvailable => Following
  BY <1>0 DEF ReadyFits, Submitted, Announced
<1>2. backendAvailable /\ nmDev.st \in Live => dev.ac = nmDev.ac /\ dev.ac # 0
  BY <1>1 DEF Following, CacheFits, DeviceStates, NM!NoNMDevice, Live
<1>3. CASE NM!AlreadyDisconnected /\ disconnected /\ UNCHANGED netVars
  <2>1. UNCHANGED <<toNM, fromNM, dev, nmDev, nmExists, serverKey>>
    BY <1>3 DEF netVars
  <2>2. backendAvailable => nmDev.st \notin Live
    BY <1>2, <1>3 DEF NM!AlreadyDisconnected
  <2>3. backendAvailable => /\ RequestsFit(toNM', nmDev) /\ MessagesFit(fromNM', nmDev)
                            /\ CacheFits(dev', nmDev, fromNM')
    BY <1>1, <2>1 DEF Following
  <2> QED
    BY <1>3, <2>1, <2>2, <2>3, PatientDisconnected
<1>4. CASE NM!deactivate /\ implReturn
  <2> DEFINE r == [op |-> "deactivate", ac |-> dev.ac]
  <2>1. /\ toNM' = Append(toNM, r)
        /\ UNCHANGED <<dev, serverKey, fromNM, nmExists, nmDev>>
        /\ call' = NoCall /\ UNCHANGED <<state, initiator, queue, backendAvailable>>
    BY <1>4 DEF NM!deactivate, NM!Send, NM!clientVars, NM!nmVars, implReturn, attempt, backend
  <2>2. ClientShown' /\ DeviceStates'
    BY <2>1 DEF ClientShown, DeviceStates, NM!NoNMDevice
  <2>3. state # "Initializing"
    BY <1>0 DEF NetInv, NetPart, UnavailableIsQuiet
  <2>4. CASE backendAvailable
    <3>1. dev \in NM!Device /\ toNM \in Seq(NM!Request)
      BY DEF NetInv, NetPart, NM!NetTypeOK
    <3>2. r \in NM!Request /\ r.op = "deactivate" /\ r.ac = dev.ac
      BY <3>1 DEF NM!Request, NM!Device
    <3>3. RequestsFit(toNM, nmDev)
      BY <1>1, <2>4 DEF Following
    <3> HIDE DEF r
    <3>4. RequestsFit(toNM', nmDev)
      BY <1>2, <2>1, <2>4, <3>1, <3>2, <3>3, RequestsStayFit
    <3>5. Following'
      BY <1>1, <2>1, <2>4, <3>4, CallOps DEF Following
    <3> QED
      BY <2>1, <2>2, <2>3, <2>4, <3>5 DEF ReadyFits, NM!NoNMDevice
  <2> QED
    BY <2>1, <2>2, <2>3, <2>4
<1> QED
  BY <1>3, <1>4 DEF implDeactivate

-----------------------------------------------------------------------------
(* Replies, signals and the poll timer.                                    *)

\* Any message but the two that start a tunnel reaches a client that follows.
LEMMA MessageFollowed ==
  ASSUME PatientInv, backendAvailable, NEW ev, NM!Receive(ev), ev \notin {"updated", "deviceAdded"}
  PROVE  /\ Following /\ MessagesFit(fromNM', nmDev) /\ MessageFits(Head(fromNM), nmDev)
         /\ \A id : Removed(fromNM, id) /\ ~(ev = "deviceRemoved" /\ Head(fromNM).id = id)
                      => Removed(fromNM', id)
<1>1. /\ fromNM # <<>> /\ Head(fromNM).ev = ev /\ fromNM' = Tail(fromNM)
      /\ fromNM \in Seq(NM!Event)
  BY NetFacts DEF NM!Receive, PatientInv
<1>2. ~Submitted
  <2>1. fromNM = <<[ev |-> "updated"]>> => Head(fromNM).ev = "updated"
    OBVIOUS
  <2> QED
    BY <1>1, <2>1 DEF Submitted
<1>3. ~Announced
  <2>1. \A m : fromNM = <<m>> => Head(fromNM) = m
    OBVIOUS
  <2>2. \A m, n : fromNM = <<m, n>> => Head(fromNM) = m
    OBVIOUS
  <2> QED
    BY <1>1, <2>1, <2>2 DEF Announced
<1>4. Following
  BY <1>2, <1>3 DEF PatientInv, PatientPart, ReadyFits
<1>5. MessagesFit(fromNM, nmDev)
  BY <1>4 DEF Following
<1> QED
  BY <1>1, <1>4, <1>5, TakenFits

\* A message that leaves the controller alone.
LEMMA PatientNews ==
  ASSUME PatientInv, UNCHANGED <<state, initiator, queue, call, backendAvailable>>,
         UNCHANGED <<nmExists, nmDev, serverKey>>, state = "Initializing" => BeforeReady',
         backendAvailable => Submitted' \/ Announced' \/ Following'
  PROVE  PatientPart'
<1> USE DEF PatientInv, PatientPart
<1>1. ClientShown' /\ DeviceStates'
  BY DEF ClientShown, DeviceStates, NM!NoNMDevice
<1>2. backendAvailable => ReadyFits'
  BY DEF ReadyFits, NM!NoNMDevice
<1> QED
  BY <1>1, <1>2

\* backendFailure() changes the error only.
LEMMA PatientFailure ==
  ASSUME PatientInv, backendError
  PROVE  PatientPart'
<1>1. /\ NM!Receive("failed")
      /\ UNCHANGED <<state, initiator, queue, call, backendAvailable>>
      /\ UNCHANGED <<dev, toNM, serverKey, nmExists, nmDev>>
  BY DEF backendError, NM!dbusBackendError, handleBackendFailure, attempt, backend,
         NM!clientVars, NM!nmVars
<1>2. state # "Initializing"
  BY <1>1, ReceivePart DEF PatientInv, NetInv, NetPart, UnavailableIsQuiet
<1>3. CASE backendAvailable
  <2>1. /\ Following /\ MessagesFit(fromNM', nmDev)
        /\ \A id : Removed(fromNM, id) => Removed(fromNM', id)
    BY <1>1, <1>3, MessageFollowed
  <2>2. CacheFits(dev', nmDev, fromNM')
    BY <1>1, <2>1 DEF Following, CacheFits
  <2>3. Following'
    BY <1>1, <2>1, <2>2 DEF Following
  <2> QED
    BY <1>1, <1>2, <2>3, PatientNews
<1> QED
  BY <1>1, <1>2, <1>3, PatientNews

\* The reply to DeactivateConnection, and the removal of the client's device.
LEMMA PatientTunnelEnds ==
  ASSUME PatientInv, tunnelEnds
  PROVE  PatientPart'
<1>0. disconnected
  BY DEF tunnelEnds
<1>1. CASE NM!deactivateFinished
  <2>1. NM!Receive("deactivated") /\ UNCHANGED <<dev, toNM, serverKey, nmExists, nmDev>>
    BY <1>1 DEF NM!deactivateFinished, NM!clientVars, NM!nmVars
  <2>2. CASE backendAvailable
    <3>1. /\ Following /\ MessagesFit(fromNM', nmDev) /\ MessageFits(Head(fromNM), nmDev)
          /\ \A id : Removed(fromNM, id) => Removed(fromNM', id)
      BY <2>1, <2>2, MessageFollowed
    <3>2. Head(fromNM).ev = "deactivated"
      BY <2>1 DEF NM!Receive
    <3>3. nmDev.st \notin Live
      BY <3>1, <3>2 DEF MessageFits
    <3>4. CacheFits(dev', nmDev, fromNM') /\ RequestsFit(toNM', nmDev)
      BY <2>1, <3>1 DEF Following, CacheFits
    <3> QED
      BY <1>0, <2>1, <3>1, <3>3, <3>4, PatientDisconnected
  <2> QED
    BY <1>0, <2>1, <2>2, PatientDisconnected
<1>2. CASE NM!deviceRemoved
  <2>1. /\ NM!Receive("deviceRemoved") /\ dev' = NM!NoDevice /\ dev # NM!NoDevice
        /\ Head(fromNM).id = dev.id /\ UNCHANGED <<toNM, serverKey, nmExists, nmDev>>
    BY <1>2 DEF NM!deviceRemoved, NM!IsOurDevice, NM!nmVars
  <2>2. CASE backendAvailable
    <3>1. Following /\ MessagesFit(fromNM', nmDev) /\ MessageFits(Head(fromNM), nmDev)
      BY <2>1, <2>2, MessageFollowed
    <3>2. Head(fromNM).ev = "deviceRemoved"
      BY <2>1 DEF NM!Receive
    <3>3. nmDev = NM!NoNMDevice
      BY <2>1, <3>1, <3>2 DEF MessageFits, Following, CacheFits
    <3>4. nmDev.st \notin Live
      BY <3>3 DEF NM!NoNMDevice, Live
    <3>5. CacheFits(dev', nmDev, fromNM') /\ RequestsFit(toNM', nmDev)
      BY <2>1, <3>1, <3>3 DEF Following, CacheFits
    <3> QED
      BY <1>0, <2>1, <3>1, <3>4, <3>5, PatientDisconnected
  <2> QED
    BY <1>0, <2>1, <2>2, PatientDisconnected
<1> QED
  BY <1>1, <1>2 DEF tunnelEnds

\* The settings are updated: the activation goes on.
LEMMA PatientPeerCompleted ==
  ASSUME PatientInv, UNCHANGED ctlVars, NM!peerCompleted
  PROVE  PatientPart'
<1>1. /\ NM!Receive("updated") /\ toNM' = Append(toNM, [op |-> "activate"])
      /\ UNCHANGED <<dev, serverKey, nmExists, nmKey, nmDev>>
      /\ UNCHANGED <<state, initiator, queue, call, backendAvailable>>
  BY DEF NM!peerCompleted, NM!Send, NM!clientVars, NM!nmVars, ctlVars, attempt, backend
<1>2. state # "Initializing"
  BY <1>1, ReceivePart DEF PatientInv, NetInv, NetPart, UnavailableIsQuiet
<1>3. CASE backendAvailable
  <2>1. fromNM # <<>> /\ Head(fromNM).ev = "updated" /\ fromNM' = Tail(fromNM)
    BY <1>1 DEF NM!Receive
  <2>2. ~Following
    <3>1. fromNM \in Seq(NM!Event)
      BY NetFacts DEF PatientInv
    <3>2. ~MessagesFit(fromNM, nmDev)
      BY <2>1, <3>1, TakenFits DEF MessageFits
    <3> QED
      BY <3>2 DEF Following
  <2>3. ~Announced
    <3>1. \A m : fromNM = <<m>> => Head(fromNM) = m
      OBVIOUS
    <3>2. \A m, n : fromNM = <<m, n>> => Head(fromNM) = m
      OBVIOUS
    <3> QED
      BY <2>1, <3>1, <3>2 DEF Announced
  <2>4. Submitted
    BY <1>3, <2>2, <2>3 DEF PatientInv, PatientPart, ReadyFits
  <2>5. toNM = <<>> /\ fromNM = <<[ev |-> "updated"]>> /\ nmKey = serverKey /\ call = NoCall
    BY <2>1, <2>4 DEF Submitted
  <2>6. toNM' = <<[op |-> "activate"]>> /\ fromNM' = <<>>
    BY <1>1, <2>1, <2>5
  <2>7. Submitted'
    BY <1>1, <2>4, <2>5, <2>6 DEF Submitted, NM!NoDevice, NM!NoNMDevice, NoCall
  <2> QED
    BY <1>1, <1>2, <2>7, PatientNews
<1> QED
  BY <1>1, <1>2, <1>3, PatientNews

\* The removal of a device that is not the client's.
LEMMA PatientOtherRemoved ==
  ASSUME PatientInv, UNCHANGED ctlVars, NM!otherDeviceRemoved
  PROVE  PatientPart'
<1>1. /\ NM!Receive("deviceRemoved") /\ ~NM!IsOurDevice(Head(fromNM).id)
      /\ UNCHANGED <<dev, toNM, serverKey, nmExists, nmKey, nmDev>>
      /\ UNCHANGED <<state, initiator, queue, call, backendAvailable>>
  BY DEF NM!otherDeviceRemoved, NM!clientVars, NM!nmVars, ctlVars, attempt, backend
<1>2. state = "Initializing" => BeforeReady'
  <2>1. CASE state = "Initializing"
    <3>1. /\ fromNM # <<>> /\ Head(fromNM).ev = "deviceRemoved" /\ fromNM' = Tail(fromNM)
          /\ fromNM \in Seq(NM!Event)
      BY <1>1, NetFacts DEF NM!Receive, PatientInv
    <3>2. BeforeReady
      BY <2>1 DEF PatientInv, PatientPart
    <3>3. /\ toNM = <<>> /\ nmDev = NM!NoNMDevice /\ nmExists
          /\ \A i \in DOMAIN fromNM : fromNM[i].ev = "deviceRemoved"
      <4>1. \A m : fromNM = <<m>> => Head(fromNM) = m
        OBVIOUS
      <4> QED
        BY <3>1, <3>2, <4>1 DEF BeforeReady
    <3> DEFINE t == Tail(fromNM)
    <3>4. \A i \in DOMAIN t : i + 1 \in DOMAIN fromNM /\ t[i] = fromNM[i + 1]
      BY <3>1, TailMessages
    <3> HIDE DEF t
    <3>5. \A i \in DOMAIN t : t[i].ev = "deviceRemoved"
      BY <3>3, <3>4
    <3>6. \A i \in DOMAIN fromNM' : fromNM'[i].ev = "deviceRemoved"
      BY <3>1, <3>5 DEF t
    <3> QED
      BY <1>1, <3>2, <3>3, <3>6 DEF BeforeReady, NM!NoNMDevice
  <2> QED
    BY <2>1
<1>3. CASE backendAvailable
  <2>1. /\ Following /\ MessagesFit(fromNM', nmDev)
        /\ \A id : Removed(fromNM, id) /\ Head(fromNM).id # id => Removed(fromNM', id)
    BY <1>1, <1>3, MessageFollowed
  <2>2. dev # NM!NoDevice => Head(fromNM).id # dev.id
    BY <1>1 DEF NM!IsOurDevice
  <2>3. CacheFits(dev', nmDev, fromNM')
    BY <1>1, <2>1, <2>2 DEF Following, CacheFits
  <2>4. Following'
    BY <1>1, <2>1, <2>3 DEF Following
  <2> QED
    BY <1>1, <1>2, <2>4, PatientNews
<1> QED
  BY <1>1, <1>2, <1>3, PatientNews

\* The announced device is read, unless it has gone already.
LEMMA PatientDeviceAdded ==
  ASSUME PatientInv, UNCHANGED ctlVars, NM!deviceAdded
  PROVE  PatientPart'
<1>1. /\ NM!Receive("deviceAdded") /\ UNCHANGED <<toNM, serverKey, nmExists, nmKey, nmDev>>
      /\ UNCHANGED <<state, initiator, queue, call, backendAvailable>>
  BY DEF NM!deviceAdded, NM!nmVars, ctlVars, attempt, backend
<1>2. state # "Initializing"
  BY <1>1, ReceivePart DEF PatientInv, NetInv, NetPart, UnavailableIsQuiet
<1>3. CASE backendAvailable
  <2>1. fromNM # <<>> /\ Head(fromNM).ev = "deviceAdded" /\ fromNM' = Tail(fromNM)
    BY <1>1 DEF NM!Receive
  <2>2. ~Following
    <3>1. fromNM \in Seq(NM!Event)
      BY NetFacts DEF PatientInv
    <3>2. ~MessagesFit(fromNM, nmDev)
      BY <2>1, <3>1, TakenFits DEF MessageFits
    <3> QED
      BY <3>2 DEF Following
  <2>3. ~Submitted
    <3>1. fromNM = <<[ev |-> "updated"]>> => Head(fromNM).ev = "updated"
      OBVIOUS
    <3> QED
      BY <2>1, <3>1 DEF Submitted
  <2>4. Announced
    BY <1>3, <2>2, <2>3 DEF PatientInv, PatientPart, ReadyFits
  <2>5. RequestsFit(toNM', nmDev) /\ call' = NoCall /\ state' = "Confirming"
    BY <1>1, <2>4 DEF Announced, RequestsFit
  <2>6. CASE nmDev # NM!NoNMDevice
    <3> DEFINE m == [ev |-> "deviceAdded", id |-> nmDev.id]
    <3>1. fromNM = <<m>>
      BY <2>4, <2>6 DEF Announced
    <3>2. m.id = nmDev.id
      OBVIOUS
    <3> HIDE DEF m
    <3>3. Head(fromNM) = m /\ DOMAIN fromNM' = {}
      BY <2>1, <3>1
    <3>4. dev' = NM!Snapshot
      BY <3>2, <3>3 DEF NM!deviceAdded
    <3>5. MessagesFit(fromNM', nmDev)
      BY <3>3 DEF MessagesFit
    <3>6. CacheFits(dev', nmDev, fromNM')
      BY <3>4, SnapshotFits
    <3>7. Following'
      BY <1>1, <2>5, <3>5, <3>6, CallOps DEF Following, ShownFits
    <3> QED
      BY <1>1, <1>2, <3>7, PatientNews
  <2>7. CASE nmDev = NM!NoNMDevice
    <3>1. PICK i \in NM!Ids : i # 0 /\
            fromNM = <<[ev |-> "deviceAdded", id |-> i], [ev |-> "deviceRemoved", id |-> i]>>
      BY <2>4, <2>7 DEF Announced
    <3> DEFINE m == [ev |-> "deviceAdded", id |-> i]
               n == [ev |-> "deviceRemoved", id |-> i]
    <3>2. fromNM = <<m, n>> /\ m.id = i /\ n.ev = "deviceRemoved"
      BY <3>1
    <3> HIDE DEF m, n
    <3>3. Head(fromNM) = m /\ fromNM' = <<n>>
      BY <2>1, <3>2
    <3>4. Head(fromNM).id # nmDev.id
      BY <2>7, <3>1, <3>2, <3>3 DEF NM!NoNMDevice
    <3>5. dev' = dev /\ dev = NM!NoDevice
      BY <2>4, <3>4 DEF NM!deviceAdded, Announced
    <3>6. \A j \in DOMAIN fromNM' : fromNM'[j] = n
      BY <3>3
    <3>7. MessagesFit(fromNM', nmDev)
      BY <2>7, <3>2, <3>6 DEF MessagesFit, MessageFits
    <3>8. CacheFits(dev', nmDev, fromNM')
      BY <2>7, <3>5 DEF CacheFits
    <3>9. Following'
      BY <1>1, <2>5, <3>7, <3>8, CallOps DEF Following, ShownFits
    <3> QED
      BY <1>1, <1>2, <3>9, PatientNews
  <2> QED
    BY <2>6, <2>7
<1> QED
  BY <1>1, <1>2, <1>3, PatientNews

\* A signal about the device the client follows brings it closer.
LEMMA PatientStateChanged ==
  ASSUME PatientInv, UNCHANGED ctlVars, NM!dbusStateChanged
  PROVE  PatientPart'
<1> DEFINE e == Head(fromNM)
           d == [id |-> e.id, st |-> e.st, ac |-> e.ac]
<1>1. /\ NM!Receive("state") /\ UNCHANGED <<toNM, serverKey, nmExists, nmKey, nmDev>>
      /\ UNCHANGED <<state, initiator, queue, call, backendAvailable>>
  BY DEF NM!dbusStateChanged, NM!nmVars, ctlVars, attempt, backend
<1>2. state # "Initializing"
  BY <1>1, ReceivePart DEF PatientInv, NetInv, NetPart, UnavailableIsQuiet
<1>3. \/ NM!IsOurDevice(e.id) /\ dev' = d
      \/ dev' = dev
  BY DEF NM!dbusStateChanged
<1>4. d.id = e.id /\ d.st = e.st /\ d.ac = e.ac
  OBVIOUS
<1>5. e.ev = "state"
  BY <1>1 DEF NM!Receive
<1> HIDE DEF d, e
<1>6. CASE backendAvailable
  <2>1. /\ Following /\ MessagesFit(fromNM', nmDev) /\ MessageFits(e, nmDev)
        /\ \A id : Removed(fromNM, id) => Removed(fromNM', id)
    BY <1>1, <1>6, MessageFollowed DEF e
  <2>2. dev'.id = dev.id
    BY <1>3, <1>4 DEF NM!IsOurDevice
  <2>3. CacheFits(dev', nmDev, fromNM')
    <3>1. CASE dev' = dev
      BY <2>1, <3>1 DEF Following, CacheFits
    <3>2. CASE NM!IsOurDevice(e.id) /\ dev' = d
      <4>1. dev # NM!NoDevice /\ dev.id = e.id
        BY <3>2 DEF NM!IsOurDevice
      <4>2. CASE nmDev = NM!NoNMDevice
        BY <2>1, <2>2, <4>1, <4>2 DEF Following, CacheFits
      <4>3. CASE nmDev # NM!NoNMDevice
        BY <1>4, <1>5, <2>1, <3>2, <4>1, <4>3 DEF Following, CacheFits, MessageFits
      <4> QED
        BY <4>2, <4>3
    <3> QED
      BY <1>3, <3>1, <3>2
  <2>4. ShownFits(state', dev', nmDev')
    BY <1>1, <2>1, <2>2 DEF Following, ShownFits
  <2>5. Following'
    BY <1>1, <2>1, <2>3, <2>4 DEF Following
  <2> QED
    BY <1>1, <1>2, <2>5, PatientNews
<1> QED
  BY <1>1, <1>2, <1>6, PatientNews

\* Handshake traffic: StateOn only for a device that was up.
LEMMA PatientHandshake ==
  ASSUME PatientInv, handshakeSeen
  PROVE  PatientPart'
<1> USE DEF PatientInv, PatientPart
<1>1. /\ waiting /\ dev.ac # 0 /\ dev.st = "ACTIVATED" /\ NM!rxBytes > baseline
      /\ call = NoCall
      /\ UNCHANGED <<dev, serverKey, toNM, fromNM, nmExists, nmKey, nmDev>>
  BY DEF handshakeSeen, Idle, NM!checkHandshakeTraffic, NM!nmVars
<1>2. backendAvailable /\ state # "Initializing" /\ serverKey \in Keys
  BY <1>1 DEF NetInv, NetPart, UnavailableIsQuiet, WaitHasPeer
<1>3. Following
  BY <1>1, <1>2 DEF ReadyFits, Submitted, Announced, NM!NoDevice
<1>4. nmDev.id = dev.id
  <2>1. baseline \in 0 .. MaxRx /\ MaxRx \in Nat
    BY NetmgrAssumption DEF NetInv, NetPart, NM!NetTypeOK
  <2> QED
    BY <1>1, <2>1 DEF NM!rxBytes
<1>5. dev.id # 0 /\ nmDev # NM!NoNMDevice
  <2>1. dev # NM!NoDevice
    BY <1>1 DEF NM!NoDevice
  <2> QED
    BY <1>4, <2>1 DEF NetInv, NetPart, DevicesSound, NM!NoNMDevice
<1>6. nmDev.st \in WasUp
  BY <1>1, <1>3, <1>5 DEF Following, CacheFits
<1>7. CASE ~Expected(serverKey)
  <2>1. UNCHANGED <<state, initiator, queue, call, backendAvailable>>
    BY <1>7 DEF handshakeSeen, ctlVars, attempt, backend
  <2>2. Following'
    BY <1>1, <1>3, <2>1 DEF Following
  <2> QED
    BY <1>1, <1>2, <2>1, <2>2, PatientNews
<1>8. CASE Expected(serverKey)
  <2>1. AllHopsConnected /\ UNCHANGED <<initiator, backendAvailable>>
    <3>1. ~(Len(queue) > 1)
      BY DEF NetInv, NetPart, ProfilesOnly, CtlInv, TypeOK
    <3> QED
      BY <1>8, <3>1 DEF handshakeSeen, connected, backend
  <2>2. \/ state' = "Disconnecting" /\ call' = CallDeactivate
        \/ state' = "On" /\ call' = call
    <3>1. ConnectedState = "On"
      BY DEF ConnectedState, ClientShown
    <3>2. CASE nextStep \in {"Quit", "Disconnect", "Update"}
      <4>1. Deactivation(ConnectedState)
        BY <2>1, <3>2 DEF AllHopsConnected
      <4> QED
        BY <3>1, <4>1 DEF Deactivation, SetState
    <3>3. CASE nextStep \notin {"Quit", "Disconnect", "Update"}
      <4>1. SetState(ConnectedState) /\ UNCHANGED call
        BY <2>1, <3>3 DEF AllHopsConnected
      <4> QED
        BY <3>1, <4>1 DEF SetState
    <3> QED
      BY <3>2, <3>3
  <2>3. ClientShown' /\ DeviceStates'
    BY <1>1, <1>2, <2>1, <2>2 DEF ClientShown, DeviceStates, NM!NoNMDevice
  <2>4. ShownFits(state', dev, nmDev)
    BY <1>5, <1>6, <2>2 DEF ShownFits, WasUp
  <2>5. Following'
    BY <1>1, <1>3, <2>2, <2>4, CallOps DEF Following
  <2> QED
    BY <1>1, <1>2, <2>1, <2>2, <2>3, <2>5 DEF ReadyFits, NM!NoNMDevice
<1> QED
  BY <1>7, <1>8

-----------------------------------------------------------------------------
(* NetworkManager.                                                         *)

\* A step of NetworkManager leaves the controller and the client's device alone.
LEMMA PatientNM ==
  ASSUME PatientInv, UNCHANGED ctlVars, UNCHANGED serverKey, DeviceStates',
         state = "Initializing" => BeforeReady',
         backendAvailable => /\ nmExists'
                             /\ nmDev' # NM!NoNMDevice => serverKey \in {NoKey, nmDev'.key}
                             /\ Submitted' \/ Announced' \/ Following'
  PROVE  PatientPart'
<1> USE DEF PatientInv, PatientPart
<1>1. UNCHANGED <<state, initiator, queue, backendAvailable>>
  BY DEF ctlVars, attempt, backend
<1>2. ClientShown'
  BY <1>1 DEF ClientShown
<1>3. backendAvailable => ReadyFits'
  BY DEF ReadyFits, NM!NoNMDevice
<1> QED
  BY <1>1, <1>2, <1>3

\* The first request is the one of the phase.
LEMMA FirstRequest ==
  ASSUME PatientInv, toNM # <<>>
  PROVE  /\ state = "Initializing" =>
              /\ toNM = <<[op |-> "add"]>> /\ fromNM = <<>> /\ nmDev = NM!NoNMDevice
              /\ Head(toNM).op = "add" /\ Tail(toNM) = <<>> /\ call = NoCall
         /\ backendAvailable =>
              \/ /\ Following /\ Head(toNM).op = "deactivate" /\ RequestsFit(Tail(toNM), nmDev)
                 /\ nmDev.st \in Live => Head(toNM).ac = nmDev.ac
              \/ /\ Submitted /\ call = NoCall /\ fromNM = <<>> /\ Tail(toNM) = <<>>
                 /\ \/ Head(toNM).op = "update" /\ Head(toNM).key = serverKey
                    \/ Head(toNM).op = "activate" /\ nmKey = serverKey
<1>0. toNM \in Seq(NM!Request)
  BY NetFacts DEF PatientInv
<1>1. \A m : toNM = <<m>> => Head(toNM) = m /\ Tail(toNM) = <<>>
  OBVIOUS
<1>2. ASSUME state = "Initializing"
      PROVE  /\ toNM = <<[op |-> "add"]>> /\ fromNM = <<>> /\ nmDev = NM!NoNMDevice
             /\ call = NoCall
  BY <1>2 DEF PatientInv, PatientPart, BeforeReady
<1>3. CASE Following
  <2>1. RequestsFit(toNM, nmDev)
    BY <1>3 DEF Following
  <2>2. /\ RequestsFit(Tail(toNM), nmDev) /\ Head(toNM).op = "deactivate"
        /\ nmDev.st \in Live => Head(toNM).ac = nmDev.ac
    BY <1>0, <2>1, RequestsStayFit
  <2> QED
    BY <1>1, <1>2, <1>3, <2>2
<1>4. CASE Submitted
  <2>1. /\ call = NoCall /\ fromNM = <<>>
        /\ \/ toNM = <<[op |-> "update", key |-> serverKey]>>
           \/ toNM = <<[op |-> "activate"]>> /\ nmKey = serverKey
    BY <1>4 DEF Submitted
  <2> QED
    BY <1>1, <1>2, <1>4, <2>1
<1>5. CASE backendAvailable
  BY <1>1, <1>2, <1>3, <1>4, <1>5 DEF PatientInv, PatientPart, ReadyFits, Announced
<1> QED
  BY <1>1, <1>2, <1>5

\* NetworkManager adds the connection, or someone else does.
LEMMA PatientAdds ==
  ASSUME PatientInv, UNCHANGED ctlVars, NM!nmAdd \/ NM!nmAddedElsewhere
  PROVE  PatientPart'
<1>1. toNM # <<>> /\ UNCHANGED <<serverKey, dev, nmDev>>
  BY DEF NM!nmAdd, NM!nmAddedElsewhere, NM!Take, NM!clientVars
<1>2. DeviceStates'
  BY <1>1 DEF PatientInv, PatientPart, DeviceStates, NM!NoNMDevice
<1>3. ~backendAvailable
  <2>1. CASE NM!nmAdd
    BY <1>1, <2>1, FirstRequest DEF NM!nmAdd, NM!Take
  <2>2. CASE NM!nmAddedElsewhere
    BY <2>2 DEF NM!nmAddedElsewhere, PatientInv, PatientPart, ReadyFits
  <2> QED
    BY <2>1, <2>2
<1>4. ASSUME state = "Initializing" PROVE BeforeReady'
  <2>1. /\ toNM = <<[op |-> "add"]>> /\ fromNM = <<>> /\ nmDev = NM!NoNMDevice
        /\ Tail(toNM) = <<>> /\ call = NoCall /\ BeforeReady
    BY <1>1, <1>4, FirstRequest DEF PatientInv, PatientPart
  <2>2. call' = NoCall
    BY <2>1 DEF ctlVars
  <2>3. CASE NM!nmAdd
    <3>1. /\ toNM' = <<>>
          /\ \/ nmExists' = TRUE /\ fromNM' = Append(fromNM, [ev |-> "added"])
             \/ fromNM' = Append(fromNM, [ev |-> "addFailed"])
      BY <2>1, <2>3 DEF NM!nmAdd, NM!Take, NM!Reply
    <3>2. \A m : Append(<<>>, m) = <<m>>
      OBVIOUS
    <3>3. \/ nmExists' = TRUE /\ fromNM' = <<[ev |-> "added"]>>
          \/ fromNM' = <<[ev |-> "addFailed"]>>
      BY <2>1, <3>1, <3>2
    <3> QED
      BY <1>1, <2>1, <2>2, <3>1, <3>3 DEF BeforeReady, NM!NoNMDevice
  <2>4. CASE NM!nmAddedElsewhere
    <3>1. UNCHANGED <<toNM, fromNM>>
      BY <2>4 DEF NM!nmAddedElsewhere
    <3> QED
      BY <1>1, <2>1, <2>2, <3>1 DEF BeforeReady, NM!NoNMDevice
  <2> QED
    BY <2>3, <2>4
<1> QED
  BY <1>1, <1>2, <1>3, <1>4, PatientNM

\* Update2 is answered.
LEMMA PatientUpdates ==
  ASSUME PatientInv, UNCHANGED ctlVars, NM!nmUpdate
  PROVE  PatientPart'
<1>1. /\ toNM # <<>> /\ Head(toNM).op = "update" /\ toNM' = Tail(toNM)
      /\ UNCHANGED <<serverKey, dev, nmDev, nmExists>>
      /\ \/ nmKey' = Head(toNM).key /\ fromNM' = Append(fromNM, [ev |-> "updated"])
         \/ fromNM' = Append(fromNM, [ev |-> "failed"])
  BY DEF NM!nmUpdate, NM!Take, NM!Reply, NM!clientVars
<1>2. DeviceStates'
  BY <1>1 DEF PatientInv, PatientPart, DeviceStates, NM!NoNMDevice
<1>3. state # "Initializing"
  BY <1>1, FirstRequest
<1>4. UNCHANGED <<state, call>>
  BY DEF ctlVars
<1>5. CASE backendAvailable
  <2>1. /\ Submitted /\ call = NoCall /\ fromNM = <<>> /\ toNM' = <<>>
        /\ Head(toNM).key = serverKey
    BY <1>1, <1>5, FirstRequest
  <2>2. state = "Confirming" /\ dev = NM!NoDevice /\ nmDev = NM!NoNMDevice
    BY <2>1 DEF Submitted
  <2>3. \A m : Append(<<>>, m) = <<m>>
    OBVIOUS
  <2>4. ASSUME nmKey' = serverKey, fromNM' = <<[ev |-> "updated"]>>
        PROVE  Submitted'
    BY <1>1, <1>4, <2>1, <2>2, <2>4 DEF Submitted, NM!NoDevice, NM!NoNMDevice
  <2>5. ASSUME fromNM' = <<[ev |-> "failed"]>>
        PROVE  Following'
    <3> DEFINE m == [ev |-> "failed"]
    <3>1. m.ev = "failed" /\ fromNM' = <<m>>
      BY <2>5
    <3> HIDE DEF m
    <3>2. \A i \in DOMAIN fromNM' : fromNM'[i] = m
      BY <3>1
    <3>3. MessagesFit(fromNM', nmDev)
      BY <3>1, <3>2 DEF MessagesFit, MessageFits
    <3>4. RequestsFit(toNM', nmDev) /\ CacheFits(dev, nmDev, fromNM')
      BY <2>1, <2>2 DEF RequestsFit, CacheFits
    <3>5. Following'
      BY <1>1, <1>4, <2>1, <2>2, <3>3, <3>4, CallOps DEF Following, ShownFits
    <3> QED
      BY <3>5
  <2>6. Submitted' \/ Following'
    BY <1>1, <2>1, <2>3, <2>4, <2>5
  <2> QED
    BY <1>1, <1>2, <1>3, <1>5, <2>2, <2>6, PatientNM
       DEF PatientInv, PatientPart, ReadyFits, NM!NoNMDevice
<1> QED
  BY <1>1, <1>2, <1>3, <1>5, PatientNM

\* ActivateConnection makes the device, with the peer that was asked for.
LEMMA PatientNMActivates ==
  ASSUME PatientInv, UNCHANGED ctlVars, NM!nmActivate
  PROVE  PatientPart'
<1>1. /\ toNM # <<>> /\ Head(toNM).op = "activate" /\ toNM' = Tail(toNM)
      /\ UNCHANGED <<serverKey, dev, nmExists, nmKey>>
  BY DEF NM!nmActivate, NM!Take, NM!clientVars
<1>2. state # "Initializing"
  BY <1>1, FirstRequest
<1>3. UNCHANGED <<state, call>>
  BY DEF ctlVars
<1>4. \/ /\ nmDev = NM!NoNMDevice
         /\ nmDev' = [id |-> lastId + 1, st |-> "PREPARE", ac |-> lastId + 1, rx |-> 0,
                      key |-> nmKey]
         /\ fromNM' = Append(fromNM, [ev |-> "deviceAdded", id |-> lastId + 1])
      \/ /\ nmDev.st \in {"PREPARE", "ACTIVATED"}
         /\ nmDev' = [nmDev EXCEPT !.st = "PREPARE", !.ac = lastId + 1, !.key = nmKey]
      \/ fromNM' = Append(fromNM, [ev |-> "failed"]) /\ nmDev' = nmDev
  BY DEF NM!nmActivate, NM!Reply
<1>5. lastId + 1 # 0 /\ nmDev \in NM!NMDevice
  <2>1. lastId \in NM!Ids /\ MaxActivations \in Nat
    BY NetFacts, NetmgrAssumption DEF PatientInv
  <2> QED
    BY <2>1, NetFacts DEF NM!Ids, PatientInv
<1>6. DeviceStates'
  <2>1. CASE nmDev' = nmDev
    BY <2>1 DEF PatientInv, PatientPart, DeviceStates, NM!NoNMDevice
  <2>2. CASE nmDev' # nmDev
    <3>1. nmDev'.st = "PREPARE" /\ nmDev'.ac = lastId + 1
      <4>1. CASE nmDev' = [id |-> lastId + 1, st |-> "PREPARE", ac |-> lastId + 1, rx |-> 0,
                           key |-> nmKey]
        BY <4>1
      <4>2. CASE nmDev' = [nmDev EXCEPT !.st = "PREPARE", !.ac = lastId + 1, !.key = nmKey]
        BY <1>5, <4>2 DEF NM!NMDevice
      <4> QED
        BY <1>4, <2>2, <4>1, <4>2
    <3> QED
      BY <1>5, <3>1 DEF DeviceStates
  <2> QED
    BY <2>1, <2>2
<1>7. CASE backendAvailable
  <2>1. Submitted /\ call = NoCall /\ fromNM = <<>> /\ toNM' = <<>> /\ nmKey = serverKey
    BY <1>1, <1>7, FirstRequest
  <2>2. state = "Confirming" /\ dev = NM!NoDevice /\ nmDev = NM!NoNMDevice
    BY <2>1 DEF Submitted
  <2>3. \A m : Append(<<>>, m) = <<m>>
    OBVIOUS
  <2>4. nmExists'
    BY <1>1, <1>7 DEF PatientInv, PatientPart, ReadyFits
  <2>5. CASE fromNM' = <<[ev |-> "failed"]>> /\ nmDev' = nmDev
    <3> DEFINE m == [ev |-> "failed"]
    <3>1. m.ev = "failed" /\ fromNM' = <<m>>
      BY <2>5
    <3> HIDE DEF m
    <3>2. \A i \in DOMAIN fromNM' : fromNM'[i] = m
      BY <3>1
    <3>3. MessagesFit(fromNM', nmDev)
      BY <3>1, <3>2 DEF MessagesFit, MessageFits
    <3>4. RequestsFit(toNM', nmDev) /\ CacheFits(dev, nmDev, fromNM')
      BY <2>1, <2>2 DEF RequestsFit, CacheFits
    <3>5. Following'
      BY <1>1, <1>3, <2>1, <2>2, <2>5, <3>3, <3>4, CallOps DEF Following, ShownFits
    <3> QED
      BY <1>1, <1>2, <1>6, <2>2, <2>4, <2>5, <3>5, PatientNM
  <2>6. CASE /\ nmDev' = [id |-> lastId + 1, st |-> "PREPARE", ac |-> lastId + 1, rx |-> 0,
                          key |-> nmKey]
             /\ fromNM' = <<[ev |-> "deviceAdded", id |-> lastId + 1]>>
    <3>1. nmDev'.id = lastId + 1 /\ nmDev'.key = nmKey
      BY <2>6
    <3>2. nmDev' # NM!NoNMDevice
      BY <1>5, <3>1 DEF NM!NoNMDevice
    <3>3. fromNM' = <<[ev |-> "deviceAdded", id |-> nmDev'.id]>>
      BY <2>6, <3>1
    <3>4. Announced'
      BY <1>1, <1>3, <2>1, <2>2, <3>2, <3>3 DEF Announced, NM!NoDevice, NM!NoNMDevice
    <3> QED
      BY <1>1, <1>2, <1>6, <2>1, <2>4, <3>1, <3>4, PatientNM
  <2> QED
    BY <1>4, <2>1, <2>2, <2>3, <2>5, <2>6 DEF NM!NoNMDevice
<1> QED
  BY <1>1, <1>2, <1>6, <1>7, PatientNM

\* A client that follows keeps following a device that moves or goes.
LEMMA FollowingMoves ==
  ASSUME PatientInv, Following, UNCHANGED <<state, call, dev>>, Moved(nmDev, nmDev'),
         RequestsFit(toNM', nmDev), MessagesFit(fromNM', nmDev'),
         \A id : Removed(fromNM, id) => Removed(fromNM', id),
         nmDev # NM!NoNMDevice /\ nmDev' = NM!NoNMDevice => Removed(fromNM', nmDev.id),
         nmDev.st \notin {"PREPARE", "FAILED"} => nmDev'.st \notin {"PREPARE", "FAILED"}
  PROVE  Following'
<1>1. RequestsFit(toNM', nmDev')
  BY MovedFits
<1>2. CacheFits(dev', nmDev', fromNM')
  <2>1. CASE nmDev' = NM!NoNMDevice
    BY <2>1 DEF Following, CacheFits
  <2>2. CASE nmDev' # NM!NoNMDevice
    BY <2>2 DEF Following, CacheFits, Moved
  <2> QED
    BY <2>1, <2>2
<1>3. ShownFits(state', dev', nmDev')
  BY DEF Following, ShownFits, Moved
<1> QED
  BY <1>1, <1>2, <1>3 DEF Following

\* The signal of a move reaches a client that follows, and is true.
LEMMA SignalFits ==
  ASSUME PatientInv, NEW d \in NM!NMDevice, d # NM!NoNMDevice,
         MessagesFit(fromNM, d)
  PROVE  /\ MessagesFit(NM!StateSignal(fromNM, d), d)
         /\ NM!StateSignal(fromNM, d) \in Seq(NM!Event)
         /\ \A id : Removed(fromNM, id) => Removed(NM!StateSignal(fromNM, d), id)
<1> DEFINE m == [ev |-> "state", id |-> d.id, st |-> d.st, ac |-> d.ac]
<1>1. m \in NM!Event /\ m.ev = "state" /\ m.st = d.st /\ m.ac = d.ac
  BY DEF NM!Event, NM!NMDevice
<1>2. NM!StateSignal(fromNM, d) = IF dev.id = d.id THEN Append(fromNM, m) ELSE fromNM
  BY DEF NM!StateSignal
<1> HIDE DEF m
<1>3. MessageFits(m, d)
  BY <1>1 DEF MessageFits, WasUp
<1>4. fromNM \in Seq(NM!Event)
  BY NetFacts DEF PatientInv
<1>5. /\ MessagesFit(Append(fromNM, m), d) /\ Append(fromNM, m) \in Seq(NM!Event)
      /\ \A id : Removed(fromNM, id) => Removed(Append(fromNM, m), id)
  BY <1>1, <1>3, <1>4, SentFits, AppendMessages
<1> QED
  BY <1>2, <1>4, <1>5

\* DeactivateConnection takes down what is up.
LEMMA PatientNMDeactivates ==
  ASSUME PatientInv, UNCHANGED ctlVars, NM!nmDeactivate
  PROVE  PatientPart'
<1>1. /\ toNM # <<>> /\ Head(toNM).op = "deactivate" /\ toNM' = Tail(toNM)
      /\ UNCHANGED <<serverKey, dev, nmExists, nmKey>>
  BY DEF NM!nmDeactivate, NM!Take, NM!clientVars
<1>2. state # "Initializing"
  BY <1>1, FirstRequest
<1>3. UNCHANGED <<state, call>>
  BY DEF ctlVars
<1>4. nmDev \in NM!NMDevice /\ (nmDev.st \in Live => nmDev # NM!NoNMDevice)
  BY NetFacts DEF PatientInv, Live, NM!NoNMDevice
<1> DEFINE m == [ev |-> "deactivated"]
<1>5. m \in NM!Event /\ m.ev = "deactivated"
  BY DEF NM!Event
<1>6. CASE /\ nmDev.st \in Live
           /\ nmDev' = [nmDev EXCEPT !.st = "DEACTIVATING"]
           /\ fromNM' = Append(NM!StateSignal(fromNM, nmDev'), m)
  <2>1. /\ nmDev' \in NM!NMDevice /\ nmDev'.st = "DEACTIVATING" /\ nmDev'.id = nmDev.id
        /\ nmDev'.key = nmDev.key
    BY <1>4, <1>6 DEF NM!NMDevice, NM!DeviceState
  <2>2. nmDev' # NM!NoNMDevice /\ nmDev # NM!NoNMDevice
    BY <1>4, <1>6, <2>1 DEF NM!NoNMDevice
  <2>3. DeviceStates'
    BY <2>1 DEF DeviceStates, Live
  <2>4. CASE backendAvailable
    <3>1. Following /\ RequestsFit(toNM', nmDev)
      BY <1>1, <2>4, FirstRequest
    <3>2. Moved(nmDev, nmDev')
      BY <2>1, <2>2 DEF Moved, Live, WasUp
    <3>3. MessagesFit(fromNM, nmDev')
      BY <3>1, <3>2, MovedFits DEF Following
    <3> DEFINE q == NM!StateSignal(fromNM, nmDev')
    <3>4. /\ q \in Seq(NM!Event) /\ MessagesFit(q, nmDev')
          /\ \A id : Removed(fromNM, id) => Removed(q, id)
      BY <2>1, <2>2, <3>3, SignalFits
    <3>5. MessageFits(m, nmDev')
      BY <1>5, <2>1 DEF MessageFits, Live
    <3>6. fromNM' = Append(q, m)
      BY <1>6
    <3> HIDE DEF q, m
    <3>7. MessagesFit(fromNM', nmDev') /\ \A id : Removed(fromNM, id) => Removed(fromNM', id)
      BY <1>5, <3>4, <3>5, <3>6, SentFits
    <3>8. Following'
      BY <1>1, <1>3, <2>1, <2>2, <3>1, <3>2, <3>7, FollowingMoves
    <3> QED
      BY <1>1, <1>2, <2>1, <2>2, <2>3, <2>4, <3>8, PatientNM
         DEF PatientInv, PatientPart, ReadyFits
  <2> QED
    BY <1>1, <1>2, <2>3, <2>4, PatientNM
<1>7. CASE /\ ~(nmDev.ac = Head(toNM).ac /\ nmDev.st \in Live)
           /\ nmDev' = nmDev /\ fromNM' = Append(fromNM, m)
  <2>1. DeviceStates'
    BY <1>7 DEF PatientInv, PatientPart, DeviceStates, NM!NoNMDevice
  <2>2. CASE backendAvailable
    <3>1. Following /\ RequestsFit(toNM', nmDev) /\ nmDev.st \notin Live
      BY <1>1, <1>7, <2>2, FirstRequest
    <3>2. MessageFits(m, nmDev)
      BY <1>5, <3>1 DEF MessageFits
    <3>3. fromNM \in Seq(NM!Event) /\ MessagesFit(fromNM, nmDev)
      BY <3>1, NetFacts DEF PatientInv, Following
    <3> HIDE DEF m
    <3>4. MessagesFit(fromNM', nmDev) /\ \A id : Removed(fromNM, id) => Removed(fromNM', id)
      BY <1>5, <1>7, <3>2, <3>3, SentFits
    <3>5. Following'
      BY <1>1, <1>3, <1>7, <3>1, <3>4 DEF Following, CacheFits
    <3> QED
      BY <1>1, <1>2, <1>7, <2>1, <2>2, <3>5, PatientNM
         DEF PatientInv, PatientPart, ReadyFits, NM!NoNMDevice
  <2> QED
    BY <1>1, <1>2, <2>1, <2>2, PatientNM
<1> QED
  BY <1>6, <1>7 DEF NM!nmDeactivate, NM!Reply, Live

\* NetworkManager's device comes up, fails, goes down and is taken apart.
LEMMA PatientMoves ==
  ASSUME PatientInv, UNCHANGED ctlVars, NEW from, NEW to, NM!NMMoves(from, to),
         \/ from = {"PREPARE"} /\ to \in {"ACTIVATED", "FAILED"}
         \/ from = {"ACTIVATED"} /\ to = "DEACTIVATING"
         \/ from = {"DEACTIVATING", "FAILED"} /\ to = "DISCONNECTED"
  PROVE  PatientPart'
<1>1. /\ nmDev.st \in from
      /\ nmDev' = [nmDev EXCEPT !.st = to, !.ac = IF to = "DISCONNECTED" THEN 0 ELSE @]
      /\ fromNM' = NM!StateSignal(fromNM, nmDev')
      /\ UNCHANGED <<dev, serverKey, toNM, nmExists, nmKey>>
  BY DEF NM!NMMoves, NM!clientVars
<1>2. UNCHANGED <<state, call>>
  BY DEF ctlVars
<1>3. nmDev.id # 0 /\ nmDev # NM!NoNMDevice /\ nmDev \in NM!NMDevice
  BY <1>1, DeviceReal, NetFacts DEF PatientInv, NM!NoNMDevice
<1>4. /\ nmDev'.st = to /\ nmDev'.id = nmDev.id /\ nmDev'.key = nmDev.key
      /\ to # "DISCONNECTED" => nmDev'.ac = nmDev.ac
  BY <1>1, <1>3 DEF NM!NMDevice
<1>5. nmDev' # NM!NoNMDevice /\ nmDev' \in NM!NMDevice
  <2>1. 0 \in NM!Ids
    BY NetmgrAssumption DEF NM!Ids
  <2> QED
    BY <1>1, <1>3, <1>4, <2>1 DEF NM!NMDevice, NM!NoNMDevice, NM!DeviceState
<1>6. DeviceStates'
  BY <1>1, <1>4 DEF PatientInv, PatientPart, DeviceStates, Live
<1>7. dev = NM!NoDevice => fromNM' = fromNM
  BY <1>1, <1>3, <1>4 DEF NM!StateSignal, NM!NoDevice
<1>8. ASSUME state = "Initializing" PROVE BeforeReady'
  <2>1. BeforeReady /\ fromNM' = fromNM
    BY <1>7, <1>8, NetFacts DEF PatientInv, PatientPart
  <2>2. toNM = <<>> /\ fromNM = <<>> /\ nmExists /\ serverKey = NoKey
    BY <1>3, <2>1 DEF BeforeReady
  <2>3. nmDev'.st # "PREPARE"
    BY <1>4
  <2> QED
    BY <1>1, <2>1, <2>2, <2>3 DEF BeforeReady, NM!NoNMDevice
<1>9. CASE backendAvailable
  <2>1. ReadyFits
    BY <1>9 DEF PatientInv, PatientPart
  <2>2. CASE Announced
    <3>1. fromNM' = fromNM /\ fromNM = <<[ev |-> "deviceAdded", id |-> nmDev.id]>>
      BY <1>3, <1>7, <2>2 DEF Announced
    <3>2. Announced'
      BY <1>1, <1>2, <1>4, <1>5, <2>2, <3>1 DEF Announced, NM!NoDevice, NM!NoNMDevice, NoCall
    <3> QED
      BY <1>1, <1>4, <1>6, <1>8, <2>1, <3>2, <1>3, PatientNM DEF ReadyFits
  <2>3. CASE Following
    <3>1. Moved(nmDev, nmDev')
      BY <1>1, <1>3, <1>4 DEF Moved, Live, WasUp
    <3>2. MessagesFit(fromNM, nmDev')
      BY <2>3, <3>1, MovedFits DEF Following
    <3>3. MessagesFit(fromNM', nmDev') /\ \A id : Removed(fromNM, id) => Removed(fromNM', id)
      BY <1>1, <1>5, <3>2, SignalFits
    <3>4. nmDev.st \notin {"PREPARE", "FAILED"} => nmDev'.st \notin {"PREPARE", "FAILED"}
      BY <1>1, <1>4
    <3>5. RequestsFit(toNM', nmDev)
      BY <1>1, <2>3 DEF Following
    <3>6. Following'
      BY <1>1, <1>2, <1>5, <2>3, <3>1, <3>3, <3>4, <3>5, FollowingMoves
    <3> QED
      BY <1>1, <1>4, <1>6, <1>8, <2>1, <3>6, <1>3, PatientNM DEF ReadyFits
  <2> QED
    BY <1>3, <2>1, <2>2, <2>3 DEF ReadyFits, Submitted
<1> QED
  BY <1>1, <1>6, <1>8, <1>9, PatientNM

\* A second message behind the first.
LEMMA PairOfMessages ==
  ASSUME NEW S, NEW a \in S, NEW b \in S
  PROVE  Append(<<a>>, b) = <<a, b>>
<1> DEFINE s == Append(<<a>>, b)
           t == <<a, b>>
<1>1. s \in Seq(S) /\ Len(s) = 2 /\ s[1] = a /\ s[2] = b
  OBVIOUS
<1>2. t \in Seq(S) /\ Len(t) = 2 /\ t[1] = a /\ t[2] = b
  OBVIOUS
<1> HIDE DEF s, t
<1>3. \A i \in 1 .. 2 : s[i] = t[i]
  BY <1>1, <1>2
<1>4. s = t
  BY <1>1, <1>2, <1>3, SeqEqual
<1> QED
  BY <1>4 DEF s, t

\* The device that was taken apart is gone.
LEMMA PatientNMRemoves ==
  ASSUME PatientInv, UNCHANGED ctlVars, NM!nmRemoves
  PROVE  PatientPart'
<1> DEFINE m == [ev |-> "deviceRemoved", id |-> nmDev.id]
<1>1. /\ nmDev.st = "DISCONNECTED" /\ nmDev' = NM!NoNMDevice /\ fromNM' = Append(fromNM, m)
      /\ UNCHANGED <<dev, serverKey, toNM, nmExists, nmKey>>
  BY DEF NM!nmRemoves, NM!clientVars
<1>2. UNCHANGED <<state, call>>
  BY DEF ctlVars
<1>3. nmDev.id # 0 /\ nmDev # NM!NoNMDevice /\ nmDev.id \in NM!Ids
  BY <1>1, DeviceReal, NetFacts DEF PatientInv, NM!NoNMDevice, NM!NMDevice
<1>4. m \in NM!Event /\ m.ev = "deviceRemoved" /\ m.id = nmDev.id
  BY <1>3 DEF NM!Event
<1>5. DeviceStates'
  BY <1>1 DEF DeviceStates, NM!NoNMDevice, Live
<1>6. \A n : Append(<<>>, n) = <<n>>
  OBVIOUS
<1>7. ASSUME state = "Initializing" PROVE BeforeReady'
  <2>1. BeforeReady /\ toNM = <<>> /\ fromNM = <<>> /\ nmExists
    BY <1>3, <1>7 DEF PatientInv, PatientPart, BeforeReady
  <2>2. fromNM' = <<m>>
    BY <1>1, <1>6, <2>1
  <2> HIDE DEF m
  <2>3. \A i \in DOMAIN fromNM' : fromNM'[i].ev = "deviceRemoved"
    BY <1>4, <2>2
  <2>4. nmDev'.st # "PREPARE"
    BY <1>1 DEF NM!NoNMDevice
  <2> QED
    BY <1>1, <2>1, <2>3, <2>4 DEF BeforeReady
<1>8. CASE backendAvailable
  <2>1. ReadyFits
    BY <1>8 DEF PatientInv, PatientPart
  <2>2. CASE Announced
    <3>1. fromNM = <<[ev |-> "deviceAdded", id |-> nmDev.id]>>
      BY <1>3, <2>2 DEF Announced
    <3>2. fromNM' = <<[ev |-> "deviceAdded", id |-> nmDev.id],
                      [ev |-> "deviceRemoved", id |-> nmDev.id]>>
      <4>1. [ev |-> "deviceAdded", id |-> nmDev.id] \in NM!Event
        BY <1>3 DEF NM!Event
      <4> QED
        BY <1>1, <1>4, <3>1, <4>1, PairOfMessages
    <3>3. Announced'
      BY <1>1, <1>2, <1>3, <2>2, <3>2 DEF Announced, NM!NoDevice, NM!NoNMDevice, NoCall
    <3> QED
      BY <1>1, <1>5, <1>7, <2>1, <3>3, PatientNM DEF ReadyFits
  <2>3. CASE Following
    <3>1. Moved(nmDev, nmDev')
      BY <1>1 DEF Moved, NM!NoNMDevice, Live
    <3>2. MessagesFit(fromNM, nmDev') /\ fromNM \in Seq(NM!Event)
      BY <2>3, <3>1, MovedFits, NetFacts DEF Following, PatientInv
    <3>3. MessageFits(m, nmDev')
      BY <1>1, <1>4 DEF MessageFits
    <3> HIDE DEF m
    <3>4. /\ MessagesFit(fromNM', nmDev') /\ Removed(fromNM', nmDev.id)
          /\ \A id : Removed(fromNM, id) => Removed(fromNM', id)
      BY <1>1, <1>4, <3>2, <3>3, SentFits
    <3>5. RequestsFit(toNM', nmDev) /\ nmDev'.st = "UNKNOWN"
      BY <1>1, <2>3 DEF Following, NM!NoNMDevice
    <3>6. Following'
      BY <1>1, <1>2, <2>3, <3>1, <3>4, <3>5, FollowingMoves
    <3> QED
      BY <1>1, <1>5, <1>7, <2>1, <3>6, PatientNM DEF ReadyFits
  <2> QED
    BY <1>3, <2>1, <2>2, <2>3 DEF ReadyFits, Submitted
<1> QED
  BY <1>1, <1>5, <1>7, <1>8, PatientNM

\* The peer answers.
LEMMA PatientTraffic ==
  ASSUME PatientInv, UNCHANGED ctlVars, NM!nmTraffic
  PROVE  PatientPart'
<1>1. /\ nmDev.st = "ACTIVATED" /\ nmDev' = [nmDev EXCEPT !.rx = @ + 1]
      /\ UNCHANGED <<dev, serverKey, toNM, fromNM, nmExists, nmKey>>
  BY DEF NM!nmTraffic, NM!clientVars
<1>2. UNCHANGED <<state, call>>
  BY DEF ctlVars
<1>3. nmDev.id # 0 /\ nmDev # NM!NoNMDevice /\ nmDev \in NM!NMDevice
  BY <1>1, DeviceReal, NetFacts DEF PatientInv, NM!NoNMDevice
<1>4. /\ nmDev'.st = nmDev.st /\ nmDev'.id = nmDev.id /\ nmDev'.key = nmDev.key
      /\ nmDev'.ac = nmDev.ac
  BY <1>1, <1>3 DEF NM!NMDevice
<1>5. nmDev' # NM!NoNMDevice
  BY <1>3, <1>4 DEF NM!NoNMDevice
<1>6. DeviceStates'
  BY <1>1, <1>4 DEF PatientInv, PatientPart, DeviceStates, Live
<1>7. state = "Initializing" => BeforeReady'
  BY <1>1, <1>2, <1>3, <1>4 DEF PatientInv, PatientPart, BeforeReady
<1>8. CASE backendAvailable
  <2>1. ReadyFits
    BY <1>8 DEF PatientInv, PatientPart
  <2>2. CASE Announced
    <3>1. Announced'
      BY <1>1, <1>2, <1>3, <1>4, <1>5, <2>2 DEF Announced, NM!NoDevice, NM!NoNMDevice, NoCall
    <3> QED
      BY <1>1, <1>3, <1>4, <1>6, <1>7, <2>1, <3>1, PatientNM DEF ReadyFits
  <2>3. CASE Following
    <3>1. Moved(nmDev, nmDev')
      BY <1>3, <1>4 DEF Moved
    <3>2. MessagesFit(fromNM', nmDev') /\ RequestsFit(toNM', nmDev)
      BY <1>1, <2>3, <3>1, MovedFits DEF Following
    <3>3. Following'
      BY <1>1, <1>2, <1>4, <1>5, <2>3, <3>1, <3>2, FollowingMoves
    <3> QED
      BY <1>1, <1>3, <1>4, <1>6, <1>7, <2>1, <3>3, PatientNM DEF ReadyFits
  <2> QED
    BY <1>3, <2>1, <2>2, <2>3 DEF ReadyFits, Submitted
<1> QED
  BY <1>1, <1>6, <1>7, <1>8, PatientNM

-----------------------------------------------------------------------------

\* The invariant holds initially, also with a tunnel of an earlier run up.
LEMMA PatientInitInv == SysInit => PatientInv
<1> SUFFICES ASSUME SysInit PROVE PatientInv
  OBVIOUS
<1>1. NetInv
  BY NetInitInv
<1>2. ClientShown /\ ~backendAvailable
  BY DEF SysInit, Init, ClientShown
<1>3. nmDev = NM!NoNMDevice \/ (nmExists /\ nmDev.st = "ACTIVATED" /\ nmDev.ac = 1)
  BY DEF SysInit, NM!NetInit
<1>4. DeviceStates /\ nmDev.st # "PREPARE"
  BY <1>3 DEF DeviceStates, NM!NoNMDevice, Live
<1>5. DOMAIN fromNM = {} /\ fromNM = <<>> /\ toNM = <<>> /\ serverKey = NoKey
  BY DEF SysInit, NM!NetInit
<1>6. BeforeReady
  BY <1>3, <1>4, <1>5 DEF BeforeReady
<1> QED
  BY <1>1, <1>2, <1>4, <1>6 DEF PatientInv, PatientPart

\* Every step preserves the invariant, if the user is patient and the client's.
LEMMA PatientNextInv ==
  ASSUME Patient, Users \subseteq {"ClientUser"}, PatientInv, [SysNext]_vars
  PROVE  PatientInv'
<1>1. NetInv'
  BY NetNextInv DEF PatientInv
<1>2. PatientPart'
  <2>1. CASE UNCHANGED vars
    <3>1. UNCHANGED netVars /\ UNCHANGED <<state, initiator, queue, call, backendAvailable>>
      BY <2>1 DEF vars, ctlVars, attempt, backend
    <3>2. UNCHANGED <<toNM, fromNM, dev, nmDev, nmExists, nmKey, serverKey>>
      BY <3>1 DEF netVars
    <3> QED
      BY <3>1, <3>2
         DEF PatientInv, PatientPart, ClientShown, DeviceStates, BeforeReady, ReadyFits,
             Submitted, Announced, Following, NM!NoDevice, NM!NoNMDevice, NoCall
  <2>2. CASE startup \/ UserActs \/ handshakeTimesOut \/ confirmingTimesOut
    BY <2>2, PatientStartup, PatientActivates, PatientEnds, PatientTimesOut DEF UserActs
  <2>3. CASE implInitialize \/ implActivate \/ implDeactivate
    BY <2>3, PatientInitializes, PatientSubmits, PatientTakesDown
  <2>4. CASE initReply \/ backendError \/ tunnelEnds \/ handshakeSeen
    BY <2>4, PatientAdded, PatientFailure, PatientTunnelEnds, PatientHandshake
  <2>5. CASE deviceNews
    BY <2>5, PatientPeerCompleted, PatientOtherRemoved, PatientDeviceAdded, PatientStateChanged
       DEF deviceNews
  <2>6. CASE NetworkManagerActs
    <3>0. UNCHANGED ctlVars
      BY <2>6 DEF NetworkManagerActs
    <3>1. CASE NM!nmBringsUp \/ NM!nmFails \/ NM!nmDrops \/ NM!nmTearsDown
      BY <3>0, <3>1, PatientMoves
         DEF NM!nmBringsUp, NM!nmFails, NM!nmDrops, NM!nmTearsDown
    <3> QED
      BY <2>6, <3>0, <3>1, PatientAdds, PatientUpdates, PatientNMActivates,
         PatientNMDeactivates, PatientNMRemoves, PatientTraffic
         DEF NetworkManagerActs, NM!NMNext, NM!NMProgress
  <2> QED
    BY <2>1, <2>2, <2>3, <2>4, <2>5, <2>6 DEF SysNext, BackendNext
<1> QED
  BY <1>1, <1>2 DEF PatientInv

\* StateOff is idle for a patient user of the client.
LEMMA PatientOffIdle == PatientInv => OffIsIdle
<1> SUFFICES ASSUME PatientInv, state = "Off", backendAvailable
             PROVE  nmDev.st \notin {"PREPARE", "ACTIVATED"} /\ ~ActivationInFlight
  BY DEF OffIsIdle
<1>1. Following
  BY DEF PatientInv, PatientPart, ReadyFits, Submitted, Announced
<1>2. nmDev.st \notin {"PREPARE", "ACTIVATED"}
  BY <1>1 DEF Following, ShownFits, Live
<1>3. ~ActivationInFlight
  BY <1>1 DEF Following, RequestsFit, MessagesFit, MessageFits, ActivationInFlight
<1> QED
  BY <1>2, <1>3

\* StateOn has its tunnel, once the news has arrived.
LEMMA PatientOnTunnel == PatientInv => OnIsTunnel
<1> SUFFICES ASSUME PatientInv, state \in {"On", "OnPartial"}, Settled
             PROVE  nmDev.st = "ACTIVATED" /\ serverKey \in {nmDev.key, NoKey}
  BY DEF OnIsTunnel
<1>1. state = "On" /\ backendAvailable
  BY DEF PatientInv, PatientPart, ClientShown
<1>2. ReadyFits /\ Following
  BY <1>1 DEF PatientInv, PatientPart, ReadyFits, Submitted, Announced
<1>3. dev.id # 0 /\ nmDev.st \notin {"PREPARE", "FAILED"}
  BY <1>1, <1>2 DEF Following, ShownFits
<1>4. nmDev # NM!NoNMDevice
  <2>1. dev # NM!NoDevice
    BY <1>3 DEF NM!NoDevice
  <2>2. ~Removed(fromNM, dev.id)
    BY DEF Removed, Settled
  <2> QED
    BY <1>2, <2>1, <2>2 DEF Following, CacheFits
<1>5. nmDev.st # "UNKNOWN"
  BY <1>4 DEF PatientInv, PatientPart, DeviceStates
<1> QED
  BY <1>2, <1>3, <1>4, <1>5 DEF Settled, ReadyFits

\* The invariant of a patient user of the client holds in every reachable state.
THEOREM PatientInvariant ==
  ASSUME Patient, Users \subseteq {"ClientUser"}
  PROVE  SysSpec => []PatientInv
<1>1. PatientInv /\ [SysNext]_vars => PatientInv'
  BY PatientNextInv
<1> QED
  BY <1>1, PatientInitInv, PTL DEF SysSpec

\* With a user of the client who waits for each exchange to end, StateOff means
\* that no tunnel is up or coming up: none survives deactivate(), a failed
\* attempt or a device that goes on its own.
THEOREM PatientOff ==
  ASSUME Patient, Users \subseteq {"ClientUser"}
  PROVE  SysSpec => []OffIsIdle
  BY PatientInvariant, PatientOffIdle, PTL

\* With the same user StateOn means that the tunnel asked for is up, or that news
\* of its end is on the way.
THEOREM PatientOn ==
  ASSUME Patient, Users \subseteq {"ClientUser"}
  PROVE  SysSpec => []OnIsTunnel
  BY PatientInvariant, PatientOnTunnel, PTL

=============================================================================
