-------------------------- MODULE ControllerProofs --------------------------
(***************************************************************************)
(* Proofs about the open controller: what holds with every backend, every  *)
(* set of peers and every retry limit.                                     *)
(***************************************************************************)
EXTENDS Controller, TLAPS, SequenceTheorems

\* What RetriesEnd needs to be inductive: a queue has at most two hops, and a
\* timer running at the limit belongs to the last hop of its queue.
HopsBounded == Len(queue) <= 2

RetryInv ==
  /\ retry <= CONNECTION_MAX_RETRY + 1
  /\ handshakeTimer => \/ retry < CONNECTION_MAX_RETRY
                       \/ retry = CONNECTION_MAX_RETRY /\ Len(queue) = 1
  /\ retry = CONNECTION_MAX_RETRY + 1 => Len(queue) <= 1

CtlInv ==
  /\ TypeOK
  /\ HopsBounded
  /\ TimerHasHop
  /\ RetryInv
  /\ PartialIsExtension
  /\ ConnectedHasTime
  /\ WaitIsTimed
  /\ ConfirmingTimerScoped

-----------------------------------------------------------------------------

\* setState() keeps the type of the three variables it writes and the scope of
\* the confirming timer.
LEMMA SetStateScoped ==
  ASSUME CtlInv, NEW s \in State, SetState(s)
  PROVE  /\ state' = s
         /\ confirmingTimer' \in BOOLEAN
         /\ enableDisconnect' \in BOOLEAN
         /\ ConfirmingTimerScoped'
  BY DEF CtlInv, TypeOK, SetState, ConfirmingTimerScoped

\* The calls into the backend that take no peer.
LEMMA NoCallType ==
  NoCall \in Call /\ CallInitialize \in Call /\ CallDeactivate \in Call
  BY DEF NoCall, CallInitialize, CallDeactivate, Call

\* A queue setupConfigs() makes has one or two hops.
LEMMA HopsType ==
  ASSUME NEW mh \in BOOLEAN, NEW q \in Hops(mh)
  PROVE  /\ q \in Seq(Keys)
         /\ Len(q) \in 1..2
         /\ q # <<>>
         /\ Head(q) \in Keys
         /\ q[Len(q)] \in Keys
  BY DEF Hops

\* activateInternal() preserves the invariant when it is entered from a state
\* that is not yet waiting, with fewer retries than the limit.
LEMMA ActivateInternalInv ==
  ASSUME CtlInv,
         NEW s \in State, NEW user \in Principal, NEW err \in ErrorCode,
         NEW ns \in NextStep, NEW k \in Keys \cup {NoKey},
         NEW mh \in BOOLEAN, NEW r \in Nat,
         r < CONNECTION_MAX_RETRY,
         s = "OnPartial" => user = "ExtensionUser",
         s \in {"On", "OnPartial"} => connectedTime,
         ActivateInternal(s, user, err, ns, k, mh, r),
         connectedTime' = connectedTime,
         portalDetected' \in BOOLEAN,
         nextMultihop' \in BOOLEAN,
         UNCHANGED <<backend, environment>>,
         readyToQuit' \in BOOLEAN
  PROVE  CtlInv'
<1> USE DEF CtlInv, TypeOK, HopsBounded, TimerHasHop, RetryInv,
            PartialIsExtension, ConnectedHasTime, WaitIsTimed, backend,
            environment
<1>0. initiator' = user /\ multihop' = mh /\ retry' = r
  BY DEF ActivateInternal
<1>1. CASE /\ ServerUnavailable(s)
           /\ nextStep' = ns
           /\ queue' = <<>>
           /\ handshakeTimer' = FALSE
           /\ exitKey' = k
           /\ call' = NoCall
  <2>1. SetState("ConnectionError") /\ error' \in ErrorCode
    BY <1>1 DEF ServerUnavailable, ErrorCode
  <2>2. /\ state' = "ConnectionError"
        /\ confirmingTimer' \in BOOLEAN
        /\ enableDisconnect' \in BOOLEAN
        /\ ConfirmingTimerScoped'
    BY <2>1, SetStateScoped DEF State
  <2>3. call' \in Call
    BY <1>1, NoCallType
  <2>4. queue' \in Seq(Keys) /\ Len(queue') = 0
    BY <1>1
  <2>5. PartialIsExtension' /\ ConnectedHasTime' /\ WaitIsTimed'
    BY <2>2
  <2>6. HopsBounded' /\ TimerHasHop' /\ RetryInv'
    BY <1>0, <1>1, <2>4, RetryAssumption
  <2>7. TypeOK'
    BY <1>0, <1>1, <2>1, <2>2, <2>3, <2>4 DEF State
  <2> QED
    BY <2>2, <2>5, <2>6, <2>7
<1>2. CASE /\ ~device
           /\ nextStep' = "Disconnect"
           /\ SetState(s)
           /\ error' = err
           /\ queue' = <<>>
           /\ handshakeTimer' = FALSE
           /\ exitKey' = k
           /\ call' = NoCall
  <2>1. /\ state' = s
        /\ confirmingTimer' \in BOOLEAN
        /\ enableDisconnect' \in BOOLEAN
        /\ ConfirmingTimerScoped'
    BY <1>2, SetStateScoped
  <2>2. call' \in Call
    BY <1>2, NoCallType
  <2>3. queue' \in Seq(Keys) /\ Len(queue') = 0
    BY <1>2
  <2>4. PartialIsExtension' /\ ConnectedHasTime' /\ WaitIsTimed'
    BY <1>0, <1>2, <2>1
  <2>5. HopsBounded' /\ TimerHasHop' /\ RetryInv'
    BY <1>0, <1>2, <2>3, RetryAssumption
  <2>6. TypeOK'
    BY <1>0, <1>2, <2>1, <2>2, <2>3 DEF NextStep
  <2> QED
    BY <2>1, <2>4, <2>5, <2>6
<1>3. CASE /\ device
           /\ \E q \in Hops(mh) :
                 /\ queue' = q
                 /\ exitKey' = q[Len(q)]
                 /\ SubmitFirst(q, s, user)
           /\ nextStep' = ns
           /\ error' = err
  <2>1. PICK q \in Hops(mh) : /\ queue' = q
                              /\ exitKey' = q[Len(q)]
                              /\ SubmitFirst(q, s, user)
    BY <1>3
  <2>2. /\ q \in Seq(Keys)
        /\ Len(q) \in 1..2
        /\ q # <<>>
        /\ Head(q) \in Keys
        /\ q[Len(q)] \in Keys
    BY HopsType
  <2> DEFINE t == IF user = "ExtensionUser" \/ s \in {"Switching", "SilentSwitching"}
                  THEN s ELSE "Confirming"
  <2>3. t \in State
    BY DEF State
  <2>4. SetState(t) /\ handshakeTimer' = TRUE /\ call' = CallActivate(Head(q))
    BY <2>1 DEF SubmitFirst
  <2> HIDE DEF t
  <2>5. /\ state' = t
        /\ confirmingTimer' \in BOOLEAN
        /\ enableDisconnect' \in BOOLEAN
        /\ ConfirmingTimerScoped'
    BY <2>3, <2>4, SetStateScoped
  <2>6. call' \in Call
    BY <2>2, <2>4 DEF CallActivate, Call
  <2>7. PartialIsExtension' /\ ConnectedHasTime'
    BY <1>0, <2>5 DEF t
  <2> QED
    BY <1>0, <1>3, <2>1, <2>2, <2>3, <2>4, <2>5, <2>6, <2>7, RetryAssumption
<1> QED
  BY <1>1, <1>2, <1>3 DEF ActivateInternal

\* The variables most handlers leave alone keep their types.
RestTypeOK ==
  /\ portalDetected \in BOOLEAN
  /\ backendAvailable \in BOOLEAN
  /\ initPending \in BOOLEAN
  /\ connectedTime \in BOOLEAN
  /\ exitKey \in Keys \cup {NoKey}
  /\ multihop \in BOOLEAN
  /\ nextMultihop \in BOOLEAN
  /\ hasProfiles \in BOOLEAN
  /\ device \in BOOLEAN
  /\ readyToQuit \in BOOLEAN

\* Going to a state that is neither waiting nor connected with a cleared
\* attempt establishes the invariant.
LEMMA TeardownInv ==
  ASSUME CtlInv,
         NEW s \in State \ {"Connecting", "Confirming", "On", "OnPartial"},
         SetState(s), ClearAttempt,
         error' \in ErrorCode, nextStep' \in NextStep, initiator' \in Principal,
         call' \in Call, RestTypeOK'
  PROVE  CtlInv'
<1>1. /\ state' = s
      /\ confirmingTimer' \in BOOLEAN
      /\ enableDisconnect' \in BOOLEAN
      /\ ConfirmingTimerScoped'
  BY SetStateScoped
<1>2. PartialIsExtension' /\ ConnectedHasTime' /\ WaitIsTimed'
  BY <1>1 DEF PartialIsExtension, ConnectedHasTime, WaitIsTimed
<1>3. queue' \in Seq(Keys) /\ Len(queue') = 0
  BY DEF ClearAttempt
<1>4. HopsBounded' /\ TimerHasHop' /\ RetryInv'
  BY <1>3, RetryAssumption DEF ClearAttempt, HopsBounded, TimerHasHop, RetryInv
<1>5. TypeOK'
  BY <1>1, <1>3 DEF ClearAttempt, TypeOK, RestTypeOK
<1> QED
  BY <1>1, <1>2, <1>4, <1>5 DEF CtlInv

\* The invariant survives a step that moves to a state that is neither waiting
\* nor connected, or stays, without restarting the timer or touching the queue.
LEMMA QuietInv ==
  ASSUME CtlInv,
         NEW s \in State,
         s \notin {"Connecting", "Confirming", "On", "OnPartial"},
         SetState(s), UNCHANGED <<queue, retry>>,
         handshakeTimer' \in BOOLEAN, handshakeTimer' => handshakeTimer,
         error' \in ErrorCode, nextStep' \in NextStep, initiator' \in Principal,
         call' \in Call, RestTypeOK'
  PROVE  CtlInv'
<1>1. /\ state' = s
      /\ confirmingTimer' \in BOOLEAN
      /\ enableDisconnect' \in BOOLEAN
      /\ ConfirmingTimerScoped'
  BY SetStateScoped
<1>2. PartialIsExtension' /\ ConnectedHasTime' /\ WaitIsTimed'
  BY <1>1 DEF PartialIsExtension, ConnectedHasTime, WaitIsTimed
<1>3. HopsBounded' /\ TimerHasHop' /\ RetryInv'
  BY DEF CtlInv, HopsBounded, TimerHasHop, RetryInv
<1>4. TypeOK'
  BY <1>1 DEF CtlInv, TypeOK, RestTypeOK
<1> QED
  BY <1>1, <1>2, <1>3, <1>4 DEF CtlInv

\* The invariant survives a step that leaves the state, the attempt and who
\* asked for it alone.
LEMMA UnmovedInv ==
  ASSUME CtlInv,
         UNCHANGED <<state, attempt, initiator, confirmingTimer,
                     enableDisconnect, connectedTime>>,
         nextStep' = nextStep \/ nextStep' = "Update",
         error' \in ErrorCode, call' \in Call, RestTypeOK'
  PROVE  CtlInv'
<1> USE DEF attempt
<1>1. PartialIsExtension' /\ ConnectedHasTime' /\ ConfirmingTimerScoped'
  BY DEF CtlInv, PartialIsExtension, ConnectedHasTime, ConfirmingTimerScoped
<1>2. WaitIsTimed'
  BY DEF CtlInv, WaitIsTimed
<1>3. HopsBounded' /\ TimerHasHop' /\ RetryInv'
  BY DEF CtlInv, HopsBounded, TimerHasHop, RetryInv
<1>4. TypeOK'
  BY DEF CtlInv, TypeOK, RestTypeOK, NextStep
<1> QED
  BY <1>1, <1>2, <1>3, <1>4 DEF CtlInv

\* The retry bounds of a queue that has just been submitted.
LEMMA StartedRetryInv ==
  ASSUME NEW q \in Seq(Keys), Len(q) \in 1..2, queue' = q, retry' \in Nat,
         \/ retry' < CONNECTION_MAX_RETRY
         \/ retry' = CONNECTION_MAX_RETRY /\ Len(q) = 1
  PROVE  HopsBounded' /\ RetryInv'
<1> DEFINE n == Len(queue')
<1>1. n \in 1..2
  OBVIOUS
<1>2. HopsBounded'
  <2> HIDE DEF n
  <2>1. n <= 2
    BY <1>1
  <2> QED
    BY <2>1 DEF n, HopsBounded
<1>3. retry' <= CONNECTION_MAX_RETRY
  BY RetryAssumption
<1>4. retry' <= CONNECTION_MAX_RETRY + 1 /\ retry' # CONNECTION_MAX_RETRY + 1
  BY <1>3, RetryAssumption
<1>5. RetryInv'
  BY <1>4 DEF RetryInv
<1> QED
  BY <1>2, <1>5

\* The entry hop of a multi-hop queue leaves the exit hop behind.
LEMMA ExitHopRemains ==
  ASSUME NEW q \in Seq(Keys), Len(q) <= 2, Len(q) > 1
  PROVE  /\ Tail(q) \in Seq(Keys)
         /\ Len(Tail(q)) = 1
         /\ Tail(q) # <<>>
<1> DEFINE n == Len(q)
<1>1. n \in Nat /\ n <= 2 /\ n > 1
  BY LenProperties
<1> HIDE DEF n
<1>2. n = 2
  BY <1>1
<1>3. q # <<>>
  BY <1>2 DEF n
<1>4. Tail(q) \in Seq(Keys) /\ Len(Tail(q)) = n - 1
  BY <1>3, HeadTailProperties DEF n
<1>5. Len(Tail(q)) = 1
  BY <1>2, <1>4
<1> DEFINE m == Len(Tail(q))
<1>6. Tail(q) # <<>>
  <2> HIDE DEF m
  <2>1. m = n - 1
    BY <1>4 DEF m
  <2>2. m # 0
    BY <1>2, <2>1
  <2> QED
    BY <2>2 DEF m
<1> QED
  BY <1>4, <1>5, <1>6

\* Submitting the head of a queue starts its timer.
LEMMA SubmitFirstInv ==
  ASSUME CtlInv,
         NEW q \in Seq(Keys), Len(q) \in 1..2, queue' = q,
         retry' \in Nat,
         \/ retry' < CONNECTION_MAX_RETRY
         \/ retry' = CONNECTION_MAX_RETRY /\ Len(q) = 1,
         NEW s \in State, NEW user \in Principal,
         SubmitFirst(q, s, user),
         initiator' = user,
         s = "OnPartial" => user = "ExtensionUser",
         s \in {"On", "OnPartial"} => connectedTime,
         connectedTime' = connectedTime,
         error' \in ErrorCode, nextStep' \in NextStep, RestTypeOK'
  PROVE  CtlInv'
<1> DEFINE t == IF user = "ExtensionUser" \/ s \in {"Switching", "SilentSwitching"}
                THEN s ELSE "Confirming"
<1>1. t \in State
  BY DEF State
<1>2. SetState(t) /\ handshakeTimer' = TRUE /\ call' = CallActivate(Head(q))
  BY DEF SubmitFirst
<1>3. PartialIsExtension' /\ ConnectedHasTime'
  BY <1>2 DEF SetState, PartialIsExtension, ConnectedHasTime
<1> HIDE DEF t
<1>4. /\ state' = t
      /\ confirmingTimer' \in BOOLEAN
      /\ enableDisconnect' \in BOOLEAN
      /\ ConfirmingTimerScoped'
  BY <1>1, <1>2, SetStateScoped
<1>5. q # <<>> /\ Head(q) \in Keys
  OBVIOUS
<1>6. call' \in Call
  BY <1>2, <1>5 DEF CallActivate, Call
<1>7. WaitIsTimed' /\ TimerHasHop'
  BY <1>2, <1>5 DEF TimerHasHop, WaitIsTimed
<1>8. HopsBounded' /\ RetryInv'
  BY <1>2, StartedRetryInv
<1>9. TypeOK'
  BY <1>1, <1>2, <1>4, <1>6 DEF TypeOK, RestTypeOK
<1> QED
  BY <1>3, <1>4, <1>7, <1>8, <1>9 DEF CtlInv

\* deactivate() once it is allowed.
LEMMA DeactivationInv ==
  ASSUME CtlInv, NEW s \in State, Deactivation(s),
         nextStep' \in NextStep, initiator' \in Principal, RestTypeOK'
  PROVE  CtlInv'
<1> DEFINE t == IF s \in {"Switching", "SilentSwitching"} THEN s ELSE "Disconnecting"
<1>1. t \in State \ {"Connecting", "Confirming", "On", "OnPartial"}
  BY DEF State
<1>2. /\ SetState(t) /\ ClearAttempt
      /\ error' \in ErrorCode /\ call' \in Call
  BY NoCallType DEF Deactivation, ErrorCode
<1> QED
  BY <1>1, <1>2, TeardownInv

LEMMA DeactivateActiveInv ==
  ASSUME CtlInv, NEW timer \in BOOLEAN, timer => handshakeTimer,
         DeactivateActive(timer),
         nextStep' \in NextStep, initiator' \in Principal, RestTypeOK'
  PROVE  CtlInv'
<1>1. state \in State
  BY DEF CtlInv, TypeOK
<1>2. CASE state = "ConnectionError" /\ error = "NoServerAvailable"
  <2>1. SetState("Off") /\ handshakeTimer' = timer /\ UNCHANGED <<error, queue, retry, call>>
    BY <1>2 DEF DeactivateActive
  <2>2. error' \in ErrorCode /\ call' \in Call /\ "Off" \in State
    BY <2>1 DEF CtlInv, TypeOK, State
  <2> QED
    BY <2>1, <2>2, QuietInv
<1>3. CASE ~(state = "ConnectionError" /\ error = "NoServerAvailable")
  BY <1>1, <1>3, DeactivationInv DEF DeactivateActive
<1> QED
  BY <1>2, <1>3

-----------------------------------------------------------------------------
(* One lemma per handler whose effect is not covered above.                *)

\* What the type invariant says of the variables a handler leaves alone.
LEMMA RestFromInv ==
  ASSUME CtlInv
  PROVE  /\ RestTypeOK
         /\ state \in State /\ error \in ErrorCode /\ nextStep \in NextStep
         /\ initiator \in Principal /\ call \in Call
         /\ handshakeTimer \in BOOLEAN /\ queue \in Seq(Keys) /\ retry \in Nat
  BY DEF CtlInv, TypeOK, RestTypeOK

LEMMA ConnectedInv ==
  ASSUME CtlInv, NEW k \in Keys, connected(k)
  PROVE  CtlInv'
<1>0. /\ RestTypeOK
      /\ state \in State /\ error \in ErrorCode /\ nextStep \in NextStep
      /\ initiator \in Principal /\ call \in Call
      /\ handshakeTimer \in BOOLEAN /\ queue \in Seq(Keys) /\ retry \in Nat
  BY RestFromInv
<1> USE <1>0
<1>1. UNCHANGED <<nextStep, initiator, backend, server, environment, readyToQuit>>
  BY DEF connected
<1>2. CASE Len(queue) > 1
  <2>1. /\ queue' = Tail(queue)
        /\ UNCHANGED <<error, connectedTime, retry, portalDetected>>
    BY <1>2 DEF connected
  <2>2. RestTypeOK'
    BY <1>1, <2>1 DEF RestTypeOK, backend, server, environment
  <2>3. Tail(queue) \in Seq(Keys) /\ Len(Tail(queue)) = 1 /\ Tail(queue) # <<>>
    BY <1>2, ExitHopRemains DEF CtlInv, HopsBounded
  <2>4. CASE hasProfiles \/ device
    <3>1. SubmitFirst(Tail(queue), state, initiator)
      BY <1>2, <2>4 DEF connected
    <3>2. /\ state = "OnPartial" => initiator = "ExtensionUser"
          /\ state \in {"On", "OnPartial"} => connectedTime
      BY DEF CtlInv, PartialIsExtension, ConnectedHasTime
    <3>3. \/ retry' < CONNECTION_MAX_RETRY
          \/ retry' = CONNECTION_MAX_RETRY /\ Len(Tail(queue)) = 1
      BY <1>2, <2>1, <2>3, RetryAssumption DEF CtlInv, RetryInv
    <3>4. initiator' = initiator /\ error' \in ErrorCode /\ nextStep' \in NextStep
          /\ retry' \in Nat /\ connectedTime' = connectedTime
      BY <1>1, <2>1
    <3>5. Len(Tail(queue)) \in 1..2
      BY <2>3
    <3> QED
      BY <2>1, <2>2, <2>3, <3>1, <3>2, <3>3, <3>4, <3>5, SubmitFirstInv
  <2>5. CASE ~(hasProfiles \/ device)
    <3>1. UNCHANGED <<state, confirmingTimer, enableDisconnect, handshakeTimer, call>>
      BY <1>2, <2>5 DEF connected
    <3>2. TypeOK'
      BY <1>1, <2>1, <2>2, <2>3, <3>1 DEF CtlInv, TypeOK, RestTypeOK
    <3>3. /\ PartialIsExtension' /\ ConnectedHasTime' /\ WaitIsTimed'
          /\ ConfirmingTimerScoped'
      BY <1>1, <2>1, <3>1 DEF CtlInv, PartialIsExtension, ConnectedHasTime,
                              WaitIsTimed, ConfirmingTimerScoped
    <3>4. HopsBounded' /\ RetryInv'
      BY <1>2, <2>1, <2>3, <3>1, RetryAssumption DEF CtlInv, HopsBounded, RetryInv
    <3>5. TimerHasHop'
      BY <2>1, <2>3 DEF TimerHasHop
    <3> QED
      BY <3>2, <3>3, <3>4, <3>5 DEF CtlInv
  <2> QED
    BY <2>4, <2>5
<1>3. CASE ~(Len(queue) > 1)
  <2> DEFINE s == ConnectedState
  <2>1. AllHopsConnected
    BY <1>3 DEF connected
  <2>2. s \in State
    BY DEF State, ConnectedState
  <2>3. CASE nextStep \in {"Quit", "Disconnect", "Update"}
    <3>1. Deactivation(s) /\ connectedTime' = TRUE
      BY <2>1, <2>3 DEF AllHopsConnected, StampTime, RestTypeOK
    <3>2. RestTypeOK'
      BY <1>1, <3>1 DEF RestTypeOK, backend, server, environment, Deactivation
    <3> QED
      BY <1>1, <2>2, <3>1, <3>2, DeactivationInv
  <2>4. CASE nextStep \notin {"Quit", "Disconnect", "Update"}
    <3>1. /\ connectedTime' = TRUE /\ SetState(s) /\ error' = "None"
          /\ queue' = <<>> /\ retry' = 0 /\ handshakeTimer' = FALSE
          /\ UNCHANGED <<portalDetected, call>>
      BY <2>1, <2>4 DEF AllHopsConnected, StampTime, RestTypeOK, ClearAttempt
    <3>2. PartialIsExtension' /\ ConnectedHasTime' /\ WaitIsTimed'
      BY <1>1, <3>1 DEF SetState, PartialIsExtension, ConnectedHasTime, WaitIsTimed,
                        ConnectedState
    <3> HIDE DEF s
    <3>3. /\ state' = s
          /\ confirmingTimer' \in BOOLEAN
          /\ enableDisconnect' \in BOOLEAN
          /\ ConfirmingTimerScoped'
      BY <2>2, <3>1, SetStateScoped
    <3>4. queue' \in Seq(Keys) /\ Len(queue') = 0
      BY <3>1
    <3>5. HopsBounded' /\ TimerHasHop' /\ RetryInv'
      BY <3>1, <3>4, RetryAssumption DEF HopsBounded, TimerHasHop, RetryInv
    <3>6. RestTypeOK'
      BY <1>1, <3>1 DEF RestTypeOK, backend, server, environment
    <3>7. TypeOK'
      BY <1>1, <2>2, <3>1, <3>3, <3>4, <3>6 DEF TypeOK, RestTypeOK, ErrorCode
    <3> QED
      BY <3>2, <3>3, <3>5, <3>7 DEF CtlInv
  <2> QED
    BY <2>3, <2>4
<1> QED
  BY <1>2, <1>3

LEMMA DisconnectedInv ==
  ASSUME CtlInv, disconnected
  PROVE  CtlInv'
<1>0. /\ RestTypeOK
      /\ state \in State /\ error \in ErrorCode /\ nextStep \in NextStep
      /\ initiator \in Principal /\ call \in Call
      /\ handshakeTimer \in BOOLEAN /\ queue \in Seq(Keys) /\ retry \in Nat
  BY RestFromInv
<1> USE <1>0
<1>1. UNCHANGED <<portalDetected, backend, environment>>
  BY DEF disconnected
<1>2. CASE /\ nextStep \in {"Quit", "Update"}
           /\ readyToQuit' = (nextStep = "Quit")
           /\ nextStep' = "None"
           /\ SetState("Off")
           /\ ClearAttempt
           /\ call' = NoCall
           /\ UNCHANGED <<error, initiator, connectedTime, server>>
  <2>1. RestTypeOK'
    BY <1>1, <1>2 DEF RestTypeOK, backend, server, environment
  <2>2. nextStep' \in NextStep /\ call' \in Call
    BY <1>2, NoCallType DEF NextStep
  <2>3. "Off" \in State \ {"Connecting", "Confirming", "On", "OnPartial"}
    BY DEF State
  <2> QED
    BY <1>2, <2>1, <2>2, <2>3, TeardownInv
<1>3. CASE /\ nextStep = "Reconnect"
           /\ ActivateInternal(state, initiator, error, "None", NoKey,
                               nextMultihop, 0)
           /\ UNCHANGED <<connectedTime, nextMultihop, readyToQuit>>
  <2>1. /\ state = "OnPartial" => initiator = "ExtensionUser"
        /\ state \in {"On", "OnPartial"} => connectedTime
    BY DEF CtlInv, PartialIsExtension, ConnectedHasTime
  <2>2. portalDetected' \in BOOLEAN /\ nextMultihop' \in BOOLEAN
        /\ readyToQuit' \in BOOLEAN /\ nextMultihop \in BOOLEAN
    BY <1>1, <1>3 DEF RestTypeOK
  <2>3. "None" \in NextStep /\ 0 < CONNECTION_MAX_RETRY /\ 0 \in Nat
    BY RetryAssumption DEF NextStep
  <2> QED
    BY <1>1, <1>3, <2>1, <2>2, <2>3, ActivateInternalInv
<1>4. CASE /\ nextStep \in {"None", "Disconnect"}
           /\ nextStep' = "None"
           /\ connectedTime' = FALSE
           /\ initiator' = "Null"
           /\ SetState("Off")
           /\ ClearAttempt
           /\ call' = NoCall
           /\ UNCHANGED <<error, server, readyToQuit>>
  <2>1. RestTypeOK'
    BY <1>1, <1>4 DEF RestTypeOK, backend, server, environment
  <2>2. nextStep' \in NextStep /\ call' \in Call /\ initiator' \in Principal
    BY <1>4, NoCallType DEF NextStep, Principal
  <2>3. "Off" \in State \ {"Connecting", "Confirming", "On", "OnPartial"}
    BY DEF State
  <2> QED
    BY <1>4, <2>1, <2>2, <2>3, TeardownInv
<1> QED
  BY <1>2, <1>3, <1>4 DEF disconnected

\* Giving up, from a running timer: the retry counter reaches its maximum.
LEMMA GiveUpInv ==
  ASSUME CtlInv, handshakeTimer,
         SetState("ConnectionError"), retry' = retry + 1,
         handshakeTimer' = FALSE, UNCHANGED queue,
         error' \in ErrorCode, nextStep' \in NextStep, initiator' \in Principal,
         call' \in Call, RestTypeOK'
  PROVE  CtlInv'
<1>1. /\ state' = "ConnectionError"
      /\ confirmingTimer' \in BOOLEAN
      /\ enableDisconnect' \in BOOLEAN
      /\ ConfirmingTimerScoped'
  BY SetStateScoped DEF State
<1>2. PartialIsExtension' /\ ConnectedHasTime' /\ WaitIsTimed'
  BY <1>1 DEF PartialIsExtension, ConnectedHasTime, WaitIsTimed
<1>3. HopsBounded' /\ TimerHasHop'
  BY DEF CtlInv, HopsBounded, TimerHasHop
<1>4. retry \in Nat /\ queue \in Seq(Keys)
  BY DEF CtlInv, TypeOK
<1>5. RetryInv'
  <2> DEFINE n == Len(queue)
  <2>1. n \in Nat /\ Len(queue') = n
    BY <1>4, LenProperties
  <2>2. retry < CONNECTION_MAX_RETRY \/ (retry = CONNECTION_MAX_RETRY /\ n = 1)
    BY DEF CtlInv, RetryInv
  <2> HIDE DEF n
  <2>3. retry + 1 <= CONNECTION_MAX_RETRY + 1
    BY <1>4, <2>2, RetryAssumption
  <2>4. retry + 1 = CONNECTION_MAX_RETRY + 1 => n <= 1
    BY <1>4, <2>1, <2>2, RetryAssumption
  <2> QED
    BY <2>1, <2>3, <2>4 DEF RetryInv
<1>6. retry' \in Nat /\ queue' \in Seq(Keys) /\ state' \in State
  BY <1>1, <1>4 DEF State
<1>7. TypeOK'
  BY <1>1, <1>6 DEF TypeOK, RestTypeOK
<1> QED
  BY <1>1, <1>2, <1>3, <1>5, <1>7 DEF CtlInv

LEMMA HandshakeTimeoutInv ==
  ASSUME CtlInv, handshakeTimeout
  PROVE  CtlInv'
<1>0. /\ RestTypeOK
      /\ state \in State /\ error \in ErrorCode /\ nextStep \in NextStep
      /\ initiator \in Principal /\ call \in Call
      /\ handshakeTimer \in BOOLEAN /\ queue \in Seq(Keys) /\ retry \in Nat
  BY RestFromInv
<1> USE <1>0
<1>1. /\ UNCHANGED <<backend, connectedTime, nextMultihop, environment, readyToQuit>>
      /\ handshakeTimer
  BY DEF handshakeTimeout
<1>2. ASSUME UNCHANGED <<exitKey, multihop>>, portalDetected' \in BOOLEAN
      PROVE  RestTypeOK'
  BY <1>1, <1>2 DEF RestTypeOK, backend, environment
<1>3. CASE /\ error' = "ServerTimeout"
           /\ SetState("ConnectionError")
           /\ handshakeTimer' = FALSE
           /\ call' = CallDeactivate
           /\ UNCHANGED <<queue, retry, nextStep, initiator,
                          exitKey, multihop, portalDetected>>
  <2>1. RestTypeOK'
    BY <1>2, <1>3 DEF RestTypeOK
  <2>2. error' \in ErrorCode /\ call' \in Call /\ "ConnectionError" \in State
    BY <1>3, NoCallType DEF ErrorCode, State
  <2> QED
    BY <1>3, <2>1, <2>2, QuietInv
<1>4. CASE /\ DeactivateActive(FALSE)
           /\ UNCHANGED <<nextStep, initiator, exitKey, multihop>>
  <2>1. portalDetected' \in BOOLEAN
    BY <1>4 DEF DeactivateActive, Deactivation, RestTypeOK
  <2>2. RestTypeOK'
    BY <1>2, <1>4, <2>1
  <2> QED
    BY <1>4, <2>2, DeactivateActiveInv
<1>5. CASE /\ ~isActive
           /\ handshakeTimer' = FALSE
           /\ UNCHANGED <<state, confirmingTimer, enableDisconnect, error, queue,
                          retry, nextStep, initiator,
                          exitKey, multihop, portalDetected, call>>
  <2>1. RestTypeOK'
    BY <1>2, <1>5 DEF RestTypeOK
  <2>2. SetState(state)
    BY <1>5 DEF SetState, CtlInv, TypeOK
  <2>3. state \notin {"Connecting", "Confirming", "On", "OnPartial"}
    BY <1>5 DEF isActive
  <2> QED
    BY <1>5, <2>1, <2>2, <2>3, QuietInv
<1>6. CASE /\ retry + 1 = 1 \/ retry + 1 < CONNECTION_MAX_RETRY
           /\ ActivateInternal(state, initiator, error, nextStep, exitKey,
                               multihop, retry + 1)
           /\ UNCHANGED portalDetected
  <2>1. /\ state = "OnPartial" => initiator = "ExtensionUser"
        /\ state \in {"On", "OnPartial"} => connectedTime
    BY DEF CtlInv, PartialIsExtension, ConnectedHasTime
  <2>2. /\ portalDetected' \in BOOLEAN /\ nextMultihop' \in BOOLEAN
        /\ readyToQuit' \in BOOLEAN /\ multihop \in BOOLEAN
        /\ exitKey \in Keys \cup {NoKey}
    BY <1>1, <1>6 DEF RestTypeOK
  <2>3. retry + 1 < CONNECTION_MAX_RETRY /\ retry + 1 \in Nat
    BY <1>6, RetryAssumption
  <2> QED
    BY <1>1, <1>6, <2>1, <2>2, <2>3, ActivateInternalInv
<1>7. CASE /\ retry' = retry + 1
           /\ ServerUnavailable(state)
           /\ handshakeTimer' = FALSE
           /\ UNCHANGED <<queue, nextStep, initiator,
                          exitKey, multihop, portalDetected, call>>
  <2>1. RestTypeOK'
    BY <1>2, <1>7 DEF RestTypeOK
  <2>2. SetState("ConnectionError") /\ error' \in ErrorCode
    BY <1>7 DEF ServerUnavailable, ErrorCode
  <2> QED
    BY <1>1, <1>7, <2>1, <2>2, GiveUpInv
<1> QED
  BY <1>3, <1>4, <1>5, <1>6, <1>7 DEF handshakeTimeout, MayRetry, NextRetry

LEMMA ActivateProfileInv ==
  ASSUME CtlInv, NEW k \in Keys, NEW user \in {"ExtensionUser", "ClientUser"},
         activateProfile(k, user)
  PROVE  CtlInv'
<1>0. /\ RestTypeOK
      /\ state \in State /\ error \in ErrorCode /\ nextStep \in NextStep
      /\ initiator \in Principal /\ call \in Call
      /\ handshakeTimer \in BOOLEAN /\ queue \in Seq(Keys) /\ retry \in Nat
  BY RestFromInv
<1> USE <1>0
<1>1. /\ UNCHANGED <<nextStep, portalDetected, backend, connectedTime, server,
                     environment, readyToQuit>>
      /\ MayActivate
  BY DEF activateProfile
<1>2. RestTypeOK'
  BY <1>1 DEF RestTypeOK, backend, server, environment
<1>3. CASE /\ error' = "NoServerAvailable"
           /\ SetState("ConnectionError")
           /\ UNCHANGED <<initiator, attempt, call>>
  <2>1. error' \in ErrorCode /\ "ConnectionError" \in State
    BY <1>3 DEF ErrorCode, State
  <2>2. UNCHANGED <<queue, retry, handshakeTimer>>
    BY <1>3 DEF attempt
  <2> QED
    BY <1>1, <1>2, <1>3, <2>1, <2>2, QuietInv
<1>4. CASE /\ error' = "None"
           /\ UNCHANGED <<state, confirmingTimer, enableDisconnect, initiator,
                          attempt, call>>
  <2>1. error' \in ErrorCode
    BY <1>4 DEF ErrorCode
  <2> QED
    BY <1>1, <1>2, <1>4, <2>1, UnmovedInv
<1>5. CASE /\ error' = "None"
           /\ initiator' = user
           /\ retry' = 0
           /\ queue' = <<k>>
           /\ SubmitFirst(<<k>>, IF user = "ExtensionUser" THEN state
                                                           ELSE "Connecting", user)
  <2> DEFINE s == IF user = "ExtensionUser" THEN state ELSE "Connecting"
  <2>1. /\ s \in State
        /\ s = "OnPartial" => user = "ExtensionUser"
        /\ s \in {"On", "OnPartial"} => connectedTime
    BY DEF State, CtlInv, ConnectedHasTime
  <2>2. <<k>> \in Seq(Keys) /\ Len(<<k>>) \in 1..2
    OBVIOUS
  <2>3. retry' \in Nat /\ retry' < CONNECTION_MAX_RETRY
    BY <1>5, RetryAssumption
  <2>4. error' \in ErrorCode /\ user \in Principal
    BY <1>5 DEF ErrorCode, Principal
  <2> HIDE DEF s
  <2>5. SubmitFirst(<<k>>, s, user)
    BY <1>5 DEF s
  <2> QED
    BY <1>1, <1>2, <1>5, <2>1, <2>2, <2>3, <2>4, <2>5, SubmitFirstInv
<1> QED
  BY <1>3, <1>4, <1>5 DEF activateProfile

LEMMA ActivateServerInv ==
  ASSUME CtlInv, NEW mh \in MultihopModes,
         NEW user \in {"ExtensionUser", "ClientUser"}, activateServer(mh, user)
  PROVE  CtlInv'
<1>0. /\ RestTypeOK
      /\ state \in State /\ error \in ErrorCode /\ nextStep \in NextStep
      /\ initiator \in Principal /\ call \in Call
      /\ handshakeTimer \in BOOLEAN /\ queue \in Seq(Keys) /\ retry \in Nat
  BY RestFromInv
<1> USE <1>0
<1>1. /\ UNCHANGED <<backend, connectedTime, nextMultihop, environment, readyToQuit>>
      /\ mh \in BOOLEAN
  BY ModesAssumption DEF activateServer
<1>2. CASE /\ portalDetected' \in BOOLEAN
           /\ error' = "None" /\ exitKey' = NoKey /\ multihop' = mh
           /\ UNCHANGED <<state, confirmingTimer, enableDisconnect, nextStep,
                          initiator, attempt, call>>
  <2>1. RestTypeOK' /\ error' \in ErrorCode
    BY <1>1, <1>2 DEF RestTypeOK, backend, environment, ErrorCode
  <2> QED
    BY <1>1, <1>2, <2>1, UnmovedInv
<1>3. CASE /\ ActivateInternal(IF user = "ExtensionUser" THEN state
                                                         ELSE "Connecting",
                               user, "None", nextStep, NoKey, mh, 0)
           /\ UNCHANGED portalDetected
  <2> DEFINE s == IF user = "ExtensionUser" THEN state ELSE "Connecting"
  <2>1. /\ s \in State
        /\ s = "OnPartial" => user = "ExtensionUser"
        /\ s \in {"On", "OnPartial"} => connectedTime
    BY DEF State, CtlInv, ConnectedHasTime
  <2>2. /\ portalDetected' \in BOOLEAN /\ nextMultihop' \in BOOLEAN
        /\ readyToQuit' \in BOOLEAN
    BY <1>1, <1>3 DEF RestTypeOK
  <2>3. /\ 0 < CONNECTION_MAX_RETRY /\ 0 \in Nat
        /\ "None" \in ErrorCode /\ user \in Principal
    BY RetryAssumption DEF ErrorCode, Principal
  <2> HIDE DEF s
  <2>4. ActivateInternal(s, user, "None", nextStep, NoKey, mh, 0)
    BY <1>3 DEF s
  <2> QED
    BY <1>1, <2>1, <2>2, <2>3, <2>4, ActivateInternalInv
<1>4. \A b : b = FALSE \/ b = portalDetected => b \in BOOLEAN
  BY DEF RestTypeOK
<1> QED
  BY <1>2, <1>3, <1>4 DEF activateServer

LEMMA SwitchServersInv ==
  ASSUME CtlInv, NEW mh \in MultihopModes, switchServers(mh)
  PROVE  CtlInv'
<1>0. /\ RestTypeOK
      /\ state \in State /\ error \in ErrorCode /\ nextStep \in NextStep
      /\ initiator \in Principal /\ call \in Call
      /\ handshakeTimer \in BOOLEAN /\ queue \in Seq(Keys) /\ retry \in Nat
  BY RestFromInv
<1> USE <1>0
<1> DEFINE s == IF state = "Connecting" THEN state ELSE "Switching"
<1>1. /\ UNCHANGED <<backend, connectedTime, environment, readyToQuit>>
      /\ nextMultihop' = mh
      /\ mh \in BOOLEAN
  BY ModesAssumption DEF switchServers
<1>2. s \in State /\ s \notin {"On", "OnPartial"}
  BY DEF State
<1>3. CASE /\ nextStep' = "Reconnect"
           /\ Deactivation(s)
           /\ UNCHANGED <<initiator, exitKey, multihop>>
  <2>1. portalDetected' = FALSE
    BY <1>3 DEF Deactivation
  <2>2. RestTypeOK' /\ nextStep' \in NextStep
    BY <1>1, <1>3, <2>1 DEF RestTypeOK, backend, environment, NextStep
  <2> HIDE DEF s
  <2> QED
    BY <1>2, <1>3, <2>2, DeactivationInv
<1>4. CASE /\ ActivateInternal(s, initiator, error, nextStep, NoKey, mh, 0)
           /\ UNCHANGED portalDetected
  <2>1. /\ portalDetected' \in BOOLEAN /\ nextMultihop' \in BOOLEAN
        /\ readyToQuit' \in BOOLEAN
    BY <1>1, <1>4 DEF RestTypeOK
  <2>2. 0 < CONNECTION_MAX_RETRY /\ 0 \in Nat
    BY RetryAssumption
  <2> HIDE DEF s
  <2> QED
    BY <1>1, <1>2, <1>4, <2>1, <2>2, ActivateInternalInv
<1> QED
  BY <1>3, <1>4 DEF switchServers

LEMMA SilentSwitchInv ==
  ASSUME CtlInv, silentSwitchServers
  PROVE  CtlInv'
<1>0. /\ RestTypeOK
      /\ state \in State /\ error \in ErrorCode /\ nextStep \in NextStep
      /\ initiator \in Principal /\ call \in Call
      /\ handshakeTimer \in BOOLEAN /\ queue \in Seq(Keys) /\ retry \in Nat
  BY RestFromInv
<1> USE <1>0
<1>1. /\ UNCHANGED <<portalDetected, backend, connectedTime, nextMultihop,
                     environment, readyToQuit>>
      /\ ActivateInternal("SilentSwitching", initiator, error, nextStep, exitKey,
                          multihop, 0)
  BY DEF silentSwitchServers
<1>2. /\ portalDetected' \in BOOLEAN /\ nextMultihop' \in BOOLEAN
      /\ readyToQuit' \in BOOLEAN /\ multihop \in BOOLEAN
      /\ exitKey \in Keys \cup {NoKey}
  BY <1>1 DEF RestTypeOK
<1>3. 0 < CONNECTION_MAX_RETRY /\ 0 \in Nat /\ "SilentSwitching" \in State
  BY RetryAssumption DEF State
<1> QED
  BY <1>1, <1>2, <1>3, ActivateInternalInv

\* deactivate(), quit() and updateRequired().
LEMMA StopInv ==
  ASSUME CtlInv,
         \/ \E user \in {"ExtensionUser", "ClientUser"} : deactivate(user)
         \/ quit
         \/ updateRequired
  PROVE  CtlInv'
<1>0. /\ RestTypeOK
      /\ state \in State /\ error \in ErrorCode /\ nextStep \in NextStep
      /\ initiator \in Principal /\ call \in Call
      /\ handshakeTimer \in BOOLEAN /\ queue \in Seq(Keys) /\ retry \in Nat
  BY RestFromInv
<1> USE <1>0
<1>1. /\ UNCHANGED <<initiator, backend, connectedTime, server, environment>>
      /\ readyToQuit' \in BOOLEAN
  BY DEF deactivate, quit, updateRequired, RestTypeOK
<1>2. nextStep' \in {nextStep, "Quit", "Update"}
  BY DEF deactivate, quit, updateRequired
<1>3. nextStep' \in NextStep
  BY <1>2 DEF NextStep
<1>4. ASSUME DeactivateActive(handshakeTimer)
      PROVE  CtlInv'
  <2>1. portalDetected' \in BOOLEAN
    BY <1>4 DEF DeactivateActive, Deactivation, RestTypeOK
  <2>2. RestTypeOK'
    BY <1>1, <2>1 DEF RestTypeOK, backend, server, environment
  <2> QED
    BY <1>1, <1>3, <1>4, <2>2, DeactivateActiveInv
<1>5. ASSUME UNCHANGED portalDetected
      PROVE  RestTypeOK'
  BY <1>1, <1>5 DEF RestTypeOK, backend, server, environment
<1>6. CASE \E user \in {"ExtensionUser", "ClientUser"} : deactivate(user)
  BY <1>4, <1>6 DEF deactivate
<1>7. CASE quit
  <2>1. CASE isActive /\ state # "Disconnecting"
    BY <1>4, <1>7, <2>1 DEF quit
  <2>2. CASE ~(isActive /\ state # "Disconnecting")
    <3>1. UNCHANGED <<state, confirmingTimer, enableDisconnect, error, attempt,
                      portalDetected, call>>
      BY <1>7, <2>2 DEF quit
    <3>2. state \notin {"Connecting", "Confirming", "On", "OnPartial"}
      BY <2>2 DEF isActive
    <3>3. SetState(state)
      BY <3>1 DEF SetState, CtlInv, TypeOK
    <3>4. UNCHANGED <<queue, retry, handshakeTimer>>
      BY <3>1 DEF attempt
    <3> QED
      BY <1>1, <1>3, <1>5, <3>1, <3>2, <3>3, <3>4, QuietInv
  <2> QED
    BY <2>1, <2>2
<1>8. CASE updateRequired
  <2>1. CASE state \in {"On", "OnPartial"}
    BY <1>4, <1>8, <2>1 DEF updateRequired
  <2>2. CASE state \notin {"On", "OnPartial"}
    <3>1. /\ UNCHANGED <<state, confirmingTimer, enableDisconnect, error,
                         attempt, portalDetected, call>>
          /\ nextStep' = "Update"
      BY <1>8, <2>2 DEF updateRequired
    <3> QED
      BY <1>1, <1>5, <3>1, UnmovedInv
  <2> QED
    BY <2>1, <2>2
<1> QED
  BY <1>6, <1>7, <1>8

\* The handlers that set the state alone, or nothing the invariant reads.
LEMMA OtherInv ==
  ASSUME CtlInv,
         \/ initialize
         \/ implPermRequired
         \/ \E s, c \in BOOLEAN : implInitialized(s, c)
         \/ deleteOSTunnelConfig
         \/ \E code \in BackendErrorCode : handleBackendFailure(code)
         \/ implReturn
         \/ confirmingTimeout
         \/ startKeyRegeneration
         \/ \E present \in BOOLEAN : captivePortal(present)
         \/ environmentChanges
  PROVE  CtlInv'
<1>0. /\ RestTypeOK
      /\ state \in State /\ error \in ErrorCode /\ nextStep \in NextStep
      /\ initiator \in Principal /\ call \in Call
      /\ handshakeTimer \in BOOLEAN /\ queue \in Seq(Keys) /\ retry \in Nat
  BY RestFromInv
<1> USE <1>0
<1> USE DEF RestTypeOK, attempt, backend, server, environment
<1>1. CASE initialize
  <2>1. RestTypeOK' /\ call' \in Call
    BY <1>1, ModesAssumption, NoCallType DEF initialize
  <2> QED
    BY <1>1, <2>1, UnmovedInv DEF initialize
<1>2. CASE implPermRequired
  <2>1. RestTypeOK' /\ call' \in Call /\ "PermissionRequired" \in State
    BY <1>2, NoCallType DEF implPermRequired, State
  <2> QED
    BY <1>2, <2>1, QuietInv DEF implPermRequired
<1>3. CASE \E s, c \in BOOLEAN : implInitialized(s, c)
  <2>1. PICK s \in BOOLEAN, c \in BOOLEAN : implInitialized(s, c)
    BY <1>3
  <2>2. RestTypeOK' /\ call' \in Call
    BY <2>1, NoCallType DEF implInitialized
  <2>3. CASE s /\ c
    <3>1. /\ SetState("On") /\ connectedTime' = TRUE
          /\ UNCHANGED <<error, nextStep, initiator, queue, retry, handshakeTimer>>
      BY <2>1, <2>3 DEF implInitialized
    <3>2. /\ state' = "On"
          /\ confirmingTimer' \in BOOLEAN
          /\ enableDisconnect' \in BOOLEAN
          /\ ConfirmingTimerScoped'
      BY <3>1, SetStateScoped DEF State
    <3>3. PartialIsExtension' /\ ConnectedHasTime' /\ WaitIsTimed'
      BY <3>1, <3>2 DEF PartialIsExtension, ConnectedHasTime, WaitIsTimed
    <3>4. HopsBounded' /\ TimerHasHop' /\ RetryInv'
      BY <3>1 DEF CtlInv, HopsBounded, TimerHasHop, RetryInv
    <3>5. TypeOK'
      BY <2>2, <3>1, <3>2 DEF TypeOK, State
    <3> QED
      BY <3>2, <3>3, <3>4, <3>5 DEF CtlInv
  <2>4. CASE ~(s /\ c)
    <3>1. /\ SetState("Off")
          /\ UNCHANGED <<error, nextStep, initiator, queue, retry, handshakeTimer>>
      BY <2>1, <2>4 DEF implInitialized
    <3> QED
      BY <2>2, <3>1, QuietInv DEF State
  <2> QED
    BY <2>3, <2>4
<1>4. CASE deleteOSTunnelConfig
  BY <1>4, QuietInv DEF deleteOSTunnelConfig, State
<1>5. CASE \E code \in BackendErrorCode : handleBackendFailure(code)
  <2>1. error' \in ErrorCode /\ RestTypeOK'
    BY <1>5 DEF handleBackendFailure, BackendErrorCode, ErrorCode
  <2> QED
    BY <1>5, <2>1, UnmovedInv DEF handleBackendFailure
<1>6. CASE implReturn
  BY <1>6, NoCallType, UnmovedInv DEF implReturn
<1>7. CASE confirmingTimeout
  <2>1. /\ confirmingTimer /\ confirmingTimer' = FALSE /\ enableDisconnect' = TRUE
        /\ UNCHANGED <<state, error, nextStep, initiator, queue, retry,
                       handshakeTimer, connectedTime, call>>
        /\ RestTypeOK'
    BY <1>7 DEF confirmingTimeout
  <2>2. PartialIsExtension' /\ ConnectedHasTime' /\ WaitIsTimed' /\ ConfirmingTimerScoped'
    BY <2>1 DEF CtlInv, PartialIsExtension, ConnectedHasTime, WaitIsTimed,
                ConfirmingTimerScoped
  <2>3. HopsBounded' /\ TimerHasHop' /\ RetryInv'
    BY <2>1 DEF CtlInv, HopsBounded, TimerHasHop, RetryInv
  <2>4. TypeOK'
    BY <2>1 DEF TypeOK
  <2> QED
    BY <2>2, <2>3, <2>4 DEF CtlInv
<1>8. CASE startKeyRegeneration
  BY <1>8, QuietInv DEF startKeyRegeneration, State
<1>9. CASE \E present \in BOOLEAN : captivePortal(present)
  <2>1. RestTypeOK'
    BY <1>9 DEF captivePortal
  <2> QED
    BY <1>9, <2>1, UnmovedInv DEF captivePortal
<1>10. CASE environmentChanges
  <2>1. RestTypeOK'
    BY <1>10, ModesAssumption DEF environmentChanges
  <2> QED
    BY <1>10, <2>1, UnmovedInv DEF environmentChanges
<1> QED
  BY <1>1, <1>2, <1>3, <1>4, <1>5, <1>6, <1>7, <1>8, <1>9, <1>10

-----------------------------------------------------------------------------

\* CtlInv holds initially.
LEMMA InitInv == Init => CtlInv
<1> SUFFICES ASSUME Init PROVE CtlInv
  OBVIOUS
<1>1. queue \in Seq(Keys) /\ Len(queue) = 0
  BY DEF Init
<1>2. TypeOK
  BY <1>1, ModesAssumption, NoCallType
     DEF Init, TypeOK, State, ErrorCode, NextStep, Principal
<1>3. HopsBounded /\ TimerHasHop /\ RetryInv
  BY <1>1, RetryAssumption DEF Init, HopsBounded, TimerHasHop, RetryInv
<1>4. PartialIsExtension /\ ConnectedHasTime /\ WaitIsTimed /\ ConfirmingTimerScoped
  BY DEF Init, PartialIsExtension, ConnectedHasTime, WaitIsTimed, ConfirmingTimerScoped
<1> QED
  BY <1>2, <1>3, <1>4 DEF CtlInv

\* Every step of the controller preserves CtlInv.
LEMMA NextInv == CtlInv /\ [CtlNext]_ctlVars => CtlInv'
<1> SUFFICES ASSUME CtlInv, [CtlNext]_ctlVars PROVE CtlInv'
  OBVIOUS
<1>1. CASE UserNext
  BY <1>1, ActivateProfileInv, ActivateServerInv, SwitchServersInv,
     SilentSwitchInv, StopInv, OtherInv DEF UserNext
<1>2. CASE TimerNext
  BY <1>2, HandshakeTimeoutInv, OtherInv DEF TimerNext
<1>3. CASE SignalNext
  BY <1>3, ConnectedInv, DisconnectedInv, OtherInv DEF SignalNext
<1>4. CASE UNCHANGED ctlVars
  <2>1. UNCHANGED <<state, error, nextStep, initiator, attempt, confirmingTimer,
                    enableDisconnect, connectedTime, call>>
    BY <1>4 DEF ctlVars
  <2>2. RestTypeOK'
    BY <1>4, RestFromInv DEF ctlVars, RestTypeOK, backend, server, environment
  <2> QED
    BY <2>1, <2>2, RestFromInv, UnmovedInv
<1> QED
  BY <1>1, <1>2, <1>3, <1>4 DEF CtlNext

\* With any backend, any peers and any retry limit above one, the invariant
\* holds in every reachable state of the controller.
THEOREM ControllerInvariant == CtlSpec => []CtlInv
  BY InitInv, NextInv, PTL DEF CtlSpec

\* The variables of the controller always have their types.
THEOREM ControllerTypes == CtlSpec => []TypeOK
<1>1. CtlInv => TypeOK
  BY DEF CtlInv
<1> QED
  BY <1>1, ControllerInvariant, PTL

\* handshakeTimeout() never meets the empty queue it asserts against and then
\* dereferences, whatever the backend reports and in whatever order.
THEOREM NoTimeoutWithoutHop == CtlSpec => []TimerHasHop
<1>1. CtlInv => TimerHasHop
  BY DEF CtlInv
<1> QED
  BY <1>1, ControllerInvariant, PTL

\* The connection retries are bounded by CONNECTION_MAX_RETRY, plus the one a
\* late handshake with the entry hop can add.
THEOREM RetriesBounded == CtlSpec => []RetriesEnd
<1>1. CtlInv => RetriesEnd
  <2> SUFFICES ASSUME CtlInv PROVE RetriesEnd
    OBVIOUS
  <2>1. retry \in Nat
    BY DEF CtlInv, TypeOK
  <2>2. handshakeTimer => retry <= CONNECTION_MAX_RETRY
    BY <2>1, RetryAssumption DEF CtlInv, RetryInv
  <2> QED
    BY <2>2 DEF CtlInv, RetryInv, RetriesEnd
<1> QED
  BY <1>1, ControllerInvariant, PTL

\* The controller never waits for a handshake without a running timer, unless
\* it already owes a deactivation.
THEOREM NoUntimedWait == CtlSpec => []WaitIsTimed
<1>1. CtlInv => WaitIsTimed
  BY DEF CtlInv
<1> QED
  BY <1>1, ControllerInvariant, PTL

\* Partial protection is only shown for the extension's tunnel, a connected
\* state has its connection time, and the confirming timer belongs to the
\* confirming state.
THEOREM ShownStateIsTrue ==
  CtlSpec => []ShownIsTrue
<1>1. CtlInv => ShownIsTrue
  BY DEF CtlInv, ShownIsTrue
<1> QED
  BY <1>1, ControllerInvariant, PTL

=============================================================================
