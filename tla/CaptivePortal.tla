---------------------------- MODULE CaptivePortal ----------------------------
(***************************************************************************)
(* Is the network's captive portal in the way: CaptivePortalDetection and  *)
(* its CaptivePortalRequestTask and CaptivePortalRequest                   *)
(* (src/src/captiveportal).                                                *)
(*                                                                         *)
(* A detection is an object that listens to a task of the application's    *)
(* queue; dropping the object leaves the task in the queue, unheard.  The  *)
(* task asks all the known addresses at once and again until one answers   *)
(* or its time is over.                                                    *)
(***************************************************************************)
EXTENDS Naturals, Sequences, SequencesExt

CONSTANTS
  Addresses,     \* number of addresses to ask
  MaxDetections  \* bound on the detection tasks in the queue

ASSUME PortalAssumption == Addresses \in Nat /\ MaxDetections \in Nat \ {0}

VARIABLES
  portalCtl,     \* the controller's state: "Off", "Connecting" (or confirming),
                 \* "On" or "Other"
  unstable,      \* the connection's health is not Stable
  m_active,      \* the user wants the detection
  m_shouldRun,   \* there was none in this instability
  detecting,     \* m_impl exists
  detections,    \* the detection tasks in the queue; TRUE if m_impl listens
  asking,        \* the first of them runs: requests without an answer, requests
                 \* with a good one, and a retry is due
  behindPortal,  \* Controller::m_portalDetected
  deleted,       \* history: a task that was listened to has been deleted
  round          \* history: changes with each detection

detectionVars == <<detecting, detections, deleted, round>>
portalVars == <<portalCtl, unstable, m_active, m_shouldRun, detectionVars, asking,
                behindPortal>>

NotAsking == [running |-> 0, success |-> 0, retry |-> FALSE, on |-> FALSE]
Asking == [NotAsking EXCEPT !.running = Addresses, !.on = TRUE]

PortalTypeOK ==
  /\ portalCtl \in {"Off", "Connecting", "On", "Other"}
  /\ detections \in Seq(BOOLEAN) /\ Len(detections) <= MaxDetections
  /\ asking \in [running : 0 .. Addresses, success : 0 .. Addresses,
                 retry : BOOLEAN, on : BOOLEAN]
  /\ asking.on => detections # <<>>
  /\ {unstable, m_active, m_shouldRun, detecting, behindPortal, deleted, round} \subseteq BOOLEAN

PortalInit ==
  /\ portalCtl = "Off" /\ unstable = FALSE
  /\ m_active \in BOOLEAN /\ m_shouldRun = TRUE /\ detecting = FALSE
  /\ detections = <<>> /\ asking = NotAsking
  /\ behindPortal = FALSE /\ deleted = FALSE /\ round = FALSE

-----------------------------------------------------------------------------
(* CaptivePortalDetection.                                                 *)

Unheard == [i \in DOMAIN detections |-> FALSE]

\* m_impl.reset().
dropDetection ==
  /\ detecting' = FALSE
  /\ detections' = Unheard
  /\ deleted' = FALSE
  /\ UNCHANGED round

detectCaptivePortal_keepsOld(state) ==
  IF m_active /\ state \in {"On", "Connecting"}
  THEN /\ Len(detections) < MaxDetections
       /\ detecting' = TRUE
       /\ detections' = Append(detections, TRUE)
       /\ deleted' = FALSE
       /\ round' = ~round
  ELSE UNCHANGED detectionVars

\* detectCaptivePortal() in this state of the controller: a new object replaces
\* the one there is.
detectCaptivePortal(state) ==
  IF m_active /\ state \in {"On", "Connecting"}
  THEN /\ Len(detections) < MaxDetections
       /\ detecting' = TRUE
       /\ detections' = Append(Unheard, TRUE)
       /\ deleted' = FALSE
       /\ round' = ~round
  ELSE UNCHANGED detectionVars

\* No detection is needed: connected and stable, or neither connected nor
\* connecting.
Calm(state, shaky) == (state # "On" \/ ~shaky) /\ state # "Connecting"

\* The slot of the controller's and of the health's signal.
portalStateChanged(state, shaky) ==
  CASE ~m_active \/ state = "Off" ->
         UNCHANGED <<m_shouldRun, detectionVars>>
    [] m_active /\ state # "Off" /\ Calm(state, shaky) ->
         dropDetection /\ m_shouldRun' = TRUE
    [] OTHER ->
         /\ UNCHANGED m_shouldRun
         /\ IF m_shouldRun THEN detectCaptivePortal(state)
            ELSE UNCHANGED detectionVars

\* The controller or the health changes.  Activating and deactivating use up
\* m_portalDetected.
somethingChanges(state, shaky) ==
  /\ <<state, shaky>> # <<portalCtl, unstable>>
  /\ portalCtl' = state /\ unstable' = shaky
  /\ behindPortal' \in IF state = portalCtl THEN {behindPortal} ELSE {FALSE, behindPortal}
  /\ portalStateChanged(state, shaky)
  /\ UNCHANGED <<m_active, asking>>

networkChanged ==
  /\ portalCtl \in {"On", "Connecting"}
  /\ detectCaptivePortal(portalCtl)
  /\ UNCHANGED <<portalCtl, unstable, m_active, m_shouldRun, asking, behindPortal>>

settingsChanged ==
  /\ m_active' = ~m_active
  /\ IF m_active THEN dropDetection ELSE UNCHANGED detectionVars
  /\ UNCHANGED <<portalCtl, unstable, m_shouldRun, asking, behindPortal>>

Completed_ifHeard(portal) ==
  /\ Head(detections)
  /\ detections' = Tail(detections)
  /\ asking' = NotAsking
  /\ detecting' = FALSE
  /\ m_shouldRun' = FALSE
  /\ behindPortal' = (behindPortal \/ (portal /\ m_active))
  /\ UNCHANGED <<portalCtl, unstable, m_active, deleted, round>>

\* detectionCompleted() if somebody listens; the task leaves the queue.
Completed(portal) ==
  /\ detections' = Tail(detections)
  /\ asking' = NotAsking
  /\ IF Head(detections)
     THEN /\ detecting' = FALSE
          /\ m_shouldRun' = FALSE
          /\ behindPortal' = (behindPortal \/ (portal /\ m_active))
     ELSE UNCHANGED <<detecting, m_shouldRun, behindPortal>>
  /\ UNCHANGED <<portalCtl, unstable, m_active, deleted, round>>

-----------------------------------------------------------------------------
(* The task.                                                               *)

\* run(): without addresses there is no portal.
runDetection ==
  /\ detections # <<>> /\ ~asking.on
  /\ IF Addresses = 0 THEN Completed(FALSE)
     ELSE /\ asking' = Asking
          /\ UNCHANGED <<portalCtl, unstable, m_active, m_shouldRun, detectionVars, behindPortal>>

\* One of the requests has its answer, with CaptivePortalRequest::onResult().
\* The first one to see a portal decides, the last one to answer otherwise; if all
\* failed there will be another try.
requestAnswered(result) ==
  /\ asking.running > 0
  /\ IF result = "PortalDetected" THEN Completed(TRUE)
     ELSE LET left == [asking EXCEPT
                !.running = @ - 1, !.success = IF result = "NoPortal" THEN @ + 1 ELSE @]
          IN  IF left.running = 0 /\ left.success > 0 THEN Completed(FALSE)
              ELSE /\ asking' = [left EXCEPT !.retry = left.running = 0]
                   /\ UNCHANGED <<portalCtl, unstable, m_active, m_shouldRun, detectionVars, behindPortal>>

retryTimeout ==
  /\ asking.retry
  /\ asking' = Asking
  /\ UNCHANGED <<portalCtl, unstable, m_active, m_shouldRun, detectionVars, behindPortal>>

\* Half a minute is over.
detectionTimeout ==
  /\ asking.on
  /\ Completed(FALSE)

\* TaskScheduler::deleteTasks(): activate(), deactivate() and each sign of
\* instability.
tasksDeleted ==
  /\ detections # <<>>
  /\ detections' = <<>> /\ asking' = NotAsking
  /\ deleted' = (deleted \/ TRUE \in Range(detections))
  /\ UNCHANGED <<portalCtl, unstable, m_active, m_shouldRun, detecting, behindPortal, round>>

PortalNext ==
  \/ \E state \in {"Off", "Connecting", "On", "Other"}, shaky \in BOOLEAN :
       somethingChanges(state, shaky)
  \/ networkChanged \/ settingsChanged
  \/ runDetection \/ retryTimeout \/ detectionTimeout \/ tasksDeleted
  \/ \E result \in {"NoPortal", "PortalDetected", "Failure"} : requestAnswered(result)

PortalSpec == PortalInit /\ [][PortalNext]_portalVars

-----------------------------------------------------------------------------

\* There is one detection at a time and it hears of one task, however often the
\* network, the state and the settings change: at most one verdict comes of it.
\* A detection whose task was deleted waits in vain.
OneVerdict ==
  LET heard == {i \in DOMAIN detections : detections[i]}
  IN  /\ \A i, j \in heard : i = j
      /\ detecting <=> heard # {} \/ deleted

\* Every detection comes to a verdict, is given up for another one or for good,
\* or loses its task; the tasks of those given up before it do not stand in its
\* way, and nobody needs to answer.
DetectionEnds ==
  \A r \in BOOLEAN : []<>(~detecting \/ round # r \/ deleted)

\* What CaptivePortalDetection is for: every detection ends, with one verdict.
PortalDetects == []OneVerdict /\ DetectionEnds

=============================================================================
