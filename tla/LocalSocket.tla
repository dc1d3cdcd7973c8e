----------------------------- MODULE LocalSocket -----------------------------
(***************************************************************************)
(* The backend of the Windows client: LocalSocketController, the local     *)
(* socket to the daemon, and DaemonLocalServerConnection at its other end. *)
(* Messages are lines in both directions, in order; a connection is opened *)
(* and looked for again with a growing interval when it is lost.           *)
(*                                                                         *)
(* Opening the socket is done or has failed when connectToServer() returns *)
(* (QLocalSocket, external), and abort() of an open one emits its          *)
(* disconnected() signal.  The daemon's tunnel ends with it.               *)
(***************************************************************************)
EXTENDS Naturals, Sequences

CONSTANTS
  MAX_INTERVAL,  \* CONNECTION_RETRY_MAXIMUM_MSEC in units of the first interval
  MaxLines,      \* requests wait while as many lines are under way
  LateReplies    \* may an answer take longer than its timeout?

ASSUME SocketAssumption ==
  {MAX_INTERVAL, MaxLines} \subseteq Nat \ {0} /\ LateReplies \in BOOLEAN

VARIABLES
  m_daemonState,          \* "Unknown", "Initializing" or "Ready"
  m_initializingTimer,    \* it is active
  m_initializingInterval,
  m_responseTimeouts,     \* the numbers of timers per type of answer
  link,                   \* the socket: "closed", "open", or "broken" (closed by
                          \* the daemon, not yet noticed)
  stub,                   \* m_buffer holds the beginning of a line
  toDaemon, fromDaemon,   \* lines under way
  daemonUp,               \* the daemon runs
  tunnel,                 \* its connection: "none", "pending" or "up"
  told,                   \* history: what the controller was told last
  owed,                   \* history: it waits for disconnected()
  overlap                 \* history: a good connection was aborted last

socketVars == <<m_daemonState, m_initializingTimer, m_initializingInterval,
                m_responseTimeouts, link, stub, toDaemon, fromDaemon, daemonUp, tunnel,
                told, owed, overlap>>
daemonSideVars == <<daemonUp, tunnel>>
retryVars == <<m_daemonState, m_initializingTimer, m_initializingInterval, overlap>>
toldVars == <<told, owed>>

NoTimeouts == [status |-> 0, logs |-> 0]

SocketInit ==
  /\ m_daemonState = "Unknown" /\ m_initializingTimer = FALSE
  /\ m_initializingInterval = 1 /\ m_responseTimeouts = NoTimeouts
  /\ link = "closed" /\ stub = FALSE /\ toDaemon = <<>> /\ fromDaemon = <<>>
  /\ daemonUp \in BOOLEAN /\ tunnel \in {"none", "pending", "up"}
  /\ ~daemonUp => tunnel = "none"
  /\ told = "none" /\ owed = FALSE /\ overlap = FALSE

SocketTypeOK ==
  /\ m_daemonState \in {"Unknown", "Initializing", "Ready"}
  /\ {m_initializingTimer, stub, daemonUp, owed, overlap} \subseteq BOOLEAN
  /\ m_initializingInterval \in 1 .. MAX_INTERVAL
  /\ m_responseTimeouts \in [{"status", "logs"} -> Nat]
  /\ link \in {"closed", "open", "broken"}
  /\ toDaemon \in Seq({"activate", "deactivate", "status", "logs", "cleanlogs"})
  /\ \A i \in DOMAIN fromDaemon :
       fromDaemon[i].type \in {"status", "connected", "disconnected", "logs"}
  /\ tunnel \in {"none", "pending", "up"}
  /\ told \in {"none", "on", "off"}

-----------------------------------------------------------------------------
(* LocalSocketController.                                                  *)

\* errorOccurred(): the controller hears of a failure and that it is off, unless
\* the client is looking for the daemon anyway.
tellFailure ==
  IF m_daemonState # "Initializing"
  THEN told' = "off" /\ owed' = FALSE
  ELSE UNCHANGED toldVars

errorOccurred ==
  /\ tellFailure
  /\ m_responseTimeouts' = NoTimeouts
  /\ m_initializingTimer' = TRUE

NextInterval ==
  IF m_daemonState # "Initializing" THEN 1
  ELSE IF m_initializingInterval < MAX_INTERVAL THEN 2 * m_initializingInterval
  ELSE m_initializingInterval

initializeInternal_failedForGood ==
  /\ m_initializingInterval' = NextInterval
  /\ m_daemonState' = "Initializing"
  /\ fromDaemon' = <<>>
  /\ overlap' = (link = "open")
  /\ link' = IF daemonUp THEN "open" ELSE "closed"
  /\ toDaemon' = IF daemonUp THEN <<"status">> ELSE <<>>
  /\ m_responseTimeouts' = [NoTimeouts EXCEPT !.status = IF daemonUp THEN 1 ELSE 0]
  /\ m_initializingTimer' = (link = "open")

\* initializeInternal() up to the return of connectToServer(): daemonConnected()
\* asks for the status; if the daemon is not there the timer starts again.  It
\* also starts if an open connection is aborted, and stays then.
initializeInternal ==
  /\ m_initializingInterval' = NextInterval
  /\ m_daemonState' = "Initializing"
  /\ fromDaemon' = <<>>
  /\ overlap' = (link = "open")
  /\ link' = IF daemonUp THEN "open" ELSE "closed"
  /\ toDaemon' = IF daemonUp THEN <<"status">> ELSE <<>>
  /\ m_responseTimeouts' = [NoTimeouts EXCEPT !.status = IF daemonUp THEN 1 ELSE 0]
  /\ m_initializingTimer' = (link = "open" \/ ~daemonUp)

lsInitialize ==
  /\ m_daemonState = "Unknown"
  /\ initializeInternal
  /\ UNCHANGED <<stub, daemonSideVars, toldVars>>

initializingTimeout ==
  /\ m_initializingTimer
  /\ initializeInternal
  /\ UNCHANGED <<stub, daemonSideVars, toldVars>>

\* The daemon closed the socket.
socketDisconnected ==
  /\ link = "broken"
  /\ link' = "closed" /\ toDaemon' = <<>> /\ fromDaemon' = <<>>
  /\ errorOccurred
  /\ UNCHANGED <<m_daemonState, m_initializingInterval, overlap, stub, daemonSideVars>>

Answers(type) ==
  \/ \E i \in DOMAIN toDaemon : toDaemon[i] = type
  \/ \E i \in DOMAIN fromDaemon : fromDaemon[i].type = type

\* A timer of write() fires.  The socket stays as it is.
responseTimeout ==
  /\ \E type \in {"status", "logs"} :
       m_responseTimeouts[type] > 0 /\ (LateReplies \/ ~Answers(type))
  /\ errorOccurred
  /\ UNCHANGED <<m_daemonState, m_initializingInterval, overlap, link, stub, toDaemon,
                 fromDaemon, daemonSideVars>>

\* write(): lost on a socket that is not open.
write(line) == toDaemon' = IF link = "open" THEN Append(toDaemon, line) ELSE toDaemon

Asks(line) ==
  /\ m_daemonState # "Unknown" /\ Len(toDaemon) + Len(fromDaemon) < MaxLines
  /\ write(line)
  /\ UNCHANGED <<retryVars, link, stub, fromDaemon, daemonSideVars>>

lsActivate ==
  /\ Asks("activate")
  /\ UNCHANGED <<m_responseTimeouts, toldVars>>

deactivateReady ==
  /\ m_daemonState = "Ready"
  /\ Asks("deactivate")
  /\ owed' = TRUE
  /\ UNCHANGED <<m_responseTimeouts, told>>

\* Without a daemon there is nothing to disconnect.
deactivateNotReady ==
  /\ m_daemonState # "Ready"
  /\ told' = "off" /\ owed' = FALSE
  /\ UNCHANGED <<retryVars, m_responseTimeouts, link, stub, toDaemon, fromDaemon,
                 daemonSideVars>>

\* Answers are awaited for one second or five; at most one timer of a kind here.
lsCheckStatus ==
  /\ m_responseTimeouts.status = 0
  /\ Asks("status")
  /\ m_responseTimeouts' = [m_responseTimeouts EXCEPT !.status = 1]
  /\ UNCHANGED toldVars

getBackendLogs ==
  /\ m_daemonState = "Ready"
  /\ Asks("logs")
  /\ UNCHANGED <<m_responseTimeouts, toldVars>>

\* cleanupBackendLogs() waits for "logs", which the daemon does not send.
cleanupBackendLogs ==
  /\ m_daemonState = "Ready" /\ m_responseTimeouts.logs = 0
  /\ Asks("cleanlogs")
  /\ m_responseTimeouts' = [m_responseTimeouts EXCEPT !.logs = 1]
  /\ UNCHANGED toldVars

initialized(st) ==
  IF st = "pending"
  THEN UNCHANGED toldVars    \* "date is invalid": the controller waits on
  ELSE told' = (IF st = "up" THEN "on" ELSE "off") /\ owed' = FALSE

parseStatus_initializedOnce(st) ==
  /\ m_responseTimeouts' = [m_responseTimeouts EXCEPT !.status = 0]
  /\ m_daemonState' = "Ready"
  /\ IF told = "none" THEN initialized(st) ELSE UNCHANGED toldVars
  /\ UNCHANGED <<m_initializingTimer, overlap>>

parseStatus(st) ==
  /\ m_responseTimeouts' = [m_responseTimeouts EXCEPT !.status = 0]
  /\ m_daemonState' = "Ready"
  /\ IF m_daemonState = "Initializing" THEN initialized(st) ELSE UNCHANGED toldVars
  /\ UNCHANGED <<m_initializingTimer, overlap>>

parseOther_onlyIfOn(type) ==
  /\ m_responseTimeouts' =
       [m_responseTimeouts EXCEPT !.logs = IF type = "logs" THEN 0 ELSE @]
  /\ UNCHANGED m_daemonState
  /\ IF m_daemonState = "Ready" /\ type = "disconnected" /\ told = "on"
     THEN /\ told' = "off" /\ owed' = FALSE
          /\ m_initializingTimer' = FALSE /\ overlap' = FALSE
     ELSE /\ IF m_daemonState = "Ready" /\ type = "connected"
             THEN told' = "on" /\ UNCHANGED owed
             ELSE UNCHANGED toldVars
          /\ UNCHANGED <<m_initializingTimer, overlap>>

\* Lines before the status are ignored.  disconnectInternal() also stops the
\* timer.
parseOther(type) ==
  /\ m_responseTimeouts' =
       [m_responseTimeouts EXCEPT !.logs = IF type = "logs" THEN 0 ELSE @]
  /\ UNCHANGED m_daemonState
  /\ IF m_daemonState = "Ready" /\ type = "disconnected"
     THEN /\ told' = "off" /\ owed' = FALSE
          /\ m_initializingTimer' = FALSE /\ overlap' = FALSE
     ELSE /\ IF m_daemonState = "Ready" /\ type = "connected"
             THEN told' = "on" /\ UNCHANGED owed
             ELSE UNCHANGED toldVars
          /\ UNCHANGED <<m_initializingTimer, overlap>>

\* readData(), line by line.  A line after the beginning of another one, which the
\* last connection left in the buffer, is no JSON.
readData ==
  /\ link = "open" /\ fromDaemon # <<>>
  /\ fromDaemon' = Tail(fromDaemon)
  /\ stub' = FALSE
  /\ LET line == Head(fromDaemon)
     IN  IF stub THEN UNCHANGED <<m_responseTimeouts, m_daemonState, m_initializingTimer,
                                  overlap, toldVars>>
         ELSE IF line.type = "status" THEN parseStatus(line.tunnel)
         ELSE parseOther(line.type)
  /\ UNCHANGED <<m_initializingInterval, link, toDaemon, daemonSideVars>>

-----------------------------------------------------------------------------
(* DaemonLocalServerConnection and the daemon behind it.                   *)

Line(type) == [type |-> type, tunnel |-> "none"]

Tell(lines, t) ==
  /\ fromDaemon' = IF link = "open" THEN fromDaemon \o lines ELSE fromDaemon
  /\ tunnel' = t

parseCommand(line) ==
  CASE line = "activate"   -> Tell(<<>>, "pending") \/ Tell(<<Line("disconnected")>>, "none")
    [] line = "deactivate" -> Tell(<<Line("disconnected")>>, "none")
    [] line = "status"     -> Tell(<<[type |-> "status", tunnel |-> tunnel]>>, tunnel)
    [] line = "logs"       -> Tell(<<Line("logs")>>, tunnel)
    [] line = "cleanlogs"  -> Tell(<<>>, tunnel)

daemonReads ==
  /\ daemonUp /\ toDaemon # <<>>
  /\ toDaemon' = Tail(toDaemon)
  /\ parseCommand(Head(toDaemon))
  /\ UNCHANGED <<retryVars, m_responseTimeouts, link, stub, daemonUp, toldVars>>

daemonHandshake ==
  /\ daemonUp /\ tunnel = "pending"
  /\ Tell(<<Line("connected")>>, "up")
  /\ UNCHANGED <<retryVars, m_responseTimeouts, link, stub, toDaemon, daemonUp, toldVars>>

\* Its last line may reach the client in part.
daemonCrash ==
  /\ daemonUp
  /\ daemonUp' = FALSE /\ tunnel' = "none"
  /\ link' = IF link = "open" THEN "broken" ELSE link
  /\ toDaemon' = <<>> /\ fromDaemon' = <<>>
  /\ stub' \in {stub, stub \/ fromDaemon # <<>>}
  /\ UNCHANGED <<retryVars, m_responseTimeouts, toldVars>>

daemonStart ==
  /\ ~daemonUp
  /\ daemonUp' = TRUE
  /\ UNCHANGED <<retryVars, m_responseTimeouts, link, stub, toDaemon, fromDaemon, tunnel,
                 toldVars>>

ClientSideNext ==
  \/ lsInitialize \/ initializingTimeout \/ socketDisconnected \/ responseTimeout
  \/ lsActivate \/ deactivateReady \/ deactivateNotReady \/ lsCheckStatus
  \/ getBackendLogs \/ cleanupBackendLogs \/ readData

SocketNext ==
  ClientSideNext \/ daemonReads \/ daemonHandshake \/ daemonCrash \/ daemonStart

SocketSpec == SocketInit /\ [][SocketNext]_socketVars

-----------------------------------------------------------------------------

\* A client that finds the daemon keeps it: once the daemon stays up, so does the
\* connection, however often it was lost while it was made.  Excepted is a client
\* that aborted a good connection because of a timeout: the timer that abort()
\* starts is not stopped, and it does so again and again.
DaemonFound ==
  <>[]daemonUp => <>[](m_daemonState = "Ready" /\ link = "open") \/ []<>overlap

\* A deactivation is answered, by the daemon or by what the client says in its
\* place, wherever the connection breaks.
DeactivationHeard == <>[]daemonUp => []<>~owed \/ []<>overlap

\* When all lines are read, the controller was told of a tunnel that is up and of
\* the end of one that is gone, also after the daemon or the connection were lost.
ControllerKnows ==
  /\ m_daemonState = "Ready" /\ link = "open" /\ ~m_initializingTimer
  /\ toDaemon = <<>> /\ fromDaemon = <<>>
  => (tunnel = "up" => told = "on") /\ (tunnel = "none" => told # "on")

\* What LocalSocketController is for: a daemon that stays is found and hears of a
\* deactivation, and the controller learns what became of the tunnel.
SocketServes == []ControllerKnows /\ DaemonFound /\ DeactivationHeard

=============================================================================
