-------------------------- MODULE ConnectionHealth ---------------------------
(***************************************************************************)
(* How the client judges a connection: ConnectionHealth                    *)
(* (src/src/connectionhealth.cpp) and its PingHelper                       *)
(* (src/src/pinghelper.cpp).                                               *)
(*                                                                         *)
(* While connected it pings the server's gateway every second and looks at *)
(* the answers every second.  It learns the gateway from the next status   *)
(* that the controller reports.  Answers are queued by the sender and      *)
(* handled later, also after the sender is gone.                           *)
(*                                                                         *)
(* Time is counted in seconds; an event loop that runs handles what is due *)
(* within the second.  The settling period, which mutes an alert, and the  *)
(* inspector's overrides are not modelled.                                 *)
(***************************************************************************)
EXTENDS Naturals, FiniteSets

CONSTANTS
  PING_STATS_WINDOW, \* pings remembered
  SeqTurn,           \* sequence numbers: 2^16 in the code, a multiple of the window
  LossLimit,         \* losses tolerated: 3 in the code, 10 % of 32
  NoSignalTime,      \* seconds without an answer: 4 in the code
  StatusFaults,      \* may a status query fail?
  MaxQueries,        \* status queries at a time
  MaxPongs           \* queued signals at a time

ASSUME HealthAssumption ==
  /\ {PING_STATS_WINDOW, SeqTurn, NoSignalTime, MaxQueries, MaxPongs} \subseteq Nat \ {0}
  /\ SeqTurn % PING_STATS_WINDOW = 0
  /\ LossLimit \in Nat
  /\ StatusFaults \subseteq BOOLEAN

VARIABLES
  hctl,        \* the controller's state: "On" is StateOn or StateOnPartial, "Busy"
               \* any other than these and "Initializing" and "Off"
  listening,   \* single-shot connections of statusUpdated() to startActive()
  queries,     \* status queries under way
  pinging,     \* PingHelper::m_pingTimer is active
  m_sequence,  \* PingHelper::m_sequence
  m_pingData,  \* the ring: sequence number and what became of the ping
  flying,      \* pings that may be answered
  pongs,       \* queued recvPing() signals
  m_noSignalTimer,    \* seconds left
  m_healthCheckTimer, \* it is active
  pingDue, checkDue,  \* timeouts that are due
  m_stability,
  dnsPing,     \* pings past the tunnel, while off: "none", "awaited" or
               \* m_dnsPingInitialized, which stays while connected
  net,         \* what the network does: "good", "lossy" or "silent"
  lateAnswer   \* history: an answer was handled since pinging stopped

ringVars == <<pinging, m_sequence, m_pingData, flying, pongs, pingDue>>
checkVars == <<m_noSignalTimer, m_healthCheckTimer, checkDue, m_stability, lateAnswer>>
queryVars == <<hctl, listening, queries>>
healthVars == <<queryVars, ringVars, checkVars, dnsPing, net>>

Slots == 0 .. PING_STATS_WINDOW - 1

\* "sent" may be a second ago, "aged" one or two, "overdue" is more; "absurd" is
\* the time since the timestamp -1 of a ping that was not sent.
Fate == {"unsent", "sent", "aged", "overdue", "fast", "slow", "absurd"}
Answered == {"fast", "slow", "absurd"}

HealthTypeOK ==
  /\ hctl \in {"Initializing", "Off", "Busy", "On"}
  /\ queries \in 0 .. MaxQueries
  /\ m_sequence \in 0 .. SeqTurn - 1
  /\ m_pingData \in [Slots -> [seq : 0 .. SeqTurn - 1, fate : Fate]]
  /\ flying \subseteq 0 .. SeqTurn - 1
  /\ pongs \subseteq 0 .. SeqTurn - 1
  /\ m_noSignalTimer \in 0 .. NoSignalTime
  /\ m_stability \in {"Stable", "Unstable", "NoSignal"}
  /\ dnsPing \in {"none", "awaited", "initialized"}
  /\ {listening, pinging, m_healthCheckTimer, pingDue, checkDue, lateAnswer} \subseteq BOOLEAN
  /\ pingDue => pinging
  /\ checkDue => m_healthCheckTimer

Unsent == [seq |-> 0, fate |-> "unsent"]

HealthInit ==
  /\ hctl = "Initializing" /\ listening = FALSE /\ queries = 0
  /\ pinging = FALSE /\ m_sequence = 0 /\ m_pingData = [i \in Slots |-> Unsent]
  /\ flying = {} /\ pongs = {} /\ pingDue = FALSE
  /\ m_noSignalTimer = 0 /\ m_healthCheckTimer = FALSE /\ checkDue = FALSE
  /\ m_stability = "Stable" /\ lateAnswer = FALSE
  /\ dnsPing = "none"
  /\ net = "good"

-----------------------------------------------------------------------------
(* PingHelper.                                                             *)

\* start(): a new sender.  The old one's signals may be queued.
pingStart ==
  /\ pinging' = TRUE
  /\ m_sequence' = 0
  /\ m_pingData' = [i \in Slots |-> Unsent]
  /\ flying' = {}
  /\ pingDue' = FALSE
  /\ UNCHANGED pongs

\* stop(): what was remembered stays.
pingStop ==
  /\ pinging' = FALSE
  /\ flying' = {}
  /\ pingDue' = FALSE
  /\ UNCHANGED <<m_sequence, m_pingData, pongs>>

nextPing_incrementsFirst ==
  /\ pingDue
  /\ pingDue' = FALSE
  /\ m_sequence' = (m_sequence + 1) % SeqTurn
  /\ LET i == m_sequence' % PING_STATS_WINDOW
     IN  m_pingData' = [m_pingData EXCEPT ![i] = [seq |-> m_sequence, fate |-> "sent"]]
  /\ flying' = (flying \cup {m_sequence}) \ {m_sequence'}
  /\ UNCHANGED <<pinging, pongs, queryVars, checkVars, dnsPing, net>>

\* nextPing().  No answer is late by a whole turn of the sequence number.
nextPing ==
  /\ pingDue
  /\ pingDue' = FALSE
  /\ LET i == m_sequence % PING_STATS_WINDOW
     IN  m_pingData' = [m_pingData EXCEPT ![i] = [seq |-> m_sequence, fate |-> "sent"]]
  /\ m_sequence' = (m_sequence + 1) % SeqTurn
  /\ flying' = (flying \cup {m_sequence}) \ {m_sequence'}
  /\ UNCHANGED <<pinging, pongs, queryVars, checkVars, dnsPing, net>>

\* Pings that loss() counts as lost: surely, and depending on the milliseconds.
Lost(data) ==
  LET sure == Cardinality({i \in Slots : data[i].fate = "overdue"})
      maybe == Cardinality({i \in Slots : data[i].fate = "aged"})
  IN  sure .. sure + maybe

-----------------------------------------------------------------------------
(* ConnectionHealth.                                                       *)

Verdicts_lossFirst(signal, data) ==
  {IF \/ lost > LossLimit
      \/ dnsPing = "initialized" /\ \E i \in Slots : data[i].fate = "slow"
   THEN "Unstable"
   ELSE IF signal = 0 THEN "NoSignal" ELSE "Stable" : lost \in Lost(data)}

\* healthCheckup().  An unstable connection also makes MozillaVPN queue a silent
\* switch, which may change the controller's state later.
Verdicts(signal, data) ==
  IF signal = 0 THEN {"NoSignal"}
  ELSE {IF \/ lost > LossLimit
           \/ dnsPing = "initialized" /\ \E i \in Slots : data[i].fate = "slow"
        THEN "Unstable" ELSE "Stable" : lost \in Lost(data)}

stopChecks ==
  /\ m_noSignalTimer' = 0 /\ m_healthCheckTimer' = FALSE /\ checkDue' = FALSE
  /\ lateAnswer' = FALSE
  /\ UNCHANGED m_stability

startActive_whateverState ==
  /\ pingStart
  /\ m_noSignalTimer' = NoSignalTime /\ m_healthCheckTimer' = TRUE /\ checkDue' = FALSE
  /\ UNCHANGED <<m_stability, lateAnswer, dnsPing>>

\* startActive() for a status with a gateway.
startActive ==
  IF hctl = "On"
  THEN /\ pingStart
       /\ m_noSignalTimer' = NoSignalTime /\ m_healthCheckTimer' = TRUE /\ checkDue' = FALSE
       /\ UNCHANGED <<m_stability, lateAnswer, dnsPing>>
  ELSE UNCHANGED <<ringVars, checkVars, dnsPing>>

\* startIdle(), with and without a valid socket.
startIdle ==
  /\ pingStop
  /\ stopChecks
  /\ dnsPing' \in {"awaited", "none"}

stopAll ==
  /\ pingStop
  /\ stopChecks
  /\ UNCHANGED dnsPing

\* Controller::stateChanged() with connectionStateChanged().  Before it is off,
\* and after it is initialized, the controller may report a cleared status,
\* which uses up the listeners.
controllerChanges(s, cleared) ==
  /\ <<hctl, s>> \in
       {<<"Initializing", "Off">>, <<"Initializing", "On">>, <<"Off", "Initializing">>,
        <<"Off", "Busy">>, <<"Busy", "Off">>, <<"Busy", "On">>, <<"On", "Busy">>,
        <<"On", "Off">>}
  /\ cleared \in IF hctl = "Initializing" THEN {TRUE}
                 ELSE IF s = "Off" THEN BOOLEAN ELSE {FALSE}
  /\ hctl' = s
  /\ IF s = "On"
     THEN /\ queries < MaxQueries
          /\ queries' = queries + 1
          /\ listening' = ~cleared
          /\ UNCHANGED <<ringVars, checkVars, dnsPing>>
     ELSE /\ IF s = "Off" THEN startIdle ELSE stopAll
          /\ listening' = (listening /\ ~cleared)
          /\ UNCHANGED queries
  /\ UNCHANGED net

\* The answer to a status query, with the tunnel's gateway.
statusUpdated ==
  /\ queries > 0
  /\ queries' = queries - 1
  /\ listening' = FALSE
  /\ IF listening THEN startActive ELSE UNCHANGED <<ringVars, checkVars, dnsPing>>
  /\ UNCHANGED <<hctl, net>>

\* It fails, or there is no connection: nothing is emitted.
statusFails ==
  /\ queries > 0
  /\ TRUE \in StatusFaults
  /\ queries' = queries - 1
  /\ UNCHANGED <<hctl, listening, ringVars, checkVars, dnsPing, net>>

FateOf(slot) ==
  CASE slot.fate \in {"unsent", "absurd"} -> {"absurd"}
    [] slot.fate = "sent" -> {"fast"}
    [] OTHER -> {"fast", "slow"}

\* PingHelper::pingReceived(), with ConnectionHealth::pingSentAndReceived().
pingReceived(q) ==
  /\ q \in pongs
  /\ pongs' = pongs \ {q}
  /\ LET i == q % PING_STATS_WINDOW
     IN  IF m_pingData[i].seq = q
         THEN /\ \E fate \in FateOf(m_pingData[i]) :
                   m_pingData' = [m_pingData EXCEPT ![i].fate = fate]
              /\ m_noSignalTimer' = NoSignalTime
              /\ m_healthCheckTimer' = TRUE /\ checkDue' = FALSE
              /\ m_stability' \in Verdicts(NoSignalTime, m_pingData')
              /\ lateAnswer' = (lateAnswer \/ ~pinging)
         ELSE UNCHANGED <<m_pingData, checkVars>>
  /\ UNCHANGED <<pinging, m_sequence, flying, pingDue, queryVars, dnsPing, net>>

healthCheckTimeout ==
  /\ checkDue
  /\ checkDue' = FALSE
  /\ m_stability' \in Verdicts(m_noSignalTimer, m_pingData)
  /\ UNCHANGED <<m_noSignalTimer, m_healthCheckTimer, lateAnswer, ringVars, queryVars,
                 dnsPing, net>>

\* A DNS ping is answered or fails.  Another one is sent from time to time, and
\* only the last one's answer counts.
dnsPingReceived ==
  /\ dnsPing = "awaited"
  /\ dnsPing' = "initialized"
  /\ UNCHANGED <<ringVars, checkVars, queryVars, net>>

criticalPingError ==
  /\ hctl = "Off"
  /\ dnsPing' = "none"
  /\ UNCHANGED <<ringVars, checkVars, queryVars, net>>

-----------------------------------------------------------------------------
(* The network and time.                                                   *)

\* An answer reaches the sender, and again if it is duplicated.
pongArrives(q, again) ==
  /\ q \in flying
  /\ net = "lossy" \/ (net = "good" /\ ~again)
  /\ Cardinality(pongs) < MaxPongs
  /\ flying' = IF again THEN flying ELSE flying \ {q}
  /\ pongs' = pongs \cup {q}
  /\ UNCHANGED <<pinging, m_sequence, m_pingData, pingDue, checkVars, queryVars,
                 dnsPing, net>>

netChanges ==
  /\ net' \in {"good", "lossy", "silent"} \ {net}
  /\ UNCHANGED <<ringVars, checkVars, queryVars, dnsPing>>

Older == [f \in Fate |-> CASE f = "sent" -> "aged" [] f = "aged" -> "overdue" [] OTHER -> f]

\* The next second.  A good network answers within one.
second ==
  /\ ~pingDue /\ ~checkDue /\ pongs = {}
  /\ net = "good" => flying = {}
  /\ pingDue' = pinging
  /\ checkDue' = m_healthCheckTimer
  /\ m_noSignalTimer' = IF m_noSignalTimer = 0 THEN 0 ELSE m_noSignalTimer - 1
  /\ m_pingData' = [i \in Slots |-> [m_pingData[i] EXCEPT !.fate = Older[@]]]
  /\ UNCHANGED <<pinging, m_sequence, flying, pongs, m_healthCheckTimer, m_stability,
                 lateAnswer, queryVars, dnsPing, net>>

HealthNext ==
  \/ \E s \in {"Initializing", "Off", "Busy", "On"}, cleared \in BOOLEAN :
       controllerChanges(s, cleared)
  \/ statusUpdated \/ statusFails
  \/ nextPing \/ healthCheckTimeout
  \/ \E q \in pongs : pingReceived(q)
  \/ dnsPingReceived \/ criticalPingError
  \/ \E q \in flying, again \in BOOLEAN : pongArrives(q, again)
  \/ netChanges \/ second

HealthSpec == HealthInit /\ [][HealthNext]_healthVars

-----------------------------------------------------------------------------

\* The connection is judged only while there is one: a status that arrives after
\* the disconnection starts nothing.  Only an answer that was queued when the
\* pings stopped starts the timers again, until the next change of state.
ChecksNeedTunnel == m_healthCheckTimer => hctl = "On" \/ lateAnswer

\* A connection that is watched and is not answered any more is found out.
SilenceNoticed ==
  <>[](net = "silent" /\ m_healthCheckTimer) => <>[](m_stability = "NoSignal")

\* One that is answered again is found stable: what was lost is forgotten.
RecoveryNoticed ==
  <>[](net = "good" /\ m_healthCheckTimer /\ pinging) => <>[](m_stability = "Stable")

\* "When the VPN experiences issues with network connectivity or server
\* availability, it naturally transitions into the No Signal state"
\* (docs/rfcs/0004-rfc-connectiondiagnostics.md:26).
LossNoticed ==
  <>[](net = "silent" /\ hctl = "On") => <>[](m_stability = "NoSignal")

\* What ConnectionHealth is for: it checks while the tunnel is up and only then,
\* and notices a silent server and one that answers again.
HealthShown == []ChecksNeedTunnel /\ SilenceNoticed /\ RecoveryNoticed

=============================================================================
