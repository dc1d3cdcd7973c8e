---------------------------- MODULE ServerLatency ----------------------------
(***************************************************************************)
(* Which servers are near and which to avoid: ServerLatency                *)
(* (src/src/serverlatency.cpp).                                            *)
(*                                                                         *)
(* While the client is off every server is pinged, a few at a time, each   *)
(* again if it does not answer; later, and when the servers change, all of *)
(* them again.  A server that failed is on cooldown; a city of such        *)
(* servers is unavailable.                                                 *)
(*                                                                         *)
(* Time is counted in ticks.  Of a latency only matters that there is one; *)
(* of a score, whether the city is available.                              *)
(***************************************************************************)
EXTENDS Naturals, Sequences, SequencesExt, FiniteSets, Selections

CONSTANTS
  ByDistance,       \* the servers' public keys, in the order of their distance
  CityOf,           \* the city of each
  MAX_PARALLEL,     \* SERVER_LATENCY_MAX_PARALLEL
  MAX_RETRIES,      \* SERVER_LATENCY_MAX_RETRIES
  LATENCY_TIMEOUT,  \* SERVER_LATENCY_TIMEOUT, in ticks
  COOLDOWN,         \* SERVER_UNRESPONSIVE_COOLDOWN_SEC, in ticks
  LatSeqTurn        \* sequence numbers: 2^16 in the code

ASSUME LatencyAssumption ==
  /\ ByDistance \in Seq(Range(ByDistance)) /\ ByDistance # <<>>
  /\ {MAX_PARALLEL, LATENCY_TIMEOUT, COOLDOWN, LatSeqTurn} \subseteq Nat \ {0}
  /\ MAX_RETRIES \in Nat

VARIABLES
  vpnOff,           \* the controller is in StateOff
  latSender,        \* m_pingSender exists
  m_pingSendQueue,  \* servers still to be pinged
  m_pingReplyList,  \* pings that wait for an answer
  latSequence,      \* m_sequence
  m_pingTimeout,    \* ticks left
  latFlying,        \* pings that may be answered
  latAnswers,       \* queued recvPing() signals
  m_refreshTimer,   \* it is active
  m_wantRefresh,
  m_latency,        \* servers with a latency
  m_cooldown,       \* ticks left for the servers on cooldown
  m_cooldownTimer,  \* it is active
  unavailable       \* cities whose score says so

pingListVars == <<latSender, m_pingSendQueue, m_pingReplyList, latSequence,
                  m_pingTimeout, latFlying>>
cooldownVars == <<m_cooldown, m_cooldownTimer, unavailable>>
latencyVars == <<vpnOff, pingListVars, latAnswers, m_refreshTimer, m_wantRefresh,
                 m_latency, cooldownVars>>

Servers == Range(ByDistance)
ServersIn(city) == {s \in Servers : CityOf[s] = city}
Cities == {CityOf[s] : s \in Servers}

PingRecord == [key : Servers, seq : 0 .. LatSeqTurn - 1, age : 0 .. LATENCY_TIMEOUT,
               retries : 0 .. MAX_RETRIES]

LatencyTypeOK ==
  /\ m_pingSendQueue \in Seq(Servers)
  /\ m_pingReplyList \in Seq(PingRecord)
  /\ Len(m_pingReplyList) <= MAX_PARALLEL
  /\ latSequence \in 0 .. LatSeqTurn - 1
  /\ m_pingTimeout \in 0 .. LATENCY_TIMEOUT
  /\ DOMAIN m_cooldown \subseteq Servers
  /\ \A s \in DOMAIN m_cooldown : m_cooldown[s] \in 0 .. COOLDOWN
  /\ {vpnOff, latSender, m_refreshTimer, m_wantRefresh, m_cooldownTimer} \subseteq BOOLEAN

LatencyInit ==
  /\ vpnOff = TRUE
  /\ latSender = FALSE /\ m_pingSendQueue = <<>> /\ m_pingReplyList = <<>>
  /\ latSequence = 0 /\ m_pingTimeout = 0 /\ latFlying = {} /\ latAnswers = {}
  /\ m_refreshTimer = TRUE /\ m_wantRefresh = FALSE
  /\ m_latency = {}
  /\ m_cooldown = [s \in {} |-> 0] /\ m_cooldownTimer = FALSE /\ unavailable = {}

-----------------------------------------------------------------------------
(* Measuring.                                                              *)

\* stop().
latStop ==
  /\ latSender' = FALSE /\ m_pingSendQueue' = <<>> /\ m_pingReplyList' = <<>>
  /\ m_pingTimeout' = 0 /\ latFlying' = {}
  /\ m_refreshTimer' = TRUE
  /\ UNCHANGED latSequence

Retries_forever(expired) ==
  [i \in DOMAIN expired |-> [expired[i] EXCEPT !.age = 0]]

\* The timed-out pings that are sent again.
Retries(expired) ==
  LET again == AtPositions(expired, {i \in DOMAIN expired : expired[i].retries < MAX_RETRIES})
  IN  [i \in DOMAIN again |-> [again[i] EXCEPT !.retries = @ + 1, !.age = 0]]

\* The timed-out pings at the head of the list.
Expired(list) ==
  LET young == SelectInSeq(list, LAMBDA r : r.age < LATENCY_TIMEOUT)
  IN  IF young = 0 THEN list ELSE SubSeq(list, 1, young - 1)

\* What is sent with the queue when so many pings are under way: the retries, and
\* new ones up to the limit.
ToSend(queue, retries, underWay) ==
  LET room == MAX_PARALLEL - underWay - Len(retries)
      next == IF room < Len(queue) THEN SubSeq(queue, 1, room) ELSE queue
  IN  retries \o [i \in DOMAIN next |-> [key |-> next[i], seq |-> 0, age |-> 0, retries |-> 0]]

Numbered(pings, seq) ==
  [i \in DOMAIN pings |-> [pings[i] EXCEPT !.seq = (seq + i - 1) % LatSeqTurn]]

Listed_inFront(waiting, sent) == sent \o waiting

Listed(waiting, sent) == waiting \o sent

\* maybeSendPings(), with this queue and list.
maybeSendPings(queue, list, seq) ==
  \E expired \in {Expired(list)} : \E retries \in {Retries(expired)} :
    \E sent \in {Numbered(ToSend(queue, retries, Len(list) - Len(expired)), seq)} :
      \E all \in {Listed(SubSeq(list, Len(expired) + 1, Len(list)), sent)} :
        IF all = <<>>
        THEN latStop
        ELSE /\ m_pingSendQueue' =
                  SubSeq(queue, Len(sent) - Len(retries) + 1, Len(queue))
             /\ m_pingReplyList' = all
             /\ latSequence' = (seq + Len(sent)) % LatSeqTurn
             /\ m_pingTimeout' = LATENCY_TIMEOUT - all[1].age
             /\ latFlying' = latFlying \cup {sent[i].seq : i \in DOMAIN sent}
             /\ latSender' = TRUE

latStart_notWanted(timer) ==
  IF ~vpnOff' \/ latSender
  THEN m_refreshTimer' = timer /\ UNCHANGED <<m_wantRefresh, pingListVars>>
  ELSE /\ m_wantRefresh' = FALSE
       /\ maybeSendPings(ByDistance, <<>>, 0)
       /\ m_refreshTimer' = FALSE

\* start(), with the refresh timer active or not.
latStart(timer) ==
  CASE ~vpnOff' ->
         m_wantRefresh' = TRUE /\ m_refreshTimer' = timer /\ UNCHANGED pingListVars
    [] vpnOff' /\ latSender ->
         m_refreshTimer' = timer /\ UNCHANGED <<m_wantRefresh, pingListVars>>
    [] OTHER ->
         /\ m_wantRefresh' = FALSE
         /\ maybeSendPings(ByDistance, <<>>, 0)
         /\ m_refreshTimer' = FALSE

refreshTimeout ==
  /\ m_refreshTimer
  /\ UNCHANGED vpnOff
  /\ latStart(FALSE)
  /\ UNCHANGED <<latAnswers, m_latency, cooldownVars>>

\* ServerCountryModel::changed().
serversChanged ==
  /\ UNCHANGED vpnOff
  /\ latStart(m_refreshTimer)
  /\ UNCHANGED <<latAnswers, m_latency, cooldownVars>>

\* refresh(), from the window.
refreshRequested ==
  /\ ~latSender
  /\ UNCHANGED vpnOff
  /\ latStart(m_refreshTimer)
  /\ m_latency' = {}
  /\ UNCHANGED <<latAnswers, cooldownVars>>

vpnStateChanged_goesOn ==
  /\ vpnOff' \in BOOLEAN
  /\ IF vpnOff' /\ m_wantRefresh THEN latStart(m_refreshTimer)
     ELSE UNCHANGED <<pingListVars, m_refreshTimer, m_wantRefresh>>
  /\ UNCHANGED <<latAnswers, m_latency, cooldownVars>>

\* stateChanged(): to or from StateOff, or between other states.
vpnStateChanged ==
  /\ vpnOff' \in BOOLEAN /\ (vpnOff => ~vpnOff')
  /\ CASE ~vpnOff' -> latStop /\ UNCHANGED m_wantRefresh
       [] vpnOff' /\ m_wantRefresh -> latStart(m_refreshTimer)
       [] OTHER -> UNCHANGED <<pingListVars, m_refreshTimer, m_wantRefresh>>
  /\ UNCHANGED <<latAnswers, m_latency, cooldownVars>>

latPingTimeout ==
  /\ latSender /\ m_pingTimeout = 0
  /\ maybeSendPings(m_pingSendQueue, m_pingReplyList, latSequence)
  /\ IF latSender' THEN UNCHANGED m_refreshTimer ELSE TRUE
  /\ UNCHANGED <<vpnOff, latAnswers, m_wantRefresh, m_latency, cooldownVars>>

-----------------------------------------------------------------------------
(* Scores and cooldowns.                                                   *)

CoolingDown(s, cooldown) == s \in DOMAIN cooldown /\ cooldown[s] > 0

Rescored_oneSuffices(city, cooldown, bad) ==
  IF \E s \in ServersIn(city) : CoolingDown(s, cooldown) THEN bad \cup {city} ELSE bad \ {city}

\* updateConnectionScore(), with baseCityScore(): of the city of a server.
Rescored(city, cooldown, bad) ==
  IF \A s \in ServersIn(city) : CoolingDown(s, cooldown) THEN bad \cup {city} ELSE bad \ {city}

\* recvPing(), with setLatency().
recvPing(q) ==
  /\ q \in latAnswers
  /\ latAnswers' = latAnswers \ {q}
  /\ LET i == SelectInSeq(m_pingReplyList, LAMBDA r : r.seq = q)
     IN  IF i = 0
         THEN UNCHANGED <<pingListVars, m_refreshTimer, m_latency, unavailable>>
         ELSE LET key == m_pingReplyList[i].key
              IN  /\ m_latency' = m_latency \cup {key}
                  /\ unavailable' = Rescored(CityOf[key], m_cooldown, unavailable)
                  /\ maybeSendPings(m_pingSendQueue, RemoveAt(m_pingReplyList, i), latSequence)
                  /\ IF latSender' THEN UNCHANGED m_refreshTimer ELSE TRUE
  /\ UNCHANGED <<vpnOff, m_wantRefresh, m_cooldown, m_cooldownTimer>>

\* setCooldown(), for a server that failed.  The timer takes the seconds for
\* milliseconds, so it is always soon.
setCooldown(s) ==
  /\ m_cooldown' = [t \in DOMAIN m_cooldown \cup {s} |->
                      IF t = s THEN COOLDOWN ELSE m_cooldown[t]]
  /\ unavailable' = Rescored(CityOf[s], m_cooldown', unavailable)
  /\ m_cooldownTimer' = TRUE
  /\ UNCHANGED <<vpnOff, pingListVars, latAnswers, m_refreshTimer, m_wantRefresh, m_latency>>

setCityCooldown(city) ==
  /\ m_cooldown' = [t \in DOMAIN m_cooldown \cup ServersIn(city) |->
                      IF t \in ServersIn(city) THEN COOLDOWN ELSE m_cooldown[t]]
  /\ unavailable' = unavailable \cup {city}
  /\ m_cooldownTimer' = TRUE
  /\ UNCHANGED <<vpnOff, pingListVars, latAnswers, m_refreshTimer, m_wantRefresh, m_latency>>

clearCooldowns_once ==
  /\ m_cooldownTimer
  /\ LET expired == {s \in DOMAIN m_cooldown : m_cooldown[s] = 0}
     IN  /\ m_cooldown' = [s \in DOMAIN m_cooldown \ expired |-> m_cooldown[s]]
         /\ unavailable' = unavailable \ {CityOf[s] : s \in expired}
  /\ m_cooldownTimer' = FALSE
  /\ UNCHANGED <<vpnOff, pingListVars, latAnswers, m_refreshTimer, m_wantRefresh, m_latency>>

\* clearCooldowns(): the cities of the expired ones are scored again, and the
\* timer is started again for the others.
clearCooldowns ==
  /\ m_cooldownTimer
  /\ LET expired == {s \in DOMAIN m_cooldown : m_cooldown[s] = 0}
     IN  /\ m_cooldown' = [s \in DOMAIN m_cooldown \ expired |-> m_cooldown[s]]
         /\ unavailable' = unavailable \ {CityOf[s] : s \in expired}
         /\ m_cooldownTimer' = (DOMAIN m_cooldown' # {})
  /\ UNCHANGED <<vpnOff, pingListVars, latAnswers, m_refreshTimer, m_wantRefresh, m_latency>>

-----------------------------------------------------------------------------

\* An answer reaches the sender and is queued.
latPongArrives(q) ==
  /\ q \in latFlying
  /\ latFlying' = latFlying \ {q}
  /\ latAnswers' = latAnswers \cup {q}
  /\ UNCHANGED <<vpnOff, latSender, m_pingSendQueue, m_pingReplyList, latSequence,
                 m_pingTimeout, m_refreshTimer, m_wantRefresh, m_latency, cooldownVars>>

\* Time: what is due is handled first, signals in the queue too.  The cooldown
\* timer is due several times in a tick.
latTick ==
  /\ latSender => m_pingTimeout > 0
  /\ latAnswers = {}
  /\ m_cooldownTimer => \A s \in DOMAIN m_cooldown : m_cooldown[s] > 0
  /\ m_pingTimeout' = IF latSender THEN m_pingTimeout - 1 ELSE m_pingTimeout
  /\ m_pingReplyList' = [i \in DOMAIN m_pingReplyList |->
       [m_pingReplyList[i] EXCEPT !.age = IF @ < LATENCY_TIMEOUT THEN @ + 1 ELSE @]]
  /\ m_cooldown' = [s \in DOMAIN m_cooldown |->
       IF m_cooldown[s] > 0 THEN m_cooldown[s] - 1 ELSE 0]
  /\ UNCHANGED <<vpnOff, latSender, m_pingSendQueue, latSequence, latFlying, latAnswers,
                 m_refreshTimer, m_wantRefresh, m_latency, m_cooldownTimer, unavailable>>

MeasureNext ==
  \/ refreshTimeout \/ serversChanged \/ refreshRequested \/ vpnStateChanged
  \/ latPingTimeout
  \/ \E q \in latAnswers : recvPing(q)
  \/ \E q \in latFlying : latPongArrives(q)

CooldownNext ==
  \/ \E s \in Servers : setCooldown(s)
  \/ \E city \in Cities : setCityCooldown(city)
  \/ clearCooldowns

LatencyNext == MeasureNext \/ CooldownNext \/ latTick

LatencySpec == LatencyInit /\ [][LatencyNext]_latencyVars

-----------------------------------------------------------------------------

\* Measuring is never forgotten, whatever stops it or turns it down: it runs, is
\* due, or is wanted as soon as the client is off.
RefreshNeverForgotten == latSender \/ m_refreshTimer \/ (m_wantRefresh /\ ~vpnOff)

\* "Don't attempt to refresh latency when the VPN is active, or we could get
\* misleading results": no ping is on its way past a change of the state.
MeasuresOffline == latSender \/ m_pingReplyList # <<>> \/ latFlying # {} => vpnOff

\* The list is in the order in which the pings time out, retries included: only
\* its head is looked at.
TimeoutsInOrder ==
  /\ \A i, j \in DOMAIN m_pingReplyList :
       i < j => m_pingReplyList[i].age >= m_pingReplyList[j].age
  /\ latSender => /\ m_pingReplyList # <<>>
                  /\ m_pingTimeout <= LATENCY_TIMEOUT - m_pingReplyList[1].age

\* Every round of pings comes to its end, with answers lost or not.
MeasuringEnds == []<>~latSender

\* A city is called unavailable just as long as all its servers are on cooldown,
\* once those that have expired are cleared.
UnavailableIsCooling ==
  (\A s \in DOMAIN m_cooldown : m_cooldown[s] > 0) =>
    \A city \in Cities :
      city \in unavailable <=> ServersIn(city) \subseteq DOMAIN m_cooldown

\* A server comes back from its cooldown if it fails no more.
CooldownEnds ==
  \A s \in Servers :
    []<>(s \notin DOMAIN m_cooldown \/ m_cooldown[s] = COOLDOWN)

\* Rounds are only measured offline, in order of time, and never forgotten;
\* cities are unavailable exactly while their servers cool down.
LatencySound ==
  /\ RefreshNeverForgotten /\ MeasuresOffline
  /\ TimeoutsInOrder /\ UnavailableIsCooling

\* What ServerLatency is for: the above, and rounds and cooldowns that end.
LatencyServes == []LatencySound /\ MeasuringEnds /\ CooldownEnds

=============================================================================
