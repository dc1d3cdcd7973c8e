------------------------- MODULE DaemonPartsProofs --------------------------
(***************************************************************************)
(* Proofs about the parts of the daemons that keep state of their own:     *)
(* split tunnelling and the route monitors of Windows and macOS, and the   *)
(* packet filter and the resolvers of Linux.                               *)
(***************************************************************************)
EXTENDS WindowsSplitTunnel, MacosRouteMonitor, WindowsRouteMonitor, Netfilter,
        DnsUtilsLinux, TLAPS, WellFoundedInduction, FiniteSetTheorems, SequenceTheorems

(***************************************************************************)
(* Split tunnelling.  SplitTunnelHonest speaks of the outcome of each call *)
(* to the driver, so the lemmas say what start(), excludeApps(), stop()    *)
(* and initDriver() leave the driver in when they report a success.        *)
(***************************************************************************)

\* The states of the driver.
DriverStates ==
  [st : {"absent", "started", "initialized", "ready", "running"},
   conf : SUBSET (SplitApps \ UnknownApps), inet : Adapters \cup {NoAdapter}]

\* What the driver makes of a request is a driver of its type, and what the
\* request is for.
LEMMA Initializes ==
  ASSUME NEW d \in DriverStates
  PROVE  /\ IoInitialize(d) \subseteq DriverStates
         /\ \A e \in IoInitialize(d) : e.st = "initialized"
         /\ IoRegisterProcesses(d) \subseteq DriverStates
BY DEF DriverStates, IoInitialize, IoRegisterProcesses

\* REGISTER_IP_ADDRESSES gives the driver the adapter.
LEMMA RegistersAddresses ==
  ASSUME NEW d \in DriverStates, NEW a \in Adapters \cup {NoAdapter}
  PROVE  /\ IoRegisterAddresses(d, a) \subseteq DriverStates
         /\ \A e \in IoRegisterAddresses(d, a) : e.inet = a
BY DEF DriverStates, IoRegisterAddresses, Settled

\* SET_CONFIGURATION gives it the applications.
LEMMA SetsConfiguration ==
  ASSUME NEW d \in DriverStates, NEW c \in SUBSET (SplitApps \ UnknownApps)
  PROVE  /\ IoSetConfiguration(d, c) \subseteq DriverStates
         /\ \A e \in IoSetConfiguration(d, c) : e.conf = c /\ e.inet = d.inet
BY DEF DriverStates, IoSetConfiguration, Settled

\* CLEAR_CONFIGURATION takes them all back.
LEMMA ClearsConfiguration ==
  ASSUME NEW d \in DriverStates
  PROVE  /\ IoClearConfiguration(d) \subseteq DriverStates
         /\ \A e \in IoClearConfiguration(d) : e.conf = {}
BY DEF DriverStates, IoClearConfiguration, Settled

\* What a request that has results R leaves: itself, or one of R.
LEMMA RequestOutcome ==
  ASSUME NEW d, NEW R, NEW o \in Request(d, R)
  PROVE  \/ o.ok = FALSE /\ o.d = d
         \/ o.ok = TRUE /\ o.d \in R
BY DEF Request, Done

\* start() that succeeds leaves the driver with the adapter it was given.
LEMMA StartOutcome ==
  ASSUME NEW d \in DriverStates, NEW a \in Adapters \cup {NoAdapter},
         NEW o \in splitStart(d, a)
  PROVE  /\ o.ok \in BOOLEAN /\ o.d \in DriverStates
         /\ o.ok /\ a # NoAdapter => o.d.inet = a
<1> DEFINE initialized == UNION {IF s = "started" THEN Request(d, IoInitialize(d))
                                             ELSE {Done(TRUE, d)} : s \in Seen(d)}
           Known(e) == UNION {IF s = "initialized" THEN Request(e, IoRegisterProcesses(e))
                                              ELSE {Done(TRUE, e)} : s \in Seen(e)}
           Addressed(e) ==
             {Done(FALSE, e)} \cup
               IF a = NoAdapter THEN {} ELSE Request(e, IoRegisterAddresses(e, a))
           known == AndThen(initialized, Known)
<1>1. o \in AndThen(known, Addressed)
  BY DEF splitStart
<1>2. ASSUME NEW i \in initialized
      PROVE  i.ok \in BOOLEAN /\ i.d \in DriverStates
  <2>1. i \in Request(d, IoInitialize(d)) \/ i = Done(TRUE, d)
    OBVIOUS
  <2>2. CASE i \in Request(d, IoInitialize(d))
    BY <2>2, RequestOutcome, Initializes
  <2>3. CASE i = Done(TRUE, d)
    BY <2>3 DEF Done
  <2> QED BY <2>1, <2>2, <2>3
<1>3. ASSUME NEW e \in DriverStates, NEW k \in Known(e)
      PROVE  k.ok \in BOOLEAN /\ k.d \in DriverStates
  <2>1. k \in Request(e, IoRegisterProcesses(e)) \/ k = Done(TRUE, e)
    OBVIOUS
  <2>2. CASE k \in Request(e, IoRegisterProcesses(e))
    BY <2>2, RequestOutcome, Initializes
  <2>3. CASE k = Done(TRUE, e)
    BY <2>3 DEF Done
  <2> QED BY <2>1, <2>2, <2>3
<1>4. ASSUME NEW e \in DriverStates, NEW r \in Addressed(e)
      PROVE  /\ r.ok \in BOOLEAN /\ r.d \in DriverStates
             /\ r.ok => r.d.inet = a
  <2>1. r = Done(FALSE, e) \/ r \in Request(e, IoRegisterAddresses(e, a))
    OBVIOUS
  <2>2. CASE r \in Request(e, IoRegisterAddresses(e, a))
    BY <2>2, RequestOutcome, RegistersAddresses
  <2>3. CASE r = Done(FALSE, e)
    BY <2>3 DEF Done
  <2> QED BY <2>1, <2>2, <2>3
<1> HIDE DEF initialized, Known, Addressed
<1>5. ASSUME NEW k \in known
      PROVE  k.ok \in BOOLEAN /\ k.d \in DriverStates
  <2>1. PICK i \in initialized : k \in (IF i.ok THEN Known(i.d) ELSE {i})
    BY DEF AndThen
  <2> QED BY <2>1, <1>2, <1>3
<1> HIDE DEF known
<1>6. PICK k \in known : o \in (IF k.ok THEN Addressed(k.d) ELSE {k})
  BY <1>1 DEF AndThen
<1> QED BY <1>6, <1>5, <1>4

\* excludeApps() that succeeds leaves the driver with what it was given, over
\* the adapter it had.
LEMMA ExcludeOutcome ==
  ASSUME NEW d \in DriverStates, NEW apps \in SUBSET SplitApps,
         NEW o \in excludeApps(d, apps)
  PROVE  /\ o.ok \in BOOLEAN /\ o.d \in DriverStates
         /\ o.ok => o.d.conf = apps \ UnknownApps /\ o.d.inet = d.inet
<1> DEFINE c == apps \ UnknownApps
<1>1. c \in SUBSET (SplitApps \ UnknownApps)
  OBVIOUS
<1>2. o \in Request(d, IoSetConfiguration(d, c)) \/ o = Done(FALSE, d)
  BY DEF excludeApps, generateAppConfiguration
<1> HIDE DEF c
<1>3. /\ o.ok \in BOOLEAN /\ o.d \in DriverStates
      /\ o.ok => o.d.conf = c /\ o.d.inet = d.inet
  <2>2. CASE o \in Request(d, IoSetConfiguration(d, c))
    <3> DEFINE R == IoSetConfiguration(d, c)
    <3>1. /\ R \subseteq DriverStates
          /\ \A e \in R : e.conf = c /\ e.inet = d.inet
      BY <1>1, SetsConfiguration
    <3>2. o \in Request(d, R)
      BY <2>2
    <3> HIDE DEF R
    <3>3. (o.ok = FALSE /\ o.d = d) \/ (o.ok = TRUE /\ o.d \in R)
      BY <3>2, RequestOutcome
    <3> QED BY <3>1, <3>3
  <2>3. CASE o = Done(FALSE, d)
    BY <2>3 DEF Done
  <2> QED BY <1>2, <2>2, <2>3
<1> QED BY <1>3 DEF c

\* stop() that succeeds leaves no application outside.
LEMMA StopOutcome ==
  ASSUME NEW d \in DriverStates, NEW o \in stop(d)
  PROVE  /\ o.ok \in BOOLEAN /\ o.d \in DriverStates
         /\ o.ok => o.d.conf = {}
BY RequestOutcome, ClearsConfiguration DEF stop

\* initDriver() that succeeds leaves a driver that was started afresh.
LEMMA InitOutcome ==
  ASSUME NEW d \in DriverStates, NEW o \in initDriver(d)
  PROVE  /\ o.ok \in BOOLEAN /\ o.d \in DriverStates
         /\ o.ok => o.d.st = "initialized"
<1>1. Loaded \in DriverStates
  BY DEF Loaded, DriverStates
<1> DEFINE Renewed(e) ==
             UNION {IF s = "started" THEN Request(e, IoInitialize(e)) ELSE {Done(FALSE, e)} :
                    s \in Seen(e)}
<1>2. ASSUME NEW e \in DriverStates, NEW r \in Renewed(e)
      PROVE  /\ r.ok \in BOOLEAN /\ r.d \in DriverStates
             /\ r.ok => r.d.st = "initialized"
  <2>1. r \in Request(e, IoInitialize(e)) \/ r = Done(FALSE, e)
    OBVIOUS
  <2>2. CASE r \in Request(e, IoInitialize(e))
    BY <2>2, RequestOutcome, Initializes
  <2>3. CASE r = Done(FALSE, e)
    BY <2>3 DEF Done
  <2> QED BY <2>1, <2>2, <2>3
<1>3. o \in Renewed(d) \cup Renewed(Loaded) \cup {Done(FALSE, d)}
  BY DEF initDriver
<1> HIDE DEF Renewed
<1>4. CASE o = Done(FALSE, d)
  BY <1>4 DEF Done
<1> QED BY <1>1, <1>2, <1>3, <1>4

\* The types, and what the client was told of the applications outside.
SplitInv == SplitTypeOK /\ SplitTunnelHonest

\* Nothing is outside before the daemon was made.
LEMMA SplitInvInit == SplitInit => SplitInv
BY SplitAssumption DEF SplitInit, SplitInv, SplitTypeOK, SplitTunnelHonest, AllOutOrTold,
   OnlyChosenOut, OutNow, Absent, Loaded

\* What a step that calls stop() leaves.
LEMMA StoppedKeeps ==
  ASSUME SplitTypeOK, Stopped
  PROVE  /\ driver' \in DriverStates /\ stopFailed' \in BOOLEAN /\ splitTold' = FALSE
         /\ ~stopFailed' => driver'.conf = {}
<1>1. driver \in DriverStates
  BY DEF SplitTypeOK, DriverStates
<1>2. PICK o \in stop(driver) :
        driver' = o.d /\ stopFailed' = ~o.ok /\ splitTold' = FALSE
  BY DEF Stopped
<1> QED BY <1>1, <1>2, StopOutcome

\* The daemon is made: it uses the driver only if that was started afresh.
LEMMA CreateKeeps ==
  ASSUME SplitInv, splitCreate
  PROVE  SplitInv'
<1> USE DEF SplitInv, splitCreate
<1>1. driver \in DriverStates /\ Loaded \in DriverStates /\ Absent \in DriverStates
  BY DEF SplitTypeOK, DriverStates, Loaded, Absent
<1>2. /\ driver' \in DriverStates /\ manager' \in {"without", "with"}
      /\ ourService' \in BOOLEAN
      /\ manager' = "with" => driver'.st = "initialized"
  <2>1. CASE manager' = "without" /\ UNCHANGED <<driver, ourService>>
    BY <2>1, <1>1 DEF SplitTypeOK
  <2>2. CASE /\ ourService' = TRUE
             /\ \E d \in {IF driver.st = "absent" THEN Loaded ELSE driver, Loaded} :
                \E o \in initDriver(d) :
                  driver' = o.d /\ manager' = IF o.ok THEN "with" ELSE "without"
    <3>1. PICK d \in {driver, Loaded} : \E o \in initDriver(d) :
            driver' = o.d /\ manager' = IF o.ok THEN "with" ELSE "without"
      BY <2>2
    <3> QED BY <3>1, <2>2, <1>1, InitOutcome
  <2>3. CASE ourService' = TRUE /\ driver' = Absent /\ manager' = "without"
    BY <2>3, <1>1
  <2> QED BY <2>1, <2>2, <2>3
<1>3. SplitTypeOK'
  BY <1>2 DEF SplitTypeOK, DriverStates
<1>4. AllOutOrTold' /\ OnlyChosenOut'
  BY <1>2 DEF AllOutOrTold, OnlyChosenOut, OutNow
<1> QED BY <1>3, <1>4 DEF SplitTunnelHonest

\* run() for a configuration, with applications to exclude or without.
LEMMA UpKeeps ==
  ASSUME SplitInv, NEW apps \in SUBSET SplitApps, runUp(apps)
  PROVE  SplitInv'
<1> USE DEF SplitInv, runUp
<1>1. driver \in DriverStates
  BY DEF SplitTypeOK, DriverStates
<1>2. CASE manager = "without" /\ splitTold' = (apps # {}) /\ UNCHANGED <<driver, stopFailed>>
  BY <1>2 DEF SplitTypeOK, SplitTunnelHonest, AllOutOrTold, OnlyChosenOut, OutNow
<1>3. CASE manager = "with" /\ apps # {} /\ runApps(apps)
  <2>1. PICK o \in splitStart(driver, outside) : \E x \in excludeApps(o.d, apps) :
        \E s \in Seen(x.d) :
          /\ driver' = x.d
          /\ splitTold' = (outside = NoAdapter \/ ~o.ok \/ ~x.ok \/ s # "running")
          /\ UNCHANGED stopFailed
    BY <1>3 DEF runApps
  <2>2. /\ o.ok \in BOOLEAN /\ o.d \in DriverStates
        /\ o.ok /\ outside # NoAdapter => o.d.inet = outside
    BY <1>1, StartOutcome DEF SplitTypeOK
  <2>3. PICK x \in excludeApps(o.d, apps) : \E s \in Seen(x.d) :
          /\ driver' = x.d
          /\ splitTold' = (outside = NoAdapter \/ ~o.ok \/ ~x.ok \/ s # "running")
          /\ UNCHANGED stopFailed
    BY <2>1
  <2>4. /\ x.ok \in BOOLEAN /\ x.d \in DriverStates
        /\ x.ok => x.d.conf = apps \ UnknownApps /\ x.d.inet = o.d.inet
    BY <2>2, ExcludeOutcome
  <2>5. PICK s \in Seen(x.d) :
          /\ driver' = x.d
          /\ splitTold' = (outside = NoAdapter \/ ~o.ok \/ ~x.ok \/ s # "running")
          /\ UNCHANGED stopFailed
    BY <2>3
  <2>6. ~splitTold' => /\ driver'.st = "running"
                       /\ driver'.conf = apps \ UnknownApps
                       /\ driver'.inet = outside
    BY <2>5, <2>4, <2>2 DEF Seen
  <2>7. SplitTypeOK'
    BY <2>5, <2>4, <1>3 DEF SplitTypeOK, DriverStates
  <2>8. AllOutOrTold' /\ OnlyChosenOut'
    BY <2>6 DEF AllOutOrTold, OnlyChosenOut, OutNow
  <2> QED BY <2>7, <2>8 DEF SplitTunnelHonest
<1>4. CASE manager = "with" /\ apps = {} /\ Stopped
  <2>1. SplitTypeOK'
    BY <1>4, StoppedKeeps DEF SplitTypeOK, DriverStates
  <2>2. AllOutOrTold' /\ OnlyChosenOut'
    BY <1>4, StoppedKeeps DEF AllOutOrTold, OnlyChosenOut, OutNow
  <2> QED BY <2>1, <2>2 DEF SplitTunnelHonest
<1> QED BY <1>2, <1>3, <1>4

\* The configuration is taken down.
LEMMA DownKeeps ==
  ASSUME SplitInv, runDown
  PROVE  SplitInv'
<1> USE DEF SplitInv, runDown
<1>1. CASE manager = "without" /\ splitTold' = (entryApps # {}) /\ UNCHANGED <<driver, stopFailed>>
  BY <1>1 DEF SplitTypeOK, SplitTunnelHonest, AllOutOrTold, OnlyChosenOut, OutNow
<1>2. CASE manager = "with" /\ Stopped
  <2>1. SplitTypeOK'
    BY <1>2, StoppedKeeps DEF SplitTypeOK, DriverStates
  <2>2. AllOutOrTold' /\ OnlyChosenOut'
    BY <1>2, StoppedKeeps DEF AllOutOrTold, OnlyChosenOut, OutNow
  <2> QED BY <2>1, <2>2 DEF SplitTunnelHonest
<1> QED BY <1>1, <1>2

\* The daemon ends, the machine starts anew, the surroundings change.
LEMMA SplitSurroundings ==
  ASSUME SplitInv, splitDaemonEnds \/ rebooted \/ surroundings
  PROVE  SplitInv'
<1> USE DEF SplitInv, SplitTunnelHonest, AllOutOrTold, OnlyChosenOut, OutNow
<1>1. CASE splitDaemonEnds
  BY <1>1 DEF splitDaemonEnds, SplitTypeOK
<1>2. CASE rebooted
  BY <1>2 DEF rebooted, SplitTypeOK, Loaded, Absent
<1>3. CASE surroundings
  BY <1>3 DEF surroundings, SplitTypeOK
<1> QED BY <1>1, <1>2, <1>3

(***************************************************************************)
(* In every state, for every set of applications and adapters, whatever    *)
(* calls to the driver failed and whenever the daemon crashed: the         *)
(* applications the user chose go outside by the adapter that reached the  *)
(* server or the client was told, and no other application goes outside    *)
(* (WindowsDaemon::run(), WindowsSplitTunnel).                             *)
(***************************************************************************)
THEOREM SplitTunnelling == SplitSpec => [](SplitTypeOK /\ SplitTunnelHonest)
<1>1. SplitInv /\ [SplitNext]_splitVars => SplitInv'
  <2> SUFFICES ASSUME SplitInv, [SplitNext]_splitVars PROVE SplitInv'
    OBVIOUS
  <2>1. CASE SplitNext
    BY <2>1, CreateKeeps, UpKeeps, DownKeeps, SplitSurroundings DEF SplitNext
  <2>2. CASE UNCHANGED splitVars
    BY <2>2 DEF splitVars, SplitInv, SplitTypeOK, SplitTunnelHonest, AllOutOrTold,
       OnlyChosenOut, OutNow
  <2> QED BY <2>1, <2>2
<1>2. SplitInv => SplitTypeOK /\ SplitTunnelHonest
  BY DEF SplitInv
<1> QED BY <1>1, <1>2, SplitInvInit, PTL DEF SplitSpec

-----------------------------------------------------------------------------

(***************************************************************************)
(* The routes of the macOS daemon.  The monitor's view of the default      *)
(* routes lags behind the system's by the messages still queued, so what   *)
(* it knows is only right where none is, and what a route leads through is *)
(* only right where no loss is announced.                                  *)
(***************************************************************************)

\* The messages of the routing socket.
RtMessage == [rtm : {"ADD", "CHANGE", "DELETE"}, fam : MacFamilies, via : MacIfs \cup {0}]

\* The last of the messages about a family tells the default route it has.
LastTells(q, s) ==
  \A i \in DOMAIN q :
    (\A j \in DOMAIN q : j > i => q[j].fam # q[i].fam) => q[i].via = s[q[i].fam]

\* There is news of a family, or of the loss of its default route.
About(q, f) == \E i \in DOMAIN q : q[i].fam = f

Deleting(q, f) == \E i \in DOMAIN q : q[i].fam = f /\ q[i].rtm = "DELETE"

\* A message of a loss names no interface, and the last of each family is true.
MessagesTrue ==
  /\ \A i \in DOMAIN rtQueue : rtQueue[i].rtm = "DELETE" => rtQueue[i].via = 0
  /\ macPhase # "none" => LastTells(rtQueue, sysDefault)

\* Unless news is queued, the monitor knows the default route.
DefaultKnown ==
  \A f \in MacFamilies :
    macPhase \in {"fetched", "up"} /\ ~About(rtQueue, f) => m_default[f] = sysDefault[f]

\* A route that did not lapse leads through the default the monitor knows.
RoutesSynced ==
  \A p \in macExclusions \ lapsed :
     hostRoutes[p] = m_default[p[2]] \/ Deleting(rtQueue, p[2])

\* The addresses of the server are excluded while it is connected.
PeerExcluded ==
  IF macPhase = "up"
  THEN macPeer \in MacServers /\ PrefixesOf(macPeer) \subseteq macExclusions \cup lapsed
  ELSE macExclusions = {}

\* The invariant: it is inductive.
MacInv ==
  /\ MacTypeOK
  /\ MessagesTrue
  /\ DefaultKnown
  /\ RoutesSynced
  /\ PeerExcluded
  /\ MacNoStrayRoutes

\* What is stored of a server is prefixes.
LEMMA MacPrefixesTyped ==
  /\ \A p \in MacPrefixes : p[2] \in MacFamilies
  /\ \A s \in MacServers : PrefixesOf(s) \subseteq MacPrefixes
BY DEF MacPrefixes, PrefixesOf

\* A daemon that was just made has nothing to say.
LEMMA MacInvInit == MacInit => MacInv
<1> SUFFICES ASSUME MacInit PROVE MacInv
  OBVIOUS
<1> USE DEF MacInit
<1>1. MacTypeOK
  BY MacAssumption DEF MacTypeOK, MacFamilies
<1>2. MessagesTrue
  BY DEF MessagesTrue
<1>3. DefaultKnown /\ RoutesSynced /\ PeerExcluded /\ MacNoStrayRoutes
  BY DEF DefaultKnown, RoutesSynced, PeerExcluded, MacNoStrayRoutes
<1> QED BY <1>1, <1>2, <1>3 DEF MacInv

\* What the invariant says of the routes.
LEMMA MacInvImplies == MacInv => MacRoutesRight
<1> SUFFICES ASSUME MacInv PROVE MacRoutesRight
  OBVIOUS
<1>1. ASSUME macPhase = "up", rtQueue = <<>>, NEW p \in PrefixesOf(macPeer) \ lapsed
      PROVE  hostRoutes[p] = sysDefault[p[2]]
  <2>1. p \in macExclusions /\ p \in MacPrefixes /\ p[2] \in MacFamilies
    BY <1>1, MacPrefixesTyped DEF MacInv, PeerExcluded
  <2>2. hostRoutes[p] = m_default[p[2]]
    BY <1>1, <2>1 DEF MacInv, RoutesSynced, Deleting
  <2>3. m_default[p[2]] = sysDefault[p[2]]
    BY <1>1, <2>1 DEF MacInv, DefaultKnown, About
  <2> QED BY <2>2, <2>3
<1> QED BY <1>1 DEF MacInv, MacRoutesRight, MacExclusionsFollow

\* Messages that are queued.
LEMMA QueuedTell ==
  ASSUME NEW q \in Seq(RtMessage), NEW msgs \in Seq(RtMessage), NEW s, NEW t,
         LastTells(q, s),
         \A k \in DOMAIN msgs : msgs[k].via = t[msgs[k].fam],
         \A f \in MacFamilies : ~About(msgs, f) => t[f] = s[f]
  PROVE  LastTells(q \o msgs, t)
<1> DEFINE r == q \o msgs
<1>0. /\ Len(q) \in Nat /\ Len(msgs) \in Nat /\ Len(r) = Len(q) + Len(msgs)
      /\ DOMAIN q = 1..Len(q) /\ DOMAIN msgs = 1..Len(msgs) /\ DOMAIN r = 1..Len(r)
      /\ \A i \in 1..Len(q) : r[i] = q[i] /\ q[i] \in RtMessage
      /\ \A k \in 1..Len(msgs) : r[Len(q) + k] = msgs[k]
      /\ \A i \in Len(q) + 1 .. Len(r) : i - Len(q) \in 1..Len(msgs) /\ r[i] = msgs[i - Len(q)]
  OBVIOUS
<1> HIDE DEF r
<1> SUFFICES ASSUME NEW i \in 1..Len(r), \A j \in 1..Len(r) : j > i => r[j].fam # r[i].fam
             PROVE  r[i].via = t[r[i].fam]
  BY <1>0 DEF LastTells, r
<1>1. CASE i > Len(q)
  BY <1>1, <1>0
<1>2. CASE i <= Len(q)
  <2>1. i \in 1..Len(q) /\ r[i] = q[i] /\ q[i].fam \in MacFamilies
    BY <1>2, <1>0 DEF RtMessage
  <2>2. ~About(msgs, q[i].fam)
    <3> SUFFICES ASSUME NEW k \in 1..Len(msgs), msgs[k].fam = q[i].fam PROVE FALSE
      BY <1>0 DEF About
    <3>1. Len(q) + k \in 1..Len(r) /\ Len(q) + k > i
      BY <1>0, <1>2
    <3> QED BY <3>1, <1>0, <2>1
  <2>3. \A j \in 1..Len(q) : j > i => q[j].fam # q[i].fam
    BY <1>0, <2>1
  <2>4. q[i].via = s[q[i].fam]
    BY <2>1, <2>3, <1>0 DEF LastTells
  <2> QED BY <2>1, <2>2, <2>4
<1> QED BY <1>1, <1>2, <1>0

\* What is said of a queue with more messages.
LEMMA QueuedAbout ==
  ASSUME NEW q \in Seq(RtMessage), NEW msgs \in Seq(RtMessage), NEW f
  PROVE  /\ About(q \o msgs, f) <=> About(q, f) \/ About(msgs, f)
         /\ Deleting(q \o msgs, f) <=> Deleting(q, f) \/ Deleting(msgs, f)
<1> DEFINE r == q \o msgs
<1>0. /\ Len(q) \in Nat /\ Len(msgs) \in Nat /\ Len(r) = Len(q) + Len(msgs)
      /\ DOMAIN q = 1..Len(q) /\ DOMAIN msgs = 1..Len(msgs) /\ DOMAIN r = 1..Len(r)
      /\ \A i \in 1..Len(q) : i \in 1..Len(r) /\ r[i] = q[i]
      /\ \A k \in 1..Len(msgs) : Len(q) + k \in 1..Len(r) /\ r[Len(q) + k] = msgs[k]
      /\ \A i \in 1 .. Len(r) : i \in 1..Len(q) \/ (i - Len(q) \in 1..Len(msgs) /\ r[i] = msgs[i - Len(q)])
  OBVIOUS
<1> HIDE DEF r
<1>1. About(r, f) => About(q, f) \/ About(msgs, f)
  <2> SUFFICES ASSUME NEW i \in 1..Len(r), r[i].fam = f
               PROVE  About(q, f) \/ About(msgs, f)
    BY <1>0 DEF About
  <2>1. CASE i \in 1..Len(q)
    BY <2>1, <1>0 DEF About
  <2>2. CASE i - Len(q) \in 1..Len(msgs) /\ r[i] = msgs[i - Len(q)]
    BY <2>2, <1>0 DEF About
  <2> QED BY <2>1, <2>2, <1>0
<1>2. About(q, f) => About(r, f)
  BY <1>0 DEF About
<1>3. About(msgs, f) => About(r, f)
  BY <1>0 DEF About
<1>4. Deleting(r, f) => Deleting(q, f) \/ Deleting(msgs, f)
  <2> SUFFICES ASSUME NEW i \in 1..Len(r), r[i].fam = f /\ r[i].rtm = "DELETE"
               PROVE  Deleting(q, f) \/ Deleting(msgs, f)
    BY <1>0 DEF Deleting
  <2>1. CASE i \in 1..Len(q)
    BY <2>1, <1>0 DEF Deleting
  <2>2. CASE i - Len(q) \in 1..Len(msgs) /\ r[i] = msgs[i - Len(q)]
    BY <2>2, <1>0 DEF Deleting
  <2> QED BY <2>1, <2>2, <1>0
<1>5. Deleting(q, f) => Deleting(r, f)
  BY <1>0 DEF Deleting
<1>6. Deleting(msgs, f) => Deleting(r, f)
  BY <1>0 DEF Deleting
<1> QED BY <1>1, <1>2, <1>3, <1>4, <1>5, <1>6 DEF r

\* The first message is taken.
LEMMA TakenTell ==
  ASSUME NEW q \in Seq(RtMessage), q # <<>>
  PROVE  /\ Head(q) \in RtMessage /\ Tail(q) \in Seq(RtMessage)
         /\ \A s : LastTells(q, s) =>
              /\ LastTells(Tail(q), s)
              /\ ~About(Tail(q), Head(q).fam) => Head(q).via = s[Head(q).fam]
         /\ \A f : About(q, f) <=> Head(q).fam = f \/ About(Tail(q), f)
         /\ \A f : Deleting(q, f) <=> (Head(q).fam = f /\ Head(q).rtm = "DELETE") \/ Deleting(Tail(q), f)
         /\ (\A i \in DOMAIN q : q[i].rtm = "DELETE" => q[i].via = 0) =>
              /\ Head(q).rtm = "DELETE" => Head(q).via = 0
              /\ \A i \in DOMAIN Tail(q) : Tail(q)[i].rtm = "DELETE" => Tail(q)[i].via = 0
<1> DEFINE r == Tail(q)
<1>0. /\ Len(q) \in Nat \ {0} /\ Len(r) = Len(q) - 1 /\ r \in Seq(RtMessage)
      /\ DOMAIN q = 1..Len(q) /\ DOMAIN r = 1..Len(r)
      /\ Head(q) = q[1] /\ q[1] \in RtMessage
      /\ \A i \in 1..Len(r) : i + 1 \in 1..Len(q) /\ r[i] = q[i + 1]
      /\ \A i \in 1 .. Len(q) : i = 1 \/ (i - 1 \in 1..Len(r) /\ q[i] = r[i - 1])
      /\ 1 \in 1..Len(q)
  OBVIOUS
<1> HIDE DEF r
<1>1. ASSUME NEW s, LastTells(q, s)
      PROVE  LastTells(r, s) /\ (~About(r, q[1].fam) => q[1].via = s[q[1].fam])
  <2>1. ASSUME NEW i \in 1..Len(r), \A j \in 1..Len(r) : j > i => r[j].fam # r[i].fam
        PROVE  r[i].via = s[r[i].fam]
    <3>1. \A j \in 1..Len(q) : j > i + 1 => q[j].fam # q[i + 1].fam
      BY <2>1, <1>0
    <3> QED BY <3>1, <1>1, <1>0 DEF LastTells
  <2>2. ASSUME ~About(r, q[1].fam) PROVE q[1].via = s[q[1].fam]
    <3>1. \A j \in 1..Len(q) : j > 1 => q[j].fam # q[1].fam
      BY <2>2, <1>0 DEF About
    <3> QED BY <3>1, <1>1, <1>0 DEF LastTells
  <2> QED BY <2>1, <2>2, <1>0 DEF LastTells
<1>2. ASSUME NEW f PROVE About(q, f) <=> q[1].fam = f \/ About(r, f)
  BY <1>0 DEF About
<1>3. ASSUME NEW f
      PROVE Deleting(q, f) <=> (q[1].fam = f /\ q[1].rtm = "DELETE") \/ Deleting(r, f)
  <2>1. Deleting(q, f) => (q[1].fam = f /\ q[1].rtm = "DELETE") \/ Deleting(r, f)
    BY <1>0 DEF Deleting
  <2>2. Deleting(r, f) => Deleting(q, f)
    BY <1>0 DEF Deleting
  <2>3. q[1].fam = f /\ q[1].rtm = "DELETE" => Deleting(q, f)
    BY <1>0 DEF Deleting
  <2> QED BY <2>1, <2>2, <2>3
<1>4. ASSUME \A i \in DOMAIN q : q[i].rtm = "DELETE" => q[i].via = 0
      PROVE  /\ q[1].rtm = "DELETE" => q[1].via = 0
             /\ \A i \in DOMAIN r : r[i].rtm = "DELETE" => r[i].via = 0
  BY <1>4, <1>0
<1> QED BY <1>0, <1>1, <1>2, <1>3, <1>4 DEF r

\* The daemon opens the socket, fetches the default routes, or ends.
LEMMA MonitorKeeps ==
  ASSUME MacInv, openMonitor \/ rtmFetchRoutes \/ macDeactivate \/ macCrash
  PROVE  MacInv'
<1> USE DEF MacInv
<1>1. CASE openMonitor
  <2> USE <1>1 DEF openMonitor, systemVars
  <2>1. MacTypeOK'
    BY DEF MacTypeOK
  <2>2. MessagesTrue'
    BY DEF MessagesTrue, LastTells
  <2> QED BY <2>1, <2>2 DEF DefaultKnown, RoutesSynced, PeerExcluded, MacNoStrayRoutes
<1>2. CASE rtmFetchRoutes
  <2> USE <1>2 DEF rtmFetchRoutes, systemVars
  <2>1. MacTypeOK'
    BY DEF MacTypeOK
  <2>2. MessagesTrue'
    BY DEF MessagesTrue
  <2> QED BY <2>1, <2>2 DEF DefaultKnown, RoutesSynced, PeerExcluded, MacNoStrayRoutes
<1>3. CASE macDeactivate
  <2> USE <1>3 DEF macDeactivate, systemVars, WithoutRoutes
  <2>1. MacTypeOK'
    BY DEF MacTypeOK, MacFamilies
  <2>2. MessagesTrue'
    BY DEF MessagesTrue, LastTells
  <2>3. MacNoStrayRoutes'
    BY DEF MacNoStrayRoutes
  <2> QED BY <2>1, <2>2, <2>3 DEF DefaultKnown, RoutesSynced, PeerExcluded
<1>4. CASE macCrash
  <2> USE <1>4 DEF macCrash, systemVars
  <2>1. MacTypeOK'
    BY DEF MacTypeOK, MacFamilies
  <2>2. MessagesTrue'
    BY DEF MessagesTrue, LastTells
  <2>3. MacNoStrayRoutes'
    BY DEF MacNoStrayRoutes
  <2> QED BY <2>1, <2>2, <2>3 DEF DefaultKnown, RoutesSynced, PeerExcluded
<1> QED BY <1>1, <1>2, <1>3, <1>4

\* The routes to the addresses of a server are written.
LEMMA WithRoutesTyped ==
  ASSUME MacTypeOK, NEW new \in SUBSET MacPrefixes
  PROVE  /\ WithRoutes(new, hostRoutes) \in [MacPrefixes -> MacIfs \cup {0}]
         /\ \A p \in MacPrefixes \ new : WithRoutes(new, hostRoutes)[p] = hostRoutes[p]
BY MacPrefixesTyped DEF MacTypeOK, WithRoutes, Immediate

\* An activation excludes its server's addresses.
LEMMA ActivateKeeps ==
  ASSUME MacInv, NEW s \in MacServers, macActivate(s)
  PROVE  MacInv'
<1> DEFINE new == PrefixesOf(s)
           routes == WithRoutes(new, hostRoutes)
<1>1. /\ macPhase = "fetched" /\ macPhase' = "up" /\ macPeer' = s
      /\ macExclusions' = new /\ hostRoutes' = routes
      /\ lapsed' = Unwritten(new, routes) /\ orphans' = orphans \ new
      /\ UNCHANGED <<m_default, rtQueue, sysDefault, linksUp>>
  BY DEF macActivate, systemVars
<1>2. new \in SUBSET MacPrefixes
  BY MacPrefixesTyped
<1>3. /\ routes \in [MacPrefixes -> MacIfs \cup {0}]
      /\ \A p \in MacPrefixes \ new : routes[p] = hostRoutes[p]
  BY <1>2, WithRoutesTyped DEF MacInv
<1>4. macExclusions = {}
  BY <1>1 DEF MacInv, PeerExcluded
<1>9. PeerExcluded'
  BY <1>1 DEF PeerExcluded, PrefixesOf
<1> HIDE DEF new, routes
<1>5. MacTypeOK'
  BY <1>1, <1>2, <1>3 DEF MacInv, MacTypeOK, Unwritten
<1>6. MessagesTrue' /\ DefaultKnown'
  BY <1>1 DEF MacInv, MessagesTrue, DefaultKnown
<1>7. RoutesSynced'
  BY <1>1 DEF RoutesSynced, Unwritten
<1>8. MacNoStrayRoutes'
  BY <1>1, <1>3, <1>4 DEF MacInv, MacNoStrayRoutes
<1> QED BY <1>5, <1>6, <1>7, <1>8, <1>9 DEF MacInv

\* A switch of servers takes the old addresses back and excludes the new ones.
LEMMA SwitchKeeps ==
  ASSUME MacInv, NEW s \in MacServers, macSwitchServer(s)
  PROVE  MacInv'
<1> DEFINE old == PrefixesOf(macPeer)
           new == PrefixesOf(s) \ macExclusions
           with == WithRoutes(new, hostRoutes)
           routes == WithoutRoutes(old, with)
<1>1. /\ macPhase = "up" /\ macPeer' = s
      /\ macExclusions' = (macExclusions \cup new) \ old
      /\ hostRoutes' = routes
      /\ lapsed' = ((lapsed \cup Unwritten(new, routes)) \ old) \cup (PrefixesOf(s) \cap old)
      /\ orphans' = orphans \ new
      /\ UNCHANGED <<macPhase, m_default, rtQueue, sysDefault, linksUp>>
  BY DEF macSwitchServer, systemVars
<1>2. new \in SUBSET MacPrefixes /\ old \in SUBSET MacPrefixes
  BY <1>1, MacPrefixesTyped DEF MacInv, PeerExcluded
<1>3. /\ with \in [MacPrefixes -> MacIfs \cup {0}]
      /\ \A p \in MacPrefixes \ new : with[p] = hostRoutes[p]
  BY <1>2, WithRoutesTyped DEF MacInv
<1>4. /\ routes \in [MacPrefixes -> MacIfs \cup {0}]
      /\ \A p \in old : routes[p] = 0
      /\ \A p \in MacPrefixes \ old : routes[p] = with[p]
  BY <1>2, <1>3 DEF WithoutRoutes
<1>5. macExclusions \subseteq MacPrefixes
  BY DEF MacInv, MacTypeOK
<1>6. PeerExcluded'
  <2>1. PrefixesOf(s) \subseteq macExclusions' \cup lapsed'
    BY <1>1
  <2> QED BY <2>1, <1>1 DEF PeerExcluded, PrefixesOf
<1> HIDE DEF old, with, routes
<1>7. MacTypeOK'
  BY <1>1, <1>2, <1>4, MacPrefixesTyped DEF MacInv, MacTypeOK, Unwritten
<1>8. MessagesTrue' /\ DefaultKnown'
  BY <1>1 DEF MacInv, MessagesTrue, DefaultKnown
<1>9. RoutesSynced'
  <2> SUFFICES ASSUME NEW p \in macExclusions', p \notin lapsed'
               PROVE  hostRoutes'[p] = m_default'[p[2]] \/ Deleting(rtQueue', p[2])
    BY DEF RoutesSynced
  <2>1. CASE p \in new
    BY <2>1, <1>1 DEF Unwritten
  <2>2. CASE p \notin new
    <3>1. p \in macExclusions \ lapsed /\ hostRoutes'[p] = hostRoutes[p]
      BY <2>2, <1>1, <1>3, <1>4, <1>5
    <3> QED BY <3>1, <1>1 DEF MacInv, RoutesSynced
  <2> QED BY <2>1, <2>2
<1>10. MacNoStrayRoutes'
  <2> SUFFICES ASSUME NEW p \in MacPrefixes, hostRoutes'[p] # 0
               PROVE  p \in macExclusions' \cup orphans'
    BY DEF MacNoStrayRoutes
  <2> QED BY <1>1, <1>3, <1>4 DEF MacInv, MacNoStrayRoutes
<1> QED BY <1>6, <1>7, <1>8, <1>9, <1>10 DEF MacInv

\* A message is handled.
LEMMA MessageKeeps ==
  ASSUME MacInv, rtsockReady
  PROVE  MacInv'
<1> DEFINE msg == Head(rtQueue)
           f == msg.fam
<1>0. rtQueue \in Seq(RtMessage) /\ rtQueue # <<>> /\ macPhase = "up"
  BY DEF MacInv, MacTypeOK, RtMessage, rtsockReady
<1>1. /\ msg \in RtMessage /\ rtQueue' \in Seq(RtMessage)
      /\ rtQueue' = Tail(rtQueue)
      /\ UNCHANGED <<macPhase, macPeer, macExclusions, orphans, sysDefault, linksUp>>
      /\ lapsed' = {p \in lapsed \cup Outdated(msg) :
                      p \in macExclusions => hostRoutes'[p] # m_default'[p[2]]}
  BY <1>0, TakenTell DEF rtsockReady, systemVars
<1>2. /\ LastTells(rtQueue', sysDefault)
      /\ ~About(rtQueue', f) => msg.via = sysDefault[f]
      /\ \A g : About(rtQueue, g) <=> f = g \/ About(rtQueue', g)
      /\ \A g : Deleting(rtQueue, g) <=> (f = g /\ msg.rtm = "DELETE") \/ Deleting(rtQueue', g)
      /\ msg.rtm = "DELETE" => msg.via = 0
      /\ \A i \in DOMAIN rtQueue' : rtQueue'[i].rtm = "DELETE" => rtQueue'[i].via = 0
  BY <1>0, <1>1, TakenTell DEF MacInv, MessagesTrue
<1>3. IF msg.rtm = "DELETE" THEN handleRtmDelete(f) ELSE handleRtmUpdate(f, msg.via)
  BY DEF rtsockReady
<1>4. f \in MacFamilies /\ msg.via \in MacIfs \cup {0}
  BY <1>1 DEF RtMessage
<1> HIDE DEF msg, f
<1>5. m_default' = [m_default EXCEPT ![f] = msg.via]
  BY <1>2, <1>3 DEF handleRtmDelete, handleRtmUpdate
<1>6. PICK a \in {"ADD", "CHANGE", "DELETE"} :
        /\ hostRoutes' = rtmSendRoute(a, Excluded(f), msg.via)
        /\ a = IF msg.rtm = "DELETE" THEN "DELETE"
               ELSE IF m_default[f] # 0 THEN "CHANGE" ELSE "ADD"
  BY <1>2, <1>3 DEF handleRtmDelete, handleRtmUpdate
<1>7. /\ macExclusions \subseteq MacPrefixes /\ hostRoutes \in [MacPrefixes -> MacIfs \cup {0}]
      /\ m_default \in [MacFamilies -> MacIfs \cup {0}] /\ linksUp \subseteq MacIfs
      /\ lapsed \subseteq MacPrefixes
  BY DEF MacInv, MacTypeOK
<1>8. /\ hostRoutes' \in [MacPrefixes -> MacIfs \cup {0}]
      /\ \A p \in MacPrefixes \ Excluded(f) : hostRoutes'[p] = hostRoutes[p]
      /\ \A p \in Excluded(f) :
           hostRoutes'[p] = IF Accepted(a, p, msg.via) THEN msg.via ELSE hostRoutes[p]
  BY <1>4, <1>6, <1>7 DEF rtmSendRoute, Excluded
<1>9. m_default' \in [MacFamilies -> MacIfs \cup {0}]
  BY <1>4, <1>5, <1>7
<1>10. lapsed' \subseteq MacPrefixes
  BY <1>1, <1>7 DEF Outdated, Excluded
<1>11. MacTypeOK'
  BY <1>1, <1>8, <1>9, <1>10 DEF MacInv, MacTypeOK, RtMessage
<1>12. MessagesTrue'
  BY <1>1, <1>2 DEF MessagesTrue
<1>13. DefaultKnown'
  <2> SUFFICES ASSUME NEW g \in MacFamilies, ~About(rtQueue', g)
               PROVE  m_default'[g] = sysDefault[g]
    BY <1>1 DEF DefaultKnown
  <2>1. CASE g = f
    BY <2>1, <1>2, <1>5, <1>7
  <2>2. CASE g # f
    BY <2>2, <1>0, <1>2, <1>5, <1>7 DEF MacInv, DefaultKnown
  <2> QED BY <2>1, <2>2
<1>14. RoutesSynced'
  <2> SUFFICES ASSUME NEW p \in macExclusions, p \notin lapsed', ~Deleting(rtQueue', p[2])
               PROVE  hostRoutes'[p] = m_default'[p[2]]
    BY <1>1 DEF RoutesSynced
  <2>0. p \in MacPrefixes /\ p[2] \in MacFamilies
    BY <1>7, MacPrefixesTyped
  <2>1. CASE p \in lapsed \cup Outdated(msg)
    BY <2>1, <1>1
  <2>2. CASE p[2] = f /\ p \notin lapsed \cup Outdated(msg)
    <3>1. p \in Excluded(f)
      BY <2>2 DEF Excluded
    <3>2. m_default'[f] = msg.via
      BY <1>4, <1>5, <1>7
    <3>3. CASE msg.rtm = "DELETE"
      BY <3>1, <3>2, <3>3, <2>2, <1>6, <1>8 DEF Accepted
    <3>4. CASE msg.rtm # "DELETE"
      <4>1. hostRoutes[p] = m_default[f]
        BY <3>4, <2>2, <1>2 DEF MacInv, RoutesSynced
      <4>2. msg.via \in linksUp
        BY <3>1, <2>2 DEF Outdated, f
      <4>3. Accepted(a, p, msg.via)
        BY <4>1, <4>2, <3>4, <1>6 DEF Accepted
      <4> QED BY <4>3, <3>1, <3>2, <2>2, <1>8
    <3> QED BY <3>3, <3>4
  <2>3. CASE p[2] # f /\ p \notin lapsed
    <3>1. p \notin Excluded(f) /\ m_default'[p[2]] = m_default[p[2]]
      BY <2>3, <2>0, <1>5, <1>7 DEF Excluded
    <3>2. hostRoutes[p] = m_default[p[2]]
      BY <2>3, <1>2 DEF MacInv, RoutesSynced
    <3> QED BY <3>1, <3>2, <2>0, <1>8
  <2> QED BY <2>1, <2>2, <2>3
<1>15. PeerExcluded'
  BY <1>0, <1>1 DEF MacInv, PeerExcluded, PrefixesOf
<1>16. MacNoStrayRoutes'
  <2> SUFFICES ASSUME NEW p \in MacPrefixes, hostRoutes'[p] # 0
               PROVE  p \in macExclusions \cup orphans
    BY <1>1 DEF MacNoStrayRoutes
  <2> QED BY <1>8 DEF MacInv, MacNoStrayRoutes, Excluded
<1> QED BY <1>11, <1>12, <1>13, <1>14, <1>15, <1>16 DEF MacInv

\* The system changes its default routes: s are those it has then, and msgs what
\* it says of them.
LEMMA NewsKeeps ==
  ASSUME MacInv, NEW msgs \in Seq(RtMessage), Told(msgs),
         sysDefault' \in [MacFamilies -> MacIfs \cup {0}],
         \A k \in DOMAIN msgs : /\ msgs[k].via = sysDefault'[msgs[k].fam]
                                /\ msgs[k].rtm = "DELETE" => msgs[k].via = 0,
         \A f \in MacFamilies : ~About(msgs, f) => sysDefault'[f] = sysDefault[f],
         UNCHANGED <<macPhase, m_default>>
  PROVE  /\ rtQueue' \in Seq(RtMessage) /\ MessagesTrue' /\ DefaultKnown'
         /\ \A f : macPhase # "none" /\ (Deleting(rtQueue, f) \/ Deleting(msgs, f)) =>
                    Deleting(rtQueue', f)
<1>0. rtQueue \in Seq(RtMessage)
  BY DEF MacInv, MacTypeOK, RtMessage
<1>1. CASE macPhase = "none"
  <2>1. rtQueue' = <<>>
    BY <1>1 DEF Told
  <2> QED BY <2>1, <1>1 DEF MessagesTrue, DefaultKnown
<1>2. CASE macPhase # "none"
  <2>1. rtQueue' = rtQueue \o msgs /\ rtQueue' \in Seq(RtMessage)
    BY <1>0, <1>2 DEF Told
  <2>2. LastTells(rtQueue', sysDefault')
    <3>1. LastTells(rtQueue, sysDefault)
      BY <1>2 DEF MacInv, MessagesTrue
    <3>2. LastTells(rtQueue \o msgs, sysDefault')
      BY <3>1, <1>0, QueuedTell
    <3> QED BY <3>2, <2>1
  <2>3. \A i \in DOMAIN rtQueue' : rtQueue'[i].rtm = "DELETE" => rtQueue'[i].via = 0
    <3>1. \A i \in DOMAIN rtQueue : rtQueue[i].rtm = "DELETE" => rtQueue[i].via = 0
      BY DEF MacInv, MessagesTrue
    <3> SUFFICES ASSUME NEW i \in DOMAIN rtQueue'
                 PROVE  rtQueue'[i].rtm = "DELETE" => rtQueue'[i].via = 0
      OBVIOUS
    <3>2. \/ i \in DOMAIN rtQueue /\ rtQueue'[i] = rtQueue[i]
          \/ i - Len(rtQueue) \in DOMAIN msgs /\ rtQueue'[i] = msgs[i - Len(rtQueue)]
      BY <2>1, <1>0
    <3> QED BY <3>1, <3>2
  <2>4. \A f : /\ About(rtQueue', f) <=> About(rtQueue, f) \/ About(msgs, f)
               /\ Deleting(rtQueue', f) <=> Deleting(rtQueue, f) \/ Deleting(msgs, f)
    BY <2>1, <1>0, QueuedAbout
  <2>5. DefaultKnown'
    BY <2>4 DEF MacInv, DefaultKnown
  <2> QED BY <2>1, <2>2, <2>3, <2>4, <2>5, <1>2 DEF MessagesTrue
<1> QED BY <1>1, <1>2

\* A default route is set or lost.
LEMMA DefaultKeeps ==
  ASSUME MacInv, NEW f \in MacFamilies, NEW m \in RtMessage, m.fam = f,
         m.rtm = "DELETE" => m.via = 0,
         sysDefault' = [sysDefault EXCEPT ![f] = m.via], Told(<<m>>),
         UNCHANGED <<macPhase, macPeer, macExclusions, m_default, linksUp, hostRoutes, lapsed, orphans>>
  PROVE  MacInv'
<1> DEFINE msgs == <<m>>
<1>1. /\ msgs \in Seq(RtMessage) /\ DOMAIN msgs = {1} /\ msgs[1] = m
      /\ m.via \in MacIfs \cup {0}
  BY DEF RtMessage
<1>2. Told(msgs)
  OBVIOUS
<1> HIDE DEF msgs
<1>3. /\ sysDefault' \in [MacFamilies -> MacIfs \cup {0}] /\ sysDefault'[f] = m.via
      /\ \A g \in MacFamilies \ {f} : sysDefault'[g] = sysDefault[g]
  BY <1>1 DEF MacInv, MacTypeOK
<1>4. \A g \in MacFamilies : ~About(msgs, g) => sysDefault'[g] = sysDefault[g]
  BY <1>1, <1>3 DEF About
<1>5. \A k \in DOMAIN msgs : /\ msgs[k].via = sysDefault'[msgs[k].fam]
                             /\ msgs[k].rtm = "DELETE" => msgs[k].via = 0
  BY <1>1, <1>3
<1>6. /\ rtQueue' \in Seq(RtMessage) /\ MessagesTrue' /\ DefaultKnown'
      /\ \A g : macPhase # "none" /\ Deleting(rtQueue, g) => Deleting(rtQueue', g)
  BY <1>1, <1>2, <1>3, <1>4, <1>5, NewsKeeps
<1>7. MacTypeOK'
  BY <1>3, <1>6 DEF MacInv, MacTypeOK, RtMessage
<1>8. RoutesSynced'
  BY <1>6 DEF MacInv, RoutesSynced, PeerExcluded
<1>9. PeerExcluded' /\ MacNoStrayRoutes'
  BY DEF MacInv, PeerExcluded, MacNoStrayRoutes, PrefixesOf
<1> QED BY <1>6, <1>7, <1>8, <1>9 DEF MacInv

\* An interface goes down, and its routes with it.
LEMMA FallKeeps ==
  ASSUME MacInv, NEW i \in MacIfs, linkFalls(i)
  PROVE  MacInv'
<1> DEFINE lost(f) == IF sysDefault[f] = i THEN <<Lost(f)>> ELSE <<>>
           msgs == lost("v4") \o lost("v6")
<1>1. /\ linksUp' = linksUp \ {i}
      /\ sysDefault' = [f \in DOMAIN sysDefault |-> IF sysDefault[f] = i THEN 0 ELSE sysDefault[f]]
      /\ hostRoutes' = [p \in DOMAIN hostRoutes |-> IF hostRoutes[p] = i THEN 0 ELSE hostRoutes[p]]
      /\ orphans' = {p \in orphans : hostRoutes'[p] # 0}
      /\ Told(msgs)
      /\ lapsed' = lapsed \cup {p \in macExclusions : hostRoutes[p] = i /\ sysDefault[p[2]] # i}
      /\ UNCHANGED <<macPhase, macPeer, macExclusions, m_default>>
  BY DEF linkFalls
<1>2. /\ sysDefault \in [MacFamilies -> MacIfs \cup {0}]
      /\ hostRoutes \in [MacPrefixes -> MacIfs \cup {0}]
      /\ macExclusions \subseteq MacPrefixes
  BY DEF MacInv, MacTypeOK
<1>3. /\ msgs \in Seq(RtMessage)
      /\ \A k \in DOMAIN msgs : /\ msgs[k].fam \in MacFamilies /\ msgs[k].via = 0
                                /\ sysDefault[msgs[k].fam] = i
      /\ \A f \in MacFamilies : sysDefault[f] = i => Deleting(msgs, f)
  <2>1. \A f \in MacFamilies : Lost(f) \in RtMessage /\ Lost(f).fam = f /\ Lost(f).via = 0
                                 /\ Lost(f).rtm = "DELETE"
    BY DEF Lost, RtMessage
  <2>2. MacFamilies = {"v4", "v6"}
    BY DEF MacFamilies
  <2>3. CASE sysDefault["v4"] = i /\ sysDefault["v6"] = i
    <3> DEFINE a == Lost("v4")
               b == Lost("v6")
    <3>0. msgs = <<a>> \o <<b>>
      BY <2>3
    <3>2. a \in RtMessage /\ b \in RtMessage
      BY <2>1, <2>2
    <3> HIDE DEF msgs, a, b
    <3>1. /\ msgs \in Seq(RtMessage) /\ DOMAIN msgs = {1, 2}
          /\ msgs[1] = a /\ msgs[2] = b
      BY <3>0, <3>2
    <3> USE DEF a, b
    <3> QED BY <3>1, <2>1, <2>2, <2>3 DEF Deleting
  <2>4. CASE sysDefault["v4"] = i /\ sysDefault["v6"] # i
    <3>1. msgs = <<Lost("v4")>>
      BY <2>4
    <3> HIDE DEF msgs
    <3> QED BY <3>1, <2>1, <2>2, <2>4 DEF Deleting
  <2>5. CASE sysDefault["v4"] # i /\ sysDefault["v6"] = i
    <3>1. msgs = <<Lost("v6")>>
      BY <2>5
    <3> HIDE DEF msgs
    <3> QED BY <3>1, <2>1, <2>2, <2>5 DEF Deleting
  <2>6. CASE sysDefault["v4"] # i /\ sysDefault["v6"] # i
    <3>1. msgs = <<>>
      BY <2>6
    <3> HIDE DEF msgs
    <3> QED BY <3>1, <2>2, <2>6
  <2> QED BY <2>3, <2>4, <2>5, <2>6
<1> HIDE DEF msgs, lost
<1>4. /\ sysDefault' \in [MacFamilies -> MacIfs \cup {0}]
      /\ \A f \in MacFamilies : sysDefault[f] = i => sysDefault'[f] = 0
      /\ \A f \in MacFamilies : sysDefault[f] # i => sysDefault'[f] = sysDefault[f]
  BY <1>1, <1>2
<1>5. \A f \in MacFamilies : ~About(msgs, f) => sysDefault'[f] = sysDefault[f]
  BY <1>3, <1>4 DEF About, Deleting
<1>6. /\ rtQueue' \in Seq(RtMessage) /\ MessagesTrue' /\ DefaultKnown'
      /\ \A f : macPhase # "none" /\ (Deleting(rtQueue, f) \/ Deleting(msgs, f)) =>
                  Deleting(rtQueue', f)
  <2>1. \A k \in DOMAIN msgs : /\ msgs[k].via = sysDefault'[msgs[k].fam]
                               /\ msgs[k].rtm = "DELETE" => msgs[k].via = 0
    BY <1>3, <1>4
  <2> QED BY <2>1, <1>1, <1>3, <1>4, <1>5, NewsKeeps
<1>7. /\ hostRoutes' \in [MacPrefixes -> MacIfs \cup {0}]
      /\ \A p \in MacPrefixes : hostRoutes'[p] = IF hostRoutes[p] = i THEN 0 ELSE hostRoutes[p]
  BY <1>1, <1>2
<1>8. MacTypeOK'
  BY <1>1, <1>4, <1>6, <1>7 DEF MacInv, MacTypeOK, RtMessage
<1>9. RoutesSynced'
  <2> SUFFICES ASSUME NEW p \in macExclusions, p \notin lapsed'
               PROVE  hostRoutes'[p] = m_default[p[2]] \/ Deleting(rtQueue', p[2])
    BY <1>1 DEF RoutesSynced
  <2>0. p \in MacPrefixes /\ p[2] \in MacFamilies /\ macPhase = "up"
    BY <1>2, MacPrefixesTyped DEF MacInv, PeerExcluded
  <2>1. CASE hostRoutes[p] = i
    BY <2>0, <2>1, <1>1, <1>3, <1>6
  <2>2. CASE hostRoutes[p] # i
    <3>1. hostRoutes[p] = m_default[p[2]] \/ Deleting(rtQueue, p[2])
      BY <1>1 DEF MacInv, RoutesSynced
    <3> QED BY <3>1, <2>0, <2>2, <1>6, <1>7
  <2> QED BY <2>1, <2>2
<1>10. PeerExcluded'
  BY <1>1 DEF MacInv, PeerExcluded, PrefixesOf
<1>11. MacNoStrayRoutes'
  BY <1>1, <1>7 DEF MacInv, MacNoStrayRoutes
<1> QED BY <1>6, <1>8, <1>9, <1>10, <1>11 DEF MacInv

(***************************************************************************)
(* The routes past the tunnel of the macOS daemon follow the system's      *)
(* default route, and none stays, for every number of interfaces, servers  *)
(* and messages that wait (MacosRouteMonitor).                             *)
(***************************************************************************)
THEOREM MacosRoutes == MacSpec => [](MacTypeOK /\ MacRoutesRight)
<1>1. MacInv /\ [MacNext]_macVars => MacInv'
  <2> SUFFICES ASSUME MacInv, [MacNext]_macVars PROVE MacInv'
    OBVIOUS
  <2>1. CASE MacDaemonNext
    BY <2>1, MonitorKeeps, ActivateKeeps, SwitchKeeps, MessageKeeps DEF MacDaemonNext
  <2>2. ASSUME NEW f \in MacFamilies, NEW i \in MacIfs, defaultSet(f, i) PROVE MacInv'
    <3> DEFINE m == [rtm |-> IF sysDefault[f] = 0 THEN "ADD" ELSE "CHANGE", fam |-> f, via |-> i]
    <3>1. /\ m \in RtMessage /\ m.fam = f /\ m.via = i /\ m.rtm # "DELETE"
          /\ sysDefault' = [sysDefault EXCEPT ![f] = i] /\ Told(<<m>>)
          /\ UNCHANGED <<macPhase, macPeer, macExclusions, m_default, linksUp, hostRoutes,
                         lapsed, orphans>>
      BY <2>2 DEF RtMessage, defaultSet
    <3> HIDE DEF m
    <3> QED BY <3>1, DefaultKeeps
  <2>3. ASSUME NEW f \in MacFamilies, defaultLost(f) PROVE MacInv'
    <3> DEFINE m == Lost(f)
    <3>1. /\ m \in RtMessage /\ m.fam = f /\ m.via = 0
          /\ sysDefault' = [sysDefault EXCEPT ![f] = 0] /\ Told(<<m>>)
          /\ UNCHANGED <<macPhase, macPeer, macExclusions, m_default, linksUp, hostRoutes,
                         lapsed, orphans>>
      BY <2>3 DEF RtMessage, defaultLost, Lost
    <3> HIDE DEF m
    <3> QED BY <3>1, DefaultKeeps
  <2>4. ASSUME NEW i \in MacIfs, linkRises(i) PROVE MacInv'
    BY <2>4 DEF linkRises, MacInv, MacTypeOK, MessagesTrue, DefaultKnown, RoutesSynced,
       PeerExcluded, MacNoStrayRoutes, PrefixesOf
  <2>5. CASE UNCHANGED macVars
    BY <2>5 DEF macVars, MacInv, MacTypeOK, MessagesTrue, DefaultKnown, RoutesSynced,
       PeerExcluded, MacNoStrayRoutes, PrefixesOf
  <2> QED BY <2>1, <2>2, <2>3, <2>4, <2>5, FallKeeps DEF MacNext, MacSystemNext
<1>2. MacInv => MacTypeOK /\ MacRoutesRight
  BY MacInvImplies DEF MacInv
<1> QED BY <1>1, <1>2, MacInvInit, PTL DEF MacSpec

-----------------------------------------------------------------------------

(***************************************************************************)
(* The routes of the Windows daemon.  updateExclusionRoute() passes over   *)
(* the table once; that it finds what the system would use is proved by a  *)
(* shortest beginning of the table for which it would not.                 *)
(***************************************************************************)

\* A set of naturals has a least member, which is its Min.
LEMMA MinOf ==
  ASSUME NEW T, T \subseteq Nat, T # {}
  PROVE  Min(T) \in T /\ \A y \in T : Min(T) <= y
<1>1. \E x \in T : \A y \in T : ~(<<y, x>> \in OpToRel(<, Nat))
  BY NatLessThanWellFounded, WFMin
<1>2. PICK x \in T : \A y \in T : ~(<<y, x>> \in OpToRel(<, Nat))
  BY <1>1
<1>3. \A y, z \in Nat : <<y, z>> \in OpToRel(<, Nat) <=> y < z
  BY DEF OpToRel
<1>4. ASSUME NEW y \in T PROVE x <= y
  <2>1. x \in Nat /\ y \in Nat
    OBVIOUS
  <2>2. ~(y < x)
    BY <2>1, <1>2, <1>3
  <2> QED BY <2>1, <2>2
<1>5. \E m \in T : \A y \in T : m <= y
  BY <1>4
<1> QED BY <1>5 DEF Min

\* A finite set's members are in its sequence, each at a position of its own.
LEMMA SetToSeqHas ==
  ASSUME NEW S, IsFiniteSet(S)
  PROVE  /\ Cardinality(S) \in Nat
         /\ SetToSeq(S) \in Seq(S) /\ Len(SetToSeq(S)) = Cardinality(S)
         /\ \A x \in S : \E i \in 1 .. Cardinality(S) : SetToSeq(S)[i] = x
<1> DEFINE n == Cardinality(S)
           f == SetToSeq(S)
<1>1. n \in Nat /\ ExistsBijection(1 .. n, S)
  BY FS_CardinalityType
<1>2. \E g \in [1 .. n -> S] : IsInjective(g)
  BY <1>1 DEF ExistsBijection, Bijection, Injection
<1>3. f \in [1 .. n -> S] /\ IsInjective(f)
  BY <1>2 DEF SetToSeq
<1>4. f \in Injection(1 .. n, S)
  BY <1>3 DEF Injection
<1>5. IsFiniteSet(1 .. n) /\ Cardinality(1 .. n) = n
  BY <1>1, FS_Interval
<1> HIDE DEF f, n
<1>6. f \in Surjection(1 .. n, S)
  BY <1>4, <1>5, FS_Injection DEF n
<1>7. \A x \in S : \E i \in 1 .. n : f[i] = x
  BY <1>6 DEF Surjection
<1>8. f \in Seq(S) /\ Len(f) = n
  BY <1>1, <1>3
<1> QED BY <1>1, <1>7, <1>8 DEF f, n

\* The recursion of a pass over a table is well founded.
LEMMA BestOfIs ==
  ASSUME NEW X, NEW tab \in Seq(X), NEW dest, NEW valid
  PROVE  /\ BestOf(tab, dest, valid)[0] = NoMatch
         /\ \A n \in 1 .. Len(tab) :
              BestOf(tab, dest, valid)[n] =
                Considered(BestOf(tab, dest, valid)[n - 1], tab[n], dest, valid)
<1> DEFINE R(f, m) == f = [n \in 0 .. m |->
                             IF n = 0 THEN NoMatch
                             ELSE Considered(f[n - 1], tab[n], dest, valid)]
           T == {m \in 0 .. Len(tab) : ~\E f : R(f, m)}
<1>0. Len(tab) \in Nat
  OBVIOUS
<1>1. T = {}
  <2> SUFFICES ASSUME T # {} PROVE FALSE
    OBVIOUS
  <2>1. T \subseteq Nat
    BY <1>0
  <2>2. PICK m \in T : \A y \in T : m <= y
    BY <2>1, MinOf
  <2>3. m \in Nat /\ m <= Len(tab) /\ ~\E f : R(f, m)
    BY <1>0, <2>2
  <2>4. m # 0
    <3> SUFFICES ASSUME m = 0 PROVE \E f : R(f, m)
      BY <2>3
    <3> DEFINE g == [n \in 0 .. 0 |-> NoMatch]
    <3>1. g = [n \in 0 .. 0 |-> IF n = 0 THEN NoMatch
                                ELSE Considered(g[n - 1], tab[n], dest, valid)]
      OBVIOUS
    <3> HIDE DEF g
    <3> QED BY <3>1
  <2>5. m - 1 \in 0 .. Len(tab) /\ m - 1 \notin T
    <3>1. m - 1 \in Nat /\ m - 1 <= Len(tab) /\ m - 1 < m
      BY <1>0, <2>3, <2>4
    <3>2. m - 1 \notin T
      <4> HIDE DEF T
      <4>1. ~(m <= m - 1)
        BY <2>3
      <4> QED BY <2>2, <4>1
    <3> QED BY <1>0, <3>1, <3>2
  <2>6. PICK f : R(f, m - 1)
    BY <2>5
  <2> DEFINE g == [n \in 0 .. m |-> IF n = m THEN Considered(f[m - 1], tab[m], dest, valid)
                                   ELSE f[n]]
  <2>7. ASSUME NEW n \in 0 .. m
        PROVE  g[n] = IF n = 0 THEN NoMatch ELSE Considered(g[n - 1], tab[n], dest, valid)
    <3>1. CASE n = m
      <4>1. g[n] = Considered(f[m - 1], tab[m], dest, valid)
        BY <3>1
      <4>2. g[n - 1] = f[m - 1]
        BY <2>3, <2>4, <3>1
      <4> QED BY <2>4, <3>1, <4>1, <4>2
    <3>2. CASE n # m /\ n # 0
      <4>1. n \in 0 .. (m - 1) /\ n - 1 \in 0 .. m /\ n - 1 # m
        BY <2>3, <3>2
      <4>2. g[n] = f[n] /\ g[n - 1] = f[n - 1]
        BY <4>1, <3>2
      <4>3. f[n] = Considered(f[n - 1], tab[n], dest, valid)
        BY <2>6, <4>1, <3>2
      <4> QED BY <4>2, <4>3, <3>2
    <3>3. CASE n # m /\ n = 0
      <4>1. 0 \in 0 .. (m - 1)
        BY <2>3, <2>4
      <4>2. f[0] = NoMatch
        BY <2>6, <4>1
      <4> QED BY <3>3, <4>2
    <3> QED BY <3>1, <3>2, <3>3
  <2>8. DOMAIN g = 0 .. m /\ g = [n \in 0 .. m |-> g[n]]
    OBVIOUS
  <2> HIDE DEF g
  <2>9. R(g, m)
    BY <2>7, <2>8
  <2> QED BY <2>3, <2>9
<1>2. \E f : R(f, Len(tab))
  BY <1>0, <1>1
<1> DEFINE b == BestOf(tab, dest, valid)
<1>3. b = CHOOSE f : R(f, Len(tab))
  BY DEF BestOf
<1>4. R(b, Len(tab))
  BY <1>2, <1>3
<1> HIDE DEF b
<1>5. b[0] = NoMatch /\ \A n \in 1 .. Len(tab) : b[n] = Considered(b[n - 1], tab[n], dest, valid)
  BY <1>0, <1>4
<1> QED BY <1>5 DEF b

\* The interface metric is a number.
LEMMA MetricIs == \A row \in SysRows : RouteMetric(row) \in Nat /\ Len(row.dest) \in Nat
<1> SUFFICES ASSUME NEW row \in SysRows PROVE RouteMetric(row) \in Nat /\ Len(row.dest) \in Nat
  OBVIOUS
<1>1. /\ row.dest \in Seq({0, 1}) /\ row.metric \in Nat /\ IfMetric[row.luid] \in Nat
      /\ ULONG_MAX \in Nat
  BY RouteAssumption
<1> DEFINE a == row.metric + IfMetric[row.luid]
           b == ULONG_MAX + 1
<1>2. a \in Nat /\ b \in Nat /\ b > 0
  BY <1>1
<1> HIDE DEF a, b
<1>3. a % b \in Nat
  BY <1>2
<1> QED BY <1>1, <1>3 DEF RouteMetric, a, b

\* A row that fits the prefix and is as good as any other of those at positions 1..n.
Fits(row, dest, valid) == IsPrefix(row.dest, dest) /\ row.luid \in valid

AsGood(r, o) ==
  \/ Len(o.dest) < Len(r.dest)
  \/ Len(o.dest) = Len(r.dest) /\ RouteMetric(r) <= RouteMetric(o)

Entry(row, dest) ==
  [match |-> Len(row.dest), metric |-> RouteMetric(row),
   luid |-> IF Len(row.dest) = Len(dest) THEN 0 ELSE row.luid]

\* The pass has found the best of the first n rows.
Found(tab, dest, valid, n) ==
  \/ /\ \A j \in 1 .. n : ~Fits(tab[j], dest, valid)
     /\ BestOf(tab, dest, valid)[n] = NoMatch
  \/ \E i \in 1 .. n :
       /\ Fits(tab[i], dest, valid)
       /\ BestOf(tab, dest, valid)[n] = Entry(tab[i], dest)
       /\ \A j \in 1 .. n : Fits(tab[j], dest, valid) => AsGood(tab[i], tab[j])

LEMMA FoundNext ==
  ASSUME NEW tab \in Seq(SysRows), NEW dest, NEW valid, NEW n \in 1 .. Len(tab),
         Found(tab, dest, valid, n - 1)
  PROVE  Found(tab, dest, valid, n)
<1> DEFINE b == BestOf(tab, dest, valid)
           row == tab[n]
           G(j) == Fits(tab[j], dest, valid)
<1>0. n \in Nat /\ Len(tab) \in Nat /\ n - 1 \in Nat /\ \A j \in 1 .. n : j = n \/ j \in 1 .. (n - 1)
  OBVIOUS
<1>1. \A j \in 1 .. n : tab[j] \in SysRows
  BY <1>0
<1>2. \A j \in 1 .. n : RouteMetric(tab[j]) \in Nat /\ Len(tab[j].dest) \in Nat
  BY <1>1, MetricIs
<1>3. b[n] = Considered(b[n - 1], row, dest, valid)
  BY BestOfIs
<1>4. n \in 1 .. n
  BY <1>0
<1> HIDE DEF b
<1>5. CASE \A j \in 1 .. (n - 1) : ~G(j)
  <2>1. b[n - 1] = NoMatch
    BY <1>5 DEF Found, b
  <2>2. CASE G(n)
    <3>1. Tighter(row, b[n - 1])
      BY <2>1, <1>2, <1>4 DEF Tighter, NoMatch
    <3>2. b[n] = Entry(row, dest)
      BY <2>2, <3>1, <1>3 DEF Considered, Entry, Fits
    <3>3. \A j \in 1 .. n : G(j) => AsGood(row, tab[j])
      BY <1>0, <1>2, <1>5 DEF AsGood
    <3> QED BY <1>4, <2>2, <3>2, <3>3 DEF Found, b
  <2>3. CASE ~G(n)
    <3>1. b[n] = NoMatch
      BY <2>1, <2>3, <1>3 DEF Considered, Fits
    <3>2. \A j \in 1 .. n : ~G(j)
      BY <1>0, <1>5, <2>3
    <3> QED BY <3>1, <3>2 DEF Found, b
  <2> QED BY <2>2, <2>3
<1>6. CASE \E j \in 1 .. (n - 1) : G(j)
  <2>1. PICK i \in 1 .. (n - 1) :
          /\ G(i) /\ b[n - 1] = Entry(tab[i], dest)
          /\ \A j \in 1 .. (n - 1) : G(j) => AsGood(tab[i], tab[j])
    BY <1>6 DEF Found, b
  <2>2. i \in 1 .. n
    BY <1>0, <2>1
  <2>3. Tighter(row, b[n - 1]) <=>
          \/ Len(row.dest) > Len(tab[i].dest)
          \/ Len(row.dest) = Len(tab[i].dest) /\ RouteMetric(row) < RouteMetric(tab[i])
    BY <2>1 DEF Tighter, Entry
  <2>4. CASE G(n) /\ Tighter(row, b[n - 1])
    <3>1. b[n] = Entry(row, dest)
      BY <2>4, <1>3 DEF Considered, Entry, Fits
    <3>2. ASSUME NEW j \in 1 .. n, G(j) PROVE AsGood(row, tab[j])
      <4>1. CASE j = n
        BY <4>1, <1>2, <1>4 DEF AsGood
      <4>2. CASE j # n
        <5>1. AsGood(tab[i], tab[j])
          BY <1>0, <2>1, <3>2, <4>2
        <5>2. /\ RouteMetric(row) \in Nat /\ Len(row.dest) \in Nat
              /\ RouteMetric(tab[i]) \in Nat /\ Len(tab[i].dest) \in Nat
              /\ RouteMetric(tab[j]) \in Nat /\ Len(tab[j].dest) \in Nat
          BY <2>2, <1>2, <1>4
        <5> HIDE DEF row
        <5>3. CASE Len(row.dest) > Len(tab[i].dest)
          BY <5>1, <5>2, <5>3 DEF AsGood
        <5>4. CASE Len(row.dest) = Len(tab[i].dest) /\ RouteMetric(row) < RouteMetric(tab[i])
          BY <5>1, <5>2, <5>4 DEF AsGood
        <5> QED BY <2>3, <2>4, <5>3, <5>4
      <4> QED BY <4>1, <4>2
    <3> QED BY <1>4, <2>4, <3>1, <3>2 DEF Found, b
  <2>5. CASE ~(G(n) /\ Tighter(row, b[n - 1]))
    <3>1. b[n] = Entry(tab[i], dest)
      BY <2>1, <2>5, <1>3 DEF Considered, Fits
    <3>2. ASSUME NEW j \in 1 .. n, G(j) PROVE AsGood(tab[i], tab[j])
      <4>1. CASE j = n
        BY <4>1, <3>2, <2>2, <2>3, <2>5, <1>2, <1>4 DEF AsGood
      <4>2. CASE j # n
        BY <1>0, <2>1, <3>2, <4>2
      <4> QED BY <4>1, <4>2
    <3> QED BY <2>1, <2>2, <3>1, <3>2 DEF Found, b
  <2> QED BY <2>4, <2>5
<1> QED BY <1>5, <1>6

LEMMA PassFinds ==
  ASSUME NEW tab \in Seq(SysRows), NEW dest, NEW valid
  PROVE  Found(tab, dest, valid, Len(tab))
<1> DEFINE T == {n \in 0 .. Len(tab) : ~Found(tab, dest, valid, n)}
<1>0. Len(tab) \in Nat
  OBVIOUS
<1> SUFFICES ASSUME T # {} PROVE FALSE
  BY <1>0
<1>1. T \subseteq Nat
  BY <1>0
<1> HIDE DEF T
<1>2. PICK m \in T : \A y \in T : m <= y
  BY <1>1, MinOf
<1>3. m \in Nat /\ m <= Len(tab) /\ ~Found(tab, dest, valid, m)
  BY <1>0, <1>2 DEF T
<1>4. m # 0
  <2>1. BestOf(tab, dest, valid)[0] = NoMatch
    BY BestOfIs
  <2>2. Found(tab, dest, valid, 0)
    BY <2>1 DEF Found
  <2> QED BY <1>3, <2>2
<1>5. m - 1 \notin T
  <2>1. ~(m <= m - 1)
    BY <1>3
  <2> QED BY <1>2, <2>1
<1>6. m \in 1 .. Len(tab) /\ m - 1 \in 0 .. Len(tab)
  BY <1>0, <1>3, <1>4
<1>7. Found(tab, dest, valid, m - 1)
  BY <1>5, <1>6 DEF T
<1> QED BY <1>3, <1>6, <1>7, FoundNext

\* The interface for a prefix is the one the system would use, or none if the
\* system has a route to just that prefix, or none at all.
FollowsSystem(p, luid) ==
  \/ luid = 0 /\ (Usual(p) = {} \/ \E r \in Usual(p) : r.dest = p)
  \/ \E r \in Usual(p) : luid = r.luid /\ r.dest # p

LEMMA BestIsUsual ==
  ASSUME sysRoutes \subseteq SysRows, \A row \in sysRoutes : row.luid \in connectedIfs,
         NEW p \in Excludable
  PROVE  FollowsSystem(p, BestLuid(sysRoutes, p, connectedIfs))
<1> DEFINE tab == SetToSeq(sysRoutes)
           n == Cardinality(sysRoutes)
           G(row) == Fits(row, p, connectedIfs)
<1>1. IsFiniteSet(sysRoutes)
  BY RouteAssumption, FS_Subset
<1>2. /\ n \in Nat /\ tab \in Seq(sysRoutes) /\ Len(tab) = n
      /\ \A x \in sysRoutes : \E i \in 1 .. n : tab[i] = x
  BY <1>1, SetToSeqHas
<1>3. BestLuid(sysRoutes, p, connectedIfs) = BestOf(tab, p, connectedIfs)[n].luid
  BY DEF BestLuid
<1> HIDE DEF tab, n
<1>4. tab \in Seq(SysRows) /\ \A i \in 1 .. n : tab[i] \in sysRoutes
  BY <1>2
<1>5. Found(tab, p, connectedIfs, n)
  BY <1>2, <1>4, PassFinds
<1>6. \A row \in sysRoutes : G(row) <=> IsPrefix(row.dest, p)
  BY DEF Fits
<1>7. \A row \in sysRoutes : RouteMetric(row) \in Nat /\ Len(row.dest) \in Nat
  BY MetricIs
<1>8. CASE \A j \in 1 .. n : ~G(tab[j])
  <2>1. \A row \in sysRoutes : ~IsPrefix(row.dest, p)
    BY <1>2, <1>6, <1>8
  <2>2. Usual(p) = {}
    BY <2>1 DEF Usual
  <2>3. BestLuid(sysRoutes, p, connectedIfs) = 0
    BY <1>3, <1>5, <1>8 DEF Found, NoMatch
  <2> QED BY <2>2, <2>3 DEF FollowsSystem
<1>9. CASE \E j \in 1 .. n : G(tab[j])
  <2>1. PICK i \in 1 .. n :
          /\ G(tab[i]) /\ BestOf(tab, p, connectedIfs)[n] = Entry(tab[i], p)
          /\ \A j \in 1 .. n : G(tab[j]) => AsGood(tab[i], tab[j])
    BY <1>5, <1>9 DEF Found
  <2> DEFINE r == tab[i]
  <2>2. r \in sysRoutes /\ IsPrefix(r.dest, p)
    BY <1>4, <1>6, <2>1
  <2>3. \A o \in sysRoutes : IsPrefix(o.dest, p) => AsGood(r, o)
    BY <1>2, <1>6, <2>1
  <2>4. BestLuid(sysRoutes, p, connectedIfs) = IF Len(r.dest) = Len(p) THEN 0 ELSE r.luid
    BY <1>3, <2>1 DEF Entry
  <2> HIDE DEF r
  <2>5. r \in Usual(p)
    BY <2>2, <2>3, <1>7 DEF Usual, AsGood
  <2>6. Len(r.dest) = Len(p) <=> r.dest = p
    <3>1. r.dest \in Seq({0, 1}) /\ p \in Seq({0, 1})
      BY <2>2, RouteAssumption
    <3>2. SubSeq(r.dest, 1, Len(r.dest)) = SubSeq(p, 1, Len(r.dest))
      BY <2>2 DEF IsPrefix
    <3>3. SubSeq(r.dest, 1, Len(r.dest)) = r.dest /\ SubSeq(p, 1, Len(p)) = p
      BY <3>1, SubSeqFull
    <3> QED BY <3>2, <3>3
  <2> QED BY <2>4, <2>5, <2>6 DEF FollowsSystem
<1> QED BY <1>8, <1>9

\* What the exclusions were found to be is what the system would do, as long as
\* no change of its table waits or was missed.
ExclusionsKnown ==
  monitor /\ ~routesNotified /\ ~missed =>
    \A p \in DOMAIN m_exclusionRoutes : FollowsSystem(p, m_exclusionRoutes[p])

\* The clones are those of the table that was looked at last, and there are some
\* only for a monitor.
ClonesCurrent ==
  m_defaultRouteCapture =>
    /\ monitor
    /\ ~routesNotified /\ ~captureStale =>
         m_clonedRoutes = Captures(sysRoutes, DOMAIN m_exclusionRoutes)

\* What the system has are rows of its own, over connected interfaces.
SystemRows == sysRoutes \subseteq SysRows /\ \A row \in sysRoutes : row.luid \in connectedIfs

\* The routes past the tunnel are those the monitor has written down, and a
\* change waits for a monitor only.
Written ==
  /\ DOMAIN m_exclusionRoutes \subseteq Excludable
  /\ ~monitor => DOMAIN m_exclusionRoutes = {} /\ ~routesNotified
  /\ \A row \in installed :
       /\ row.dest \in DOMAIN m_exclusionRoutes
       /\ row.luid = m_exclusionRoutes[row.dest] /\ row.luid # 0

\* The invariant: it is inductive.
WinRouteInv == Written /\ ExclusionsKnown /\ ClonesCurrent /\ SystemRows

\* A daemon that was just made captured nothing.
LEMMA WinRouteInvInit == RouteInit => WinRouteInv
BY DEF RouteInit, WinRouteInv, Written, ExclusionsKnown, ClonesCurrent, SystemRows, NoExclusions

\* What updateExclusionRoutes() leaves in the table belongs to its exclusions.
LEMMA UpdateLeaves ==
  ASSUME NEW e, Written, DOMAIN m_exclusionRoutes \subseteq DOMAIN e, DOMAIN e \subseteq Excludable,
         updateExclusionRoutes(e), monitor, monitor' = monitor
  PROVE  m_exclusionRoutes' = e /\ Written'
<1> DEFINE same(p) == p \in DOMAIN m_exclusionRoutes /\ m_exclusionRoutes[p] = e[p]
           kept == {row \in installed : same(row.dest)}
           new == {[dest |-> p, luid |-> e[p]] :
                     p \in {q \in DOMAIN e : ~same(q) /\ e[q] # 0}}
<1>1. m_exclusionRoutes' = e /\ installed' \subseteq kept \cup new
  BY DEF updateExclusionRoutes
<1>2. \A row \in kept : row.dest \in DOMAIN e /\ row.luid = e[row.dest] /\ row.luid # 0
  BY DEF Written
<1>3. \A row \in new : row.dest \in DOMAIN e /\ row.luid = e[row.dest] /\ row.luid # 0
  OBVIOUS
<1> QED BY <1>1, <1>2, <1>3 DEF Written

\* What the system would do depends on its table only.
LEMMA FollowsStays ==
  ASSUME sysRoutes' = sysRoutes, NEW p, NEW luid, FollowsSystem(p, luid)
  PROVE  FollowsSystem(p, luid)'
BY DEF FollowsSystem, Usual

\* Every step of the daemon and of the system keeps it.
LEMMA WinRouteStep ==
  ASSUME WinRouteInv, RouteNext
  PROVE  WinRouteInv'
<1>0. Written /\ ExclusionsKnown /\ ClonesCurrent /\ SystemRows
  BY DEF WinRouteInv
<1>1. CASE monitorCreated
  BY <1>0, <1>1, FollowsStays DEF monitorCreated, Written, ClonesCurrent, SystemRows, ExclusionsKnown, WinRouteInv
<1>2. CASE monitorDestroyed
  BY <1>0, <1>2 DEF monitorDestroyed, Written, ClonesCurrent, SystemRows, ExclusionsKnown,
     WinRouteInv, NoExclusions
<1>3. ASSUME NEW p \in Excludable, addExclusionRoute(p) PROVE WinRouteInv'
  <2> DEFINE e == [q \in DOMAIN m_exclusionRoutes \cup {p} |->
                     IF q = p THEN BestLuid(sysRoutes, p, connectedIfs)
                     ELSE m_exclusionRoutes[q]]
  <2>1. /\ DOMAIN e = DOMAIN m_exclusionRoutes \cup {p}
        /\ e[p] = BestLuid(sysRoutes, p, connectedIfs)
        /\ \A q \in DOMAIN m_exclusionRoutes : q # p => e[q] = m_exclusionRoutes[q]
    OBVIOUS
  <2>2. /\ updateExclusionRoutes(e) /\ captureStale' = TRUE /\ monitor
        /\ UNCHANGED <<monitor, sysRoutes, connectedIfs, m_defaultRouteCapture, routesNotified,
                       missed>>
    BY <1>3 DEF addExclusionRoute
  <2> HIDE DEF e
  <2>3. m_exclusionRoutes' = e /\ Written'
    BY <1>0, <2>1, <2>2, UpdateLeaves DEF Written
  <2>4. FollowsSystem(p, e[p])
    BY <1>0, <2>1, BestIsUsual DEF SystemRows
  <2>5. ExclusionsKnown'
    BY <1>0, <2>1, <2>2, <2>3, <2>4, FollowsStays DEF ExclusionsKnown
  <2> QED BY <1>0, <2>2, <2>3, <2>5 DEF ClonesCurrent, SystemRows, WinRouteInv
<1>4. ASSUME NEW p \in Excludable, deleteExclusionRoute(p) PROVE WinRouteInv'
  <2>1. /\ DOMAIN m_exclusionRoutes' = DOMAIN m_exclusionRoutes \ {p}
        /\ \A q \in DOMAIN m_exclusionRoutes' : m_exclusionRoutes'[q] = m_exclusionRoutes[q]
        /\ installed' = {row \in installed : row.dest # p} /\ captureStale'
        /\ UNCHANGED <<monitor, sysRoutes, connectedIfs, m_defaultRouteCapture, routesNotified,
                       missed>>
    BY <1>4 DEF deleteExclusionRoute
  <2>2. Written'
    BY <1>0, <2>1 DEF Written
  <2>3. ExclusionsKnown'
    BY <1>0, <2>1, FollowsStays DEF ExclusionsKnown
  <2> QED BY <1>0, <2>1, <2>2, <2>3 DEF ClonesCurrent, SystemRows, WinRouteInv
<1>5. ASSUME NEW enable \in BOOLEAN, setDetaultRouteCapture(enable) PROVE WinRouteInv'
  <2>1. Written' /\ SystemRows' /\ ClonesCurrent'
    BY <1>0, <1>5 DEF setDetaultRouteCapture, Written, ClonesCurrent, SystemRows
  <2>2. UNCHANGED <<monitor, sysRoutes, m_exclusionRoutes, routesNotified, missed>>
    BY <1>5 DEF setDetaultRouteCapture
  <2>3. ExclusionsKnown'
    BY <1>0, <2>2, FollowsStays DEF ExclusionsKnown
  <2> QED BY <2>1, <2>3 DEF WinRouteInv
<1>6. CASE routeChanged
  <2> DEFINE e == [p \in DOMAIN m_exclusionRoutes |-> BestLuid(sysRoutes, p, connectedIfs)]
  <2>1. /\ DOMAIN e = DOMAIN m_exclusionRoutes
        /\ \A p \in DOMAIN e : e[p] = BestLuid(sysRoutes, p, connectedIfs)
    OBVIOUS
  <2>2. /\ updateExclusionRoutes(e) /\ monitor
        /\ UNCHANGED <<monitor, sysRoutes, connectedIfs, m_defaultRouteCapture>>
    BY <1>0, <1>6 DEF routeChanged, Written
  <2> HIDE DEF e
  <2>3. m_exclusionRoutes' = e /\ Written'
    BY <1>0, <2>1, <2>2, UpdateLeaves DEF Written
  <2>4. ClonesCurrent'
    BY <1>0, <2>1, <2>3, <1>6 DEF routeChanged, updateCapturedRoutes, ClonesCurrent
  <2>5. \A p \in DOMAIN e : FollowsSystem(p, e[p])
    BY <1>0, <2>1, BestIsUsual DEF SystemRows, Written
  <2>6. ExclusionsKnown'
    BY <2>2, <2>3, <2>5, FollowsStays DEF ExclusionsKnown
  <2> QED BY <1>0, <2>2, <2>3, <2>4, <2>6 DEF SystemRows, WinRouteInv
<1>7. CASE routeChangedUnread
  BY <1>0, <1>7 DEF routeChangedUnread, Written, ClonesCurrent, SystemRows, ExclusionsKnown,
     WinRouteInv
<1>8. CASE sysRouteChanges
  <2>1. Written' /\ SystemRows'
    BY <1>0, <1>8 DEF sysRouteChanges, Written, SystemRows
  <2>2. /\ routesNotified' = monitor
        /\ UNCHANGED <<monitor, m_defaultRouteCapture>>
    BY <1>8 DEF sysRouteChanges
  <2> QED BY <1>0, <2>1, <2>2 DEF ClonesCurrent, ExclusionsKnown, WinRouteInv
<1>9. CASE interfaceChanges
  <2>1. /\ sysRoutes' = {row \in sysRoutes : row.luid \in connectedIfs'}
        /\ installed' \subseteq installed
        /\ routesNotified' = (routesNotified \/ (monitor /\ sysRoutes' # sysRoutes))
        /\ UNCHANGED <<monitor, m_exclusionRoutes, m_clonedRoutes,
                       m_defaultRouteCapture, missed, captureStale>>
    BY <1>9 DEF interfaceChanges
  <2>2. Written' /\ SystemRows'
    BY <1>0, <2>1 DEF Written, SystemRows
  <2>3. ExclusionsKnown' /\ ClonesCurrent'
    <3>1. CASE sysRoutes' = sysRoutes
      BY <1>0, <2>1, <3>1, FollowsStays DEF ExclusionsKnown, ClonesCurrent
    <3>2. CASE sysRoutes' # sysRoutes
      BY <1>0, <2>1, <3>2 DEF ExclusionsKnown, ClonesCurrent
    <3> QED BY <3>1, <3>2
  <2> QED BY <2>2, <2>3 DEF WinRouteInv
<1> QED BY <1>1, <1>2, <1>3, <1>4, <1>5, <1>6, <1>7, <1>8, <1>9 DEF RouteNext

\* The routes that are there go where the system's do.
LEMMA WinRouteFollows == WinRouteInv => ExclusionsFollow
<1> SUFFICES ASSUME WinRouteInv, monitor, ~routesNotified, ~missed,
                    NEW p \in DOMAIN m_exclusionRoutes, NEW over,
                    over = {row.luid : row \in {r \in installed : r.dest = p}}
             PROVE  \/ over = {} /\ m_exclusionRoutes[p] # 0
                    \/ over = {} /\ (Usual(p) = {} \/ \E r \in Usual(p) : r.dest = p)
                    \/ \E r \in Usual(p) : over = {r.luid} /\ r.dest # p
  BY DEF ExclusionsFollow
<1> DEFINE l == m_exclusionRoutes[p]
<1>1. over \subseteq {l} /\ (over # {} => l # 0)
  BY DEF WinRouteInv, Written
<1>2. FollowsSystem(p, l)
  BY DEF WinRouteInv, ExclusionsKnown
<1>3. \A r \in Usual(p) : r.luid # 0
  BY RouteAssumption DEF WinRouteInv, SystemRows, Usual
<1> HIDE DEF l
<1>4. CASE over = {}
  <2>1. CASE l # 0
    BY <1>4, <2>1 DEF l
  <2>2. CASE l = 0
    BY <1>2, <1>3, <1>4, <2>2 DEF FollowsSystem
  <2> QED BY <2>1, <2>2
<1>5. CASE over # {}
  <2>1. over = {l} /\ l # 0
    BY <1>1, <1>5
  <2> QED BY <1>2, <2>1 DEF FollowsSystem
<1> QED BY <1>4, <1>5

(***************************************************************************)
(* The routes past the tunnel of the Windows daemon lead where the         *)
(* system's do, none is left for a prefix that is not excluded, and the    *)
(* tunnel captures exactly what it should, for all tables and metrics and  *)
(* orders of changes (WindowsRouteMonitor).                                *)
(***************************************************************************)
THEOREM WindowsRoutes == RouteSpec => []WinRoutesRight
<1>1. WinRouteInv /\ [RouteNext]_routeVars => WinRouteInv'
  <2> SUFFICES ASSUME WinRouteInv, UNCHANGED routeVars PROVE WinRouteInv'
    BY WinRouteStep
  <2> QED BY FollowsStays DEF routeVars, WinRouteInv, Written, ExclusionsKnown, ClonesCurrent,
             SystemRows
<1>2. WinRouteInv => NoStrayRoutes /\ CapturedUnless
  BY DEF WinRouteInv, Written, NoStrayRoutes, ClonesCurrent, SystemRows, CapturedUnless,
     AllCaptured, Captures, isRouteExcluded
<1>3. WinRouteInv => WinRoutesRight
  BY <1>2, WinRouteFollows DEF WinRoutesRight
<1> QED BY <1>1, <1>3, WinRouteInvInit, PTL DEF RouteSpec

(***************************************************************************)
(* The packet filter of Linux.  FilterRight speaks of the packets that     *)
(* pass, so the lemmas go from rules to chains, from chains to hooks and   *)
(* from what up() has committed to the rules the chains hold.  The         *)
(* invariant must say in which order they do: a look-up of a name is       *)
(* turned down by a rule behind those that let it pass, also where a later *)
(* up() has added to the chains of an earlier one.                         *)
(***************************************************************************)

\* The rules by name.
CtRule == Rule([mark |-> {FwMark}], "ctmark")
ServerMark == Lookup("mark")
AnswerMark == Rule([ct |-> {FwMark}], "mark")
Isolate == Rule([iface |-> Ifaces \ {"moz0"}, addr |-> Addrs \ {"local6"},
                 to |-> {"tunnel"}], "drop")
OverIface(i) == Rule([iface |-> {i}], "accept")
OfServer == Lookup("accept")
Marked == Rule([mark |-> {FwMark}], "accept")
Prefix(addrs) == Rule([addr |-> addrs], "accept")
Leased == Rule([proto |-> {"udp"}, svc |-> {"68to67"}, addr |-> {"broadcast4"}], "accept")
Dhcp(s) == Rule([proto |-> {"udp"}, svc |-> {s}], "accept")
Icmp(s, to) == Rule([proto |-> {"icmp6"}, svc |-> s, addr |-> to], "accept")
NoDns == Rule([proto |-> {"udp", "tcp"}, svc |-> {"dns"}], "reject")

AllRouters == {"ra", "ns", "na", "redirect"}

\* Which packets a rule matches.
LEMMA MatchFacts ==
  ASSUME NEW p
  PROVE  /\ Matches(CtRule, p) <=> p.mark = FwMark
         /\ Matches(ServerMark, p) <=> p.proto = "udp" /\ p.addr \in addrset
         /\ Matches(AnswerMark, p) <=> p.ct = FwMark
         /\ Matches(Isolate, p) <=>
              p.iface \in Ifaces \ {"moz0"} /\ p.addr \in Addrs \ {"local6"} /\ p.to = "tunnel"
         /\ \A i : Matches(OverIface(i), p) <=> p.iface = i
         /\ Matches(OfServer, p) <=> p.proto = "udp" /\ p.addr \in addrset
         /\ Matches(Marked, p) <=> p.mark = FwMark
         /\ \A a : Matches(Prefix(a), p) <=> p.addr \in a
         /\ Matches(Leased, p) <=> p.proto = "udp" /\ p.svc = "68to67" /\ p.addr = "broadcast4"
         /\ \A s : Matches(Dhcp(s), p) <=> p.proto = "udp" /\ p.svc = s
         /\ \A s, to : Matches(Icmp(s, to), p) <=> p.proto = "icmp6" /\ p.svc \in s /\ p.addr \in to
         /\ Matches(NoDns, p) <=> p.proto \in {"udp", "tcp"} /\ p.svc = "dns"
<1>1. Matches(CtRule, p) <=> p.mark = FwMark
  BY DEF Matches, CtRule, Rule
<1>2. Matches(ServerMark, p) <=> p.proto = "udp" /\ p.addr \in addrset
  BY DEF Matches, ServerMark, Lookup
<1>3. Matches(AnswerMark, p) <=> p.ct = FwMark
  BY DEF Matches, AnswerMark, Rule
<1>4. Matches(Isolate, p) <=>
        p.iface \in Ifaces \ {"moz0"} /\ p.addr \in Addrs \ {"local6"} /\ p.to = "tunnel"
  BY DEF Matches, Isolate, Rule
<1>5. \A i : Matches(OverIface(i), p) <=> p.iface = i
  BY DEF Matches, OverIface, Rule
<1>6. Matches(OfServer, p) <=> p.proto = "udp" /\ p.addr \in addrset
  BY DEF Matches, OfServer, Lookup
<1>7. Matches(Marked, p) <=> p.mark = FwMark
  BY DEF Matches, Marked, Rule
<1>8. \A a : Matches(Prefix(a), p) <=> p.addr \in a
  BY DEF Matches, Prefix, Rule
<1>9. Matches(Leased, p) <=> p.proto = "udp" /\ p.svc = "68to67" /\ p.addr = "broadcast4"
  BY DEF Matches, Leased, Rule
<1>10. \A s : Matches(Dhcp(s), p) <=> p.proto = "udp" /\ p.svc = s
  BY DEF Matches, Dhcp, Rule
<1>11. \A s, to : Matches(Icmp(s, to), p) <=> p.proto = "icmp6" /\ p.svc \in s /\ p.addr \in to
  BY DEF Matches, Icmp, Rule
<1>12. Matches(NoDns, p) <=> p.proto \in {"udp", "tcp"} /\ p.svc = "dns"
  BY DEF Matches, NoDns, Rule
<1> QED BY <1>1, <1>2, <1>3, <1>4, <1>5, <1>6, <1>7, <1>8, <1>9, <1>10, <1>11, <1>12

\* What a rule does.
LEMMA ActFacts ==
  /\ CtRule.act = "ctmark" /\ ServerMark.act = "mark" /\ AnswerMark.act = "mark"
  /\ Isolate.act = "drop" /\ OfServer.act = "accept" /\ Marked.act = "accept"
  /\ Leased.act = "accept" /\ NoDns.act = "reject"
  /\ \A x : OverIface(x).act = "accept" /\ Prefix(x).act = "accept" /\ Dhcp(x).act = "accept"
  /\ \A s, to : Icmp(s, to).act = "accept"
BY DEF CtRule, ServerMark, AnswerMark, Isolate, OfServer, Marked, Leased, NoDns, OverIface,
   Prefix, Dhcp, Icmp, Rule, Lookup

-----------------------------------------------------------------------------
(* Chains.                                                                 *)

Protos == {"udp", "tcp", "icmp6"}
Services == {"dns", "other", "68to67", "67to68", "rs", "ns", "na", "ra", "redirect"}

Packet ==
  [proto : Protos, svc : Services,
   addr : Addrs, iface : Ifaces, group : Groups \cup {NoGroup},
   mark : {NoMark, FwMark}, ct : {NoMark, FwMark}, to : {"host", "tunnel"},
   verdict : {"none"} \cup Deciding]

\* The rules a chain may hold.
AcceptIn ==
  {OverIface("lo"), OverIface("moz0"), OfServer, Marked, Prefix(Lan4), Prefix(Lan6), Leased,
   Dhcp("68to67"), Icmp(AllRouters, Addrs)}
AcceptOut ==
  {OverIface("lo"), OverIface("moz0"), OfServer, Marked, Prefix(Lan4), Prefix(Lan6), Leased,
   Dhcp("67to68"), Icmp({"rs"}, {"routers6"}), Icmp({"ns"}, {"solicited6"}),
   Icmp({"ns"}, {"linklocal6"}), Icmp({"na"}, {"linklocal6"})}

ChainRules ==
  [conntrack |-> {CtRule}, preroute |-> {ServerMark, AnswerMark, Isolate},
   input |-> AcceptIn, output |-> AcceptOut \cup {NoDns}]

\* In x every chain holds its rules only.
Typed(x) == DOMAIN x = ChainNames /\ \A c \in ChainNames : x[c] \in Seq(ChainRules[c])

Holds(x, c, r) == \E i \in DOMAIN x[c] : x[c][i] = r

\* What names are looked up with beside the rules: it comes before its rejection.
Before == {OverIface("lo"), OverIface("moz0"), Marked, Prefix(Lan4), Prefix(Lan6)}

RejectsLast(x) ==
  \A i \in DOMAIN x["output"] : x["output"][i] = NoDns =>
    \A r \in Before : \E j \in DOMAIN x["output"] : j < i /\ x["output"][j] = r

\* The rule at position i ends chain c for packet p.
Ending(c, i, p) == Matches(chains[c][i], p) /\ chains[c][i].act \in Deciding

\* What the rules of a chain do that match packet p.
Deeds(c, p) == {chains[c][i].act : i \in {j \in DOMAIN chains[c] : Matches(chains[c][j], p)}}

\* The first rule that decides ends a chain, or its policy does.
LEMMA ChainDecides ==
  ASSUME NEW c \in ChainNames, Typed(chains), NEW p \in Packet, p.verdict = "none"
  PROVE  /\ (\E i \in DOMAIN chains[c] : Ending(c, i, p)) =>
              \E i \in DOMAIN chains[c] :
                /\ Ending(c, i, p) /\ \A j \in DOMAIN chains[c] : j < i => ~Ending(c, j, p)
                /\ Through(c, p).verdict = IF chains[c][i].act = "accept" /\ c \notin Filters
                                           THEN "none" ELSE chains[c][i].act
         /\ ~(\E i \in DOMAIN chains[c] : Ending(c, i, p)) =>
              Through(c, p).verdict = IF c \in Filters THEN "drop" ELSE "none"
<1> DEFINE rules == chains[c]
           hits == {i \in DOMAIN rules : Matches(rules[i], p)}
           ends == {i \in hits : rules[i].act \in Deciding}
           end == IF ends # {} THEN rules[Min(ends)].act
                  ELSE IF c \in Filters THEN "drop" ELSE "none"
<1>1. rules \in Seq(ChainRules[c])
  BY DEF Typed
<1>2. ends \subseteq Nat
  BY <1>1
<1>3. Through(c, p).verdict = IF end = "accept" /\ c \notin Filters THEN "none" ELSE end
  BY DEF Through, Packet
<1>4. ends # {} => Min(ends) \in ends /\ \A y \in ends : Min(ends) <= y
  <2> HIDE DEF ends
  <2> QED BY <1>2, MinOf
<1>5. ends = {i \in DOMAIN rules : Ending(c, i, p)}
  BY DEF Ending
<1>6. CASE ends # {}
  <2> DEFINE m == Min(ends)
  <2>1. m \in ends /\ \A y \in ends : m <= y
    BY <1>4, <1>6
  <2>2. Through(c, p).verdict = IF rules[m].act = "accept" /\ c \notin Filters
                                THEN "none" ELSE rules[m].act
    BY <1>3, <1>6
  <2>3. ASSUME NEW j \in DOMAIN rules, j < m PROVE j \notin ends
    <3>1. m \in Nat /\ j \in Nat
      BY <2>1, <1>1, <1>2
    <3> HIDE DEF m, ends
    <3> QED BY <3>1, <2>1, <2>3
  <2> HIDE DEF m, ends
  <2> QED BY <2>1, <2>2, <2>3, <1>5
<1>7. CASE ends = {}
  <2>1. Through(c, p).verdict = IF c \in Filters THEN "drop" ELSE "none"
    BY <1>3, <1>7
  <2> QED BY <2>1, <1>5, <1>7
<1> QED BY <1>6, <1>7

\* A chain leaves the packet what it is, but for its marks.
LEMMA ChainKeeps ==
  ASSUME NEW c \in ChainNames, NEW p \in Packet, p.verdict = "none"
  PROVE  /\ Through(c, p).proto = p.proto /\ Through(c, p).svc = p.svc
         /\ Through(c, p).addr = p.addr /\ Through(c, p).iface = p.iface
         /\ Through(c, p).group = p.group /\ Through(c, p).to = p.to
         /\ Through(c, p).mark \in {p.mark, FwMark} /\ Through(c, p).ct \in {p.ct, FwMark}
         /\ "mark" \notin Deeds(c, p) => Through(c, p).mark = p.mark
         /\ "ctmark" \notin Deeds(c, p) => Through(c, p).ct = p.ct
         /\ Deeds(c, p) \cap Deciding = {} /\ "mark" \in Deeds(c, p) => Through(c, p).mark = FwMark
         /\ Deeds(c, p) \cap Deciding = {} /\ "ctmark" \in Deeds(c, p) => Through(c, p).ct = FwMark
<1> DEFINE rules == chains[c]
           hits == {i \in DOMAIN rules : Matches(rules[i], p)}
           ends == {i \in hits : rules[i].act \in Deciding}
           acts == {rules[i].act : i \in {j \in hits : \A k \in ends : j < k}}
           q == Through(c, p)
<1>1. /\ q.proto = p.proto /\ q.svc = p.svc /\ q.addr = p.addr /\ q.iface = p.iface
      /\ q.group = p.group /\ q.to = p.to
      /\ q.mark = IF "mark" \in acts THEN FwMark ELSE p.mark
      /\ q.ct = IF "ctmark" \in acts THEN FwMark ELSE p.ct
  BY DEF Through, Packet
<1>2. acts \subseteq Deeds(c, p) /\ (Deeds(c, p) \cap Deciding = {} => acts = Deeds(c, p))
  BY DEF Deeds
<1> HIDE DEF acts
<1> QED BY <1>1, <1>2

\* What comes out of a chain is a packet.
LEMMA ChainTyped ==
  ASSUME NEW c \in ChainNames, Typed(chains), NEW p \in Packet, p.verdict = "none"
  PROVE  Through(c, p) \in Packet
<1>1. Through(c, p) = [p EXCEPT !.mark = Through(c, p).mark, !.ct = Through(c, p).ct,
                                !.verdict = Through(c, p).verdict]
  BY DEF Through, Packet
<1>2. Through(c, p).mark \in {NoMark, FwMark} /\ Through(c, p).ct \in {NoMark, FwMark}
  BY ChainKeeps DEF Packet
<1>3. Through(c, p).verdict \in {"none"} \cup Deciding
  BY ChainDecides DEF Ending, Deciding
<1> HIDE DEF Packet
<1> DEFINE m == Through(c, p).mark
           t == Through(c, p).ct
           v == Through(c, p).verdict
<1>4. m \in {NoMark, FwMark} /\ t \in {NoMark, FwMark} /\ v \in {"none"} \cup Deciding
  BY <1>2, <1>3
<1> HIDE DEF m, t, v
<1>5. [p EXCEPT !.mark = m, !.ct = t, !.verdict = v] \in Packet
  BY <1>4 DEF Packet
<1> QED BY <1>1, <1>5 DEF m, t, v

\* Rules of the filters that let packets pass.
LEMMA AcceptActs == \A r \in AcceptIn \cup AcceptOut : r.act = "accept"
BY ActFacts DEF AcceptIn, AcceptOut

LEMMA BeforeAccepts == Before \subseteq AcceptIn /\ Before \subseteq AcceptOut
BY DEF Before, AcceptIn, AcceptOut

\* A rule that lets a packet out does so, unless it is a look-up of a name that
\* is turned down before.
LEMMA OutAccepts ==
  ASSUME Typed(chains), RejectsLast(chains), NEW p \in Packet, p.verdict = "none",
         NEW r \in AcceptOut, Holds(chains, "output", r), Matches(r, p),
         r \in Before \/ ~Matches(NoDns, p)
  PROVE  Through("output", p).verdict = "accept"
<1> DEFINE rules == chains["output"]
<1>1. rules \in Seq(AcceptOut \cup {NoDns})
  BY DEF Typed, ChainNames, ChainRules
<1>2. \A i \in DOMAIN rules : rules[i] \in AcceptOut \cup {NoDns}
  BY <1>1
<1>3. r.act = "accept"
  BY AcceptActs
<1>4. PICK k \in DOMAIN rules : rules[k] = r
  BY DEF Holds
<1>5. Ending("output", k, p)
  BY <1>3, <1>4 DEF Ending, Deciding
<1>6. "output" \in ChainNames /\ "output" \in Filters
  BY DEF ChainNames, Filters
<1>7. PICK i \in DOMAIN rules :
        /\ Ending("output", i, p) /\ \A j \in DOMAIN rules : j < i => ~Ending("output", j, p)
        /\ Through("output", p).verdict = IF rules[i].act = "accept" /\ "output" \notin Filters
                                          THEN "none" ELSE rules[i].act
  BY <1>5, <1>6, ChainDecides
<1>8. rules[i] # NoDns
  <2> SUFFICES ASSUME rules[i] = NoDns PROVE FALSE
    OBVIOUS
  <2>1. Matches(NoDns, p)
    BY <1>7 DEF Ending
  <2>2. PICK j \in DOMAIN rules : j < i /\ rules[j] = r
    BY <2>1 DEF RejectsLast
  <2>3. Ending("output", j, p)
    BY <2>2, <1>3 DEF Ending, Deciding
  <2> QED BY <2>2, <2>3, <1>7
<1>9. rules[i].act = "accept"
  BY <1>2, <1>8, AcceptActs
<1> QED BY <1>6, <1>7, <1>9

\* A packet that no rule lets out stays, and a look-up is turned down.
LEMMA OutStops ==
  ASSUME Typed(chains), NEW p \in Packet, p.verdict = "none",
         \A r \in AcceptOut : Holds(chains, "output", r) => ~Matches(r, p)
  PROVE  /\ Through("output", p).verdict \in {"drop", "reject"}
         /\ Holds(chains, "output", NoDns) /\ Matches(NoDns, p)
              => Through("output", p).verdict = "reject"
<1> DEFINE rules == chains["output"]
<1>1. rules \in Seq(AcceptOut \cup {NoDns})
  BY DEF Typed, ChainNames, ChainRules
<1>2. \A i \in DOMAIN rules : rules[i] \in AcceptOut \cup {NoDns}
  BY <1>1
<1>3. \A i \in DOMAIN rules : Ending("output", i, p) => rules[i] = NoDns
  BY <1>2 DEF Ending, Holds
<1>4. "output" \in ChainNames /\ "output" \in Filters
  BY DEF ChainNames, Filters
<1>5. NoDns.act = "reject"
  BY ActFacts
<1>6. CASE \E i \in DOMAIN rules : Ending("output", i, p)
  <2>1. PICK i \in DOMAIN rules :
          /\ Ending("output", i, p)
          /\ Through("output", p).verdict = IF rules[i].act = "accept" /\ "output" \notin Filters
                                            THEN "none" ELSE rules[i].act
    BY <1>4, <1>6, ChainDecides
  <2>2. rules[i].act = "reject"
    BY <2>1, <1>3, <1>5
  <2> QED BY <2>1, <2>2
<1>7. CASE ~\E i \in DOMAIN rules : Ending("output", i, p)
  <2>1. Through("output", p).verdict = "drop"
    BY <1>4, <1>7, ChainDecides
  <2>2. ~(Holds(chains, "output", NoDns) /\ Matches(NoDns, p))
    BY <1>5, <1>7 DEF Holds, Ending, Deciding
  <2> QED BY <2>1, <2>2
<1> QED BY <1>6, <1>7

\* Every rule of the input chain lets packets in.
LEMMA InAccepts ==
  ASSUME Typed(chains), NEW p \in Packet, p.verdict = "none",
         NEW r \in AcceptIn, Holds(chains, "input", r), Matches(r, p)
  PROVE  Through("input", p).verdict = "accept"
<1> DEFINE rules == chains["input"]
<1>1. rules \in Seq(AcceptIn)
  BY DEF Typed, ChainNames, ChainRules
<1>2. \A i \in DOMAIN rules : rules[i].act = "accept"
  BY <1>1, AcceptActs
<1>3. PICK k \in DOMAIN rules : rules[k] = r
  BY DEF Holds
<1>4. Ending("input", k, p)
  BY <1>2, <1>3 DEF Ending, Deciding
<1>5. "input" \in ChainNames /\ "input" \in Filters
  BY DEF ChainNames, Filters
<1>6. PICK i \in DOMAIN rules :
        /\ Ending("input", i, p)
        /\ Through("input", p).verdict = IF rules[i].act = "accept" /\ "input" \notin Filters
                                         THEN "none" ELSE rules[i].act
  BY <1>4, <1>5, ChainDecides
<1> QED BY <1>2, <1>5, <1>6

\* The connection of a marked packet is marked.
LEMMA ConntrackSets ==
  ASSUME Typed(chains), NEW p \in Packet, p.verdict = "none"
  PROVE  /\ Through("conntrack", p).verdict = "none"
         /\ Through("conntrack", p).mark = p.mark
         /\ Holds(chains, "conntrack", CtRule) /\ p.mark = FwMark
              => Through("conntrack", p).ct = FwMark
<1> DEFINE rules == chains["conntrack"]
<1>1. rules \in Seq({CtRule})
  BY DEF Typed, ChainNames, ChainRules
<1>2. \A i \in DOMAIN rules : rules[i] = CtRule /\ rules[i].act = "ctmark"
  BY <1>1, ActFacts
<1>3. "conntrack" \in ChainNames /\ "conntrack" \notin Filters
  BY DEF ChainNames, Filters
<1>4. \A i \in DOMAIN rules : ~Ending("conntrack", i, p)
  BY <1>2 DEF Ending, Deciding
<1>5. Through("conntrack", p).verdict = "none"
  BY <1>3, <1>4, ChainDecides
<1>6. Deeds("conntrack", p) \subseteq {"ctmark"}
  BY <1>2 DEF Deeds
<1>7. Deeds("conntrack", p) \cap Deciding = {} /\ "mark" \notin Deeds("conntrack", p)
  BY <1>6 DEF Deciding
<1>8. Holds(chains, "conntrack", CtRule) /\ p.mark = FwMark => "ctmark" \in Deeds("conntrack", p)
  BY <1>2, MatchFacts DEF Holds, Deeds
<1> QED BY <1>3, <1>5, <1>7, <1>8, ChainKeeps

\* What is not kept from the tunnel's address goes on, marked if it is an answer.
LEMMA PrerouteMarks ==
  ASSUME Typed(chains), NEW p \in Packet, p.verdict = "none", ~Matches(Isolate, p)
  PROVE  /\ Through("preroute", p).verdict = "none"
         /\ \A r \in {ServerMark, AnswerMark} :
              Holds(chains, "preroute", r) /\ Matches(r, p) => Through("preroute", p).mark = FwMark
<1> DEFINE rules == chains["preroute"]
<1>1. rules \in Seq({ServerMark, AnswerMark, Isolate})
  BY DEF Typed, ChainNames, ChainRules
<1>2. \A i \in DOMAIN rules : rules[i] \in {ServerMark, AnswerMark} \/ rules[i] = Isolate
  BY <1>1
<1>3. "preroute" \in ChainNames /\ "preroute" \notin Filters
  BY DEF ChainNames, Filters
<1>4. \A i \in DOMAIN rules : Matches(rules[i], p) => rules[i].act = "mark"
  BY <1>2, ActFacts
<1>5. \A i \in DOMAIN rules : ~Ending("preroute", i, p)
  BY <1>4 DEF Ending, Deciding
<1>6. Through("preroute", p).verdict = "none"
  BY <1>3, <1>5, ChainDecides
<1>7. Deeds("preroute", p) \subseteq {"mark"}
  BY <1>4 DEF Deeds
<1>8. Deeds("preroute", p) \cap Deciding = {}
  BY <1>7 DEF Deciding
<1>9. ASSUME NEW r \in {ServerMark, AnswerMark}, Holds(chains, "preroute", r), Matches(r, p)
      PROVE  "mark" \in Deeds("preroute", p)
  BY <1>4, <1>9 DEF Holds, Deeds
<1> QED BY <1>3, <1>6, <1>8, <1>9, ChainKeeps

\* The tunnel's address is kept from others.
LEMMA PrerouteStops ==
  ASSUME Typed(chains), NEW p \in Packet, p.verdict = "none", Matches(Isolate, p),
         Holds(chains, "preroute", Isolate)
  PROVE  Through("preroute", p).verdict = "drop"
<1> DEFINE rules == chains["preroute"]
<1>1. rules \in Seq({ServerMark, AnswerMark, Isolate})
  BY DEF Typed, ChainNames, ChainRules
<1>2. \A i \in DOMAIN rules : rules[i].act \in Deciding => rules[i].act = "drop"
  BY <1>1, ActFacts DEF Deciding
<1>3. "preroute" \in ChainNames
  BY DEF ChainNames
<1>4. \E i \in DOMAIN rules : Ending("preroute", i, p)
  BY ActFacts DEF Holds, Ending, Deciding
<1>5. PICK i \in DOMAIN rules :
        /\ Ending("preroute", i, p)
        /\ Through("preroute", p).verdict = IF rules[i].act = "accept" /\ "preroute" \notin Filters
                                            THEN "none" ELSE rules[i].act
  BY <1>3, <1>4, ChainDecides
<1>6. rules[i].act = "drop"
  BY <1>2, <1>5 DEF Ending
<1> QED BY <1>5, <1>6

-----------------------------------------------------------------------------
(* Hooks.                                                                  *)

\* The packets x and y differ in their marks and verdict at most.
SameTraffic(x, y) ==
  /\ x.proto = y.proto /\ x.svc = y.svc /\ x.addr = y.addr /\ x.iface = y.iface
  /\ x.group = y.group /\ x.to = y.to

\* The rules that let packets out do not look at the connection.
LEMMA OutMatches ==
  ASSUME NEW x, NEW y, SameTraffic(x, y), x.mark = y.mark, NEW r \in AcceptOut \cup {NoDns}
  PROVE  Matches(r, x) <=> Matches(r, y)
<1>1. CASE r \in {OverIface("lo"), OverIface("moz0"), OfServer, Marked, NoDns}
  BY <1>1, MatchFacts DEF SameTraffic
<1>2. CASE r \in {Prefix(Lan4), Prefix(Lan6), Leased, Dhcp("67to68")}
  BY <1>2, MatchFacts DEF SameTraffic
<1>3. CASE r \in {Icmp({"rs"}, {"routers6"}), Icmp({"ns"}, {"solicited6"}),
                  Icmp({"ns"}, {"linklocal6"}), Icmp({"na"}, {"linklocal6"})}
  BY <1>3, MatchFacts DEF SameTraffic
<1> QED BY <1>1, <1>2, <1>3 DEF AcceptOut

\* A packet that is accepted by one of these rules is so when it has got a mark.
LEMMA InMatches ==
  ASSUME NEW x, NEW y, SameTraffic(x, y), x.mark \in {y.mark, FwMark}, NEW r \in AcceptIn,
         Matches(r, y)
  PROVE  Matches(r, x)
<1>1. CASE r \in {OverIface("lo"), OverIface("moz0"), OfServer, Marked}
  BY <1>1, MatchFacts DEF SameTraffic
<1>2. CASE r \in {Prefix(Lan4), Prefix(Lan6), Leased, Dhcp("68to67"), Icmp(AllRouters, Addrs)}
  BY <1>2, MatchFacts DEF SameTraffic
<1> QED BY <1>1, <1>2 DEF AcceptIn

\* A packet's group may mark it.
LEMMA GroupMarks ==
  ASSUME NEW p \in Packet
  PROVE  /\ nftMarkCgroup2xt(p) \in Packet /\ SameTraffic(nftMarkCgroup2xt(p), p)
         /\ nftMarkCgroup2xt(p).verdict = p.verdict
         /\ nftMarkCgroup2xt(p).mark =
              IF p.group # NoGroup /\ groupRules[p.group] > 0 /\ p.iface # "lo"
              THEN FwMark ELSE p.mark
BY DEF nftMarkCgroup2xt, Packet, SameTraffic, FwMark, NoMark

\* What becomes of a packet before the output chain.
LEMMA BeforeOutput ==
  ASSUME Typed(chains), NEW p \in Packet, p.verdict = "none", NEW x,
         x = Through("conntrack", nftMarkCgroup2xt(p))
  PROVE  /\ x \in Packet /\ x.verdict = "none" /\ SameTraffic(x, p)
         /\ x.mark = nftMarkCgroup2xt(p).mark
         /\ Holds(chains, "conntrack", CtRule) /\ x.mark = FwMark => x.ct = FwMark
<1> DEFINE q == nftMarkCgroup2xt(p)
<1>1. q \in Packet /\ q.verdict = "none" /\ SameTraffic(q, p)
  BY GroupMarks
<1>2. "conntrack" \in ChainNames
  BY DEF ChainNames
<1>3. x \in Packet /\ SameTraffic(x, q)
  BY <1>1, <1>2, ChainTyped, ChainKeeps DEF SameTraffic
<1>4. /\ x.verdict = "none" /\ x.mark = q.mark
      /\ Holds(chains, "conntrack", CtRule) /\ q.mark = FwMark => x.ct = FwMark
  BY <1>1, ConntrackSets
<1> QED BY <1>1, <1>3, <1>4 DEF SameTraffic

\* The output chain sets no mark.
LEMMA OutputKeeps ==
  ASSUME Typed(chains), NEW x \in Packet, x.verdict = "none"
  PROVE  /\ Through("output", x) \in Packet /\ SameTraffic(Through("output", x), x)
         /\ Through("output", x).mark = x.mark /\ Through("output", x).ct = x.ct
<1> DEFINE rules == chains["output"]
<1>1. rules \in Seq(AcceptOut \cup {NoDns})
  BY DEF Typed, ChainNames, ChainRules
<1>2. \A i \in DOMAIN rules : rules[i].act \in {"accept", "reject"}
  BY <1>1, AcceptActs, ActFacts
<1>3. Deeds("output", x) \subseteq {"accept", "reject"}
  BY <1>2 DEF Deeds
<1>4. "mark" \notin Deeds("output", x) /\ "ctmark" \notin Deeds("output", x)
  BY <1>3
<1>5. "output" \in ChainNames
  BY DEF ChainNames
<1> QED BY <1>4, <1>5, ChainTyped, ChainKeeps DEF SameTraffic

\* What is sent keeps what it is; its mark is the one of its group.
LEMMA SentKeeps ==
  ASSUME table, Typed(chains), NEW p \in Packet, p.verdict = "none"
  PROVE  /\ Sent(p) \in Packet /\ SameTraffic(Sent(p), p)
         /\ Sent(p).mark = nftMarkCgroup2xt(p).mark
         /\ Holds(chains, "conntrack", CtRule) /\ Sent(p).mark = FwMark => Sent(p).ct = FwMark
<1> DEFINE x == Through("conntrack", nftMarkCgroup2xt(p))
<1>1. /\ x \in Packet /\ x.verdict = "none" /\ SameTraffic(x, p)
      /\ x.mark = nftMarkCgroup2xt(p).mark
      /\ Holds(chains, "conntrack", CtRule) /\ x.mark = FwMark => x.ct = FwMark
  BY BeforeOutput
<1>2. Sent(p) = Through("output", x)
  BY DEF Sent, OutputHook
<1> HIDE DEF x
<1>3. /\ Sent(p) \in Packet /\ SameTraffic(Sent(p), x) /\ Sent(p).mark = x.mark /\ Sent(p).ct = x.ct
  BY <1>1, <1>2, OutputKeeps
<1> QED BY <1>1, <1>3 DEF SameTraffic

\* A rule of the output chain lets a packet out.
LEMMA SentPasses ==
  ASSUME table, Typed(chains), RejectsLast(chains), NEW p \in Packet, p.verdict = "none",
         NEW r \in AcceptOut, Holds(chains, "output", r), Matches(r, nftMarkCgroup2xt(p)),
         r \in Before \/ ~Matches(NoDns, p)
  PROVE  Passes(Sent(p))
<1> DEFINE q == nftMarkCgroup2xt(p)
           x == Through("conntrack", q)
<1>1. /\ x \in Packet /\ x.verdict = "none" /\ SameTraffic(x, p) /\ x.mark = q.mark
  BY BeforeOutput
<1>2. SameTraffic(q, p)
  BY GroupMarks
<1>3. Sent(p) = Through("output", x)
  BY DEF Sent, OutputHook
<1> HIDE DEF x, q
<1>4. SameTraffic(x, q)
  BY <1>1, <1>2 DEF SameTraffic
<1>5. Matches(r, x)
  BY <1>1, <1>4, OutMatches DEF q
<1>6. Matches(NoDns, x) <=> Matches(NoDns, p)
  BY <1>1, MatchFacts DEF SameTraffic
<1> QED BY <1>1, <1>3, <1>5, <1>6, OutAccepts DEF Passes

\* A packet that no rule lets out is not sent.
LEMMA SentStops ==
  ASSUME table, Typed(chains), NEW p \in Packet, p.verdict = "none",
         \A r \in AcceptOut : ~Matches(r, nftMarkCgroup2xt(p))
  PROVE  /\ ~Passes(Sent(p))
         /\ Holds(chains, "output", NoDns) /\ Matches(NoDns, p) => Sent(p).verdict = "reject"
<1> DEFINE q == nftMarkCgroup2xt(p)
           x == Through("conntrack", q)
<1>1. /\ x \in Packet /\ x.verdict = "none" /\ SameTraffic(x, p) /\ x.mark = q.mark
  BY BeforeOutput
<1>2. SameTraffic(q, p)
  BY GroupMarks
<1>3. Sent(p) = Through("output", x)
  BY DEF Sent, OutputHook
<1> HIDE DEF x, q
<1>4. SameTraffic(x, q)
  BY <1>1, <1>2 DEF SameTraffic
<1>5. \A r \in AcceptOut : ~Matches(r, x)
  BY <1>1, <1>4, OutMatches DEF q
<1>6. Matches(NoDns, x) <=> Matches(NoDns, p)
  BY <1>1, MatchFacts DEF SameTraffic
<1> QED BY <1>1, <1>3, <1>5, <1>6, OutStops DEF Passes

\* What is not for the tunnel's address is let in by a rule, be it because of the
\* mark it gets.
LEMMA ReceivedPasses ==
  ASSUME table, Typed(chains), NEW p \in Packet, p.verdict = "none", ~Matches(Isolate, p)
  PROVE  /\ \A r \in {ServerMark, AnswerMark} :
              Holds(chains, "preroute", r) /\ Matches(r, p) =>
                /\ Received(p).mark = FwMark
                /\ Holds(chains, "input", Marked) => Passes(Received(p))
         /\ \A r \in AcceptIn : Holds(chains, "input", r) /\ Matches(r, p) => Passes(Received(p))
<1> DEFINE x == Through("preroute", p)
<1>1. "preroute" \in ChainNames /\ "input" \in ChainNames
  BY DEF ChainNames
<1>2. x \in Packet /\ SameTraffic(x, p) /\ x.mark \in {p.mark, FwMark}
  BY <1>1, ChainTyped, ChainKeeps DEF SameTraffic
<1>3. /\ x.verdict = "none"
      /\ \A r \in {ServerMark, AnswerMark} :
           Holds(chains, "preroute", r) /\ Matches(r, p) => x.mark = FwMark
  BY PrerouteMarks
<1>4. Received(p) = Through("input", x)
  BY DEF Received, InputHook
<1> HIDE DEF x
<1>5. Received(p).mark \in {x.mark, FwMark}
  BY <1>1, <1>2, <1>3, <1>4, ChainKeeps
<1>6. Marked \in AcceptIn
  BY DEF AcceptIn
<1>7. x.mark = FwMark => Matches(Marked, x)
  BY MatchFacts
<1>8. ASSUME NEW r \in AcceptIn, Holds(chains, "input", r), Matches(r, x)
      PROVE  Passes(Received(p))
  BY <1>2, <1>3, <1>4, <1>8, InAccepts DEF Passes
<1>9. ASSUME NEW r \in AcceptIn, Matches(r, p) PROVE Matches(r, x)
  BY <1>2, <1>9, InMatches
<1> QED BY <1>3, <1>5, <1>6, <1>7, <1>8, <1>9

\* Nothing gets to the tunnel's address past it.
LEMMA ReceivedStops ==
  ASSUME table, Typed(chains), NEW p \in Packet, p.verdict = "none", Matches(Isolate, p),
         Holds(chains, "preroute", Isolate)
  PROVE  ~Passes(Received(p))
<1> DEFINE x == Through("preroute", p)
<1>1. x.verdict = "drop"
  BY PrerouteStops
<1>2. Through("input", x) = x
  BY <1>1 DEF Through
<1> QED BY <1>1, <1>2 DEF Received, InputHook, Passes

\* An answer is the packet again, without its mark.
LEMMA AnswerIs ==
  ASSUME NEW p \in Packet
  PROVE  /\ Answer(p) \in Packet /\ SameTraffic(Answer(p), p) /\ Answer(p).verdict = "none"
         /\ Answer(p).ct = p.ct
BY DEF Answer, Packet, SameTraffic, NoMark, Deciding

\* A packet that one rule lets out and one lets in as an answer is answered.
LEMMA AnsweredByRules ==
  ASSUME table, Typed(chains), RejectsLast(chains), NEW p \in Packet, p.verdict = "none",
         p.to = "host",
         NEW r \in AcceptOut, Holds(chains, "output", r), Matches(r, nftMarkCgroup2xt(p)),
         r \in Before \/ ~Matches(NoDns, p),
         NEW s \in AcceptIn \ {OfServer, Marked}, Holds(chains, "input", s), Matches(s, p)
  PROVE  Answered(p)
<1>1. Passes(Sent(p))
  BY SentPasses
<1> DEFINE a == Answer(Sent(p))
<1>2. a \in Packet /\ a.verdict = "none" /\ SameTraffic(a, p)
  BY SentKeeps, AnswerIs DEF SameTraffic
<1> HIDE DEF a
<1>3. ~Matches(Isolate, a)
  BY <1>2, MatchFacts DEF SameTraffic
<1>4. Matches(s, a)
  <2>1. CASE s \in {OverIface("lo"), OverIface("moz0"), Prefix(Lan4), Prefix(Lan6)}
    BY <1>2, <2>1, MatchFacts DEF SameTraffic
  <2>2. CASE s \in {Leased, Dhcp("68to67"), Icmp(AllRouters, Addrs)}
    BY <1>2, <2>2, MatchFacts DEF SameTraffic
  <2> QED BY <2>1, <2>2 DEF AcceptIn
<1>5. Passes(Received(a))
  BY <1>2, <1>3, <1>4, ReceivedPasses
<1> QED BY <1>1, <1>5 DEF Answered, a

\* A marked packet is answered.
LEMMA AnsweredByMark ==
  ASSUME table, Typed(chains), RejectsLast(chains), NEW p \in Packet, p.verdict = "none",
         p.to = "host", nftMarkCgroup2xt(p).mark = FwMark,
         Holds(chains, "output", Marked), Holds(chains, "conntrack", CtRule),
         Holds(chains, "preroute", AnswerMark), Holds(chains, "input", Marked)
  PROVE  Answered(p)
<1>1. Passes(Sent(p))
  <2>1. Marked \in Before /\ Marked \in AcceptOut
    BY DEF Before, AcceptOut
  <2>2. Matches(Marked, nftMarkCgroup2xt(p))
    BY MatchFacts
  <2> QED BY <2>1, <2>2, SentPasses
<1> DEFINE a == Answer(Sent(p))
<1>2. a \in Packet /\ a.verdict = "none" /\ SameTraffic(a, p) /\ a.ct = FwMark
  BY SentKeeps, AnswerIs DEF SameTraffic
<1> HIDE DEF a
<1>3. ~Matches(Isolate, a) /\ Matches(AnswerMark, a)
  BY <1>2, MatchFacts DEF SameTraffic
<1>4. Passes(Received(a))
  BY <1>2, <1>3, ReceivedPasses
<1> QED BY <1>1, <1>4 DEF Answered, a

-----------------------------------------------------------------------------
(* Commits.                                                                *)

\* An addition has rules for chains that may hold them.
Adds(a) == DOMAIN a \subseteq ChainNames /\ \A c \in DOMAIN a : a[c] \in Seq(ChainRules[c])

\* The rules of an addition are in x.
Held(x, a) == \A c \in DOMAIN a : \A i \in DOMAIN a[c] : Holds(x, c, a[c][i])

\* Both sequences of a concatenation are in it.
LEMMA ConcatParts ==
  ASSUME NEW S, NEW s \in Seq(S), NEW t \in Seq(S)
  PROVE  /\ s \o t \in Seq(S)
         /\ \A i \in DOMAIN s : i \in DOMAIN (s \o t) /\ (s \o t)[i] = s[i]
         /\ \A i \in DOMAIN t : Len(s) + i \in DOMAIN (s \o t) /\ (s \o t)[Len(s) + i] = t[i]
         /\ \A k \in DOMAIN (s \o t) :
              k \in DOMAIN s \/ \E i \in DOMAIN t : k = Len(s) + i
<1>1. /\ s \o t \in Seq(S) /\ Len(s) \in Nat /\ Len(t) \in Nat /\ Len(s \o t) = Len(s) + Len(t)
      /\ DOMAIN s = 1 .. Len(s) /\ DOMAIN t = 1 .. Len(t)
      /\ DOMAIN (s \o t) = 1 .. (Len(s) + Len(t))
  OBVIOUS
<1>2. \A i \in DOMAIN s : i \in DOMAIN (s \o t) /\ (s \o t)[i] = s[i]
  BY <1>1
<1>3. \A i \in DOMAIN t : Len(s) + i \in DOMAIN (s \o t) /\ (s \o t)[Len(s) + i] = t[i]
  BY <1>1
<1>4. ASSUME NEW k \in DOMAIN (s \o t), k \notin DOMAIN s
      PROVE  \E i \in DOMAIN t : k = Len(s) + i
  <2>1. k - Len(s) \in DOMAIN t /\ k = Len(s) + (k - Len(s))
    BY <1>1, <1>4
  <2> QED BY <2>1
<1> QED BY <1>1, <1>2, <1>3, <1>4

\* A commit keeps the rules in the chains and adds its own.
LEMMA JoinedHas ==
  ASSUME NEW x, NEW a, Typed(x), Adds(a)
  PROVE  /\ Typed(Joined(x, a))
         /\ \A r : \A c \in ChainNames : Holds(x, c, r) => Holds(Joined(x, a), c, r)
         /\ Held(Joined(x, a), a)
<1> DEFINE y == Joined(x, a)
<1>1. DOMAIN y = ChainNames
  BY DEF Joined
<1>2. ASSUME NEW c \in ChainNames
      PROVE  /\ y[c] \in Seq(ChainRules[c])
             /\ \A i \in DOMAIN x[c] : i \in DOMAIN y[c] /\ y[c][i] = x[c][i]
             /\ c \in DOMAIN a => \A i \in DOMAIN a[c] :
                  Len(x[c]) + i \in DOMAIN y[c] /\ y[c][Len(x[c]) + i] = a[c][i]
  <2>1. x[c] \in Seq(ChainRules[c])
    BY DEF Typed
  <2>2. CASE c \in DOMAIN a
    <3>1. a[c] \in Seq(ChainRules[c])
      BY <2>2 DEF Adds
    <3>2. y[c] = x[c] \o a[c]
      BY <2>2 DEF Joined
    <3> DEFINE s == x[c]
               t == a[c]
               S == ChainRules[c]
    <3>3. s \in Seq(S) /\ t \in Seq(S) /\ y[c] = s \o t
      BY <2>1, <3>1, <3>2
    <3> HIDE DEF s, t, S, y
    <3>4. /\ y[c] \in Seq(S)
          /\ \A i \in DOMAIN s : i \in DOMAIN y[c] /\ y[c][i] = s[i]
          /\ \A i \in DOMAIN t : Len(s) + i \in DOMAIN y[c] /\ y[c][Len(s) + i] = t[i]
      BY <3>3, ConcatParts
    <3> QED BY <3>4 DEF s, t, S
  <2>3. CASE c \notin DOMAIN a
    BY <2>1, <2>3 DEF Joined
  <2> QED BY <2>2, <2>3
<1> HIDE DEF y
<1>3. Typed(y)
  BY <1>1, <1>2 DEF Typed
<1>4. \A r : \A c \in ChainNames : Holds(x, c, r) => Holds(y, c, r)
  BY <1>2 DEF Holds
<1>5. Held(y, a)
  BY <1>2 DEF Held, Holds, Adds
<1> QED BY <1>3, <1>4, <1>5 DEF y

LEMMA JoinedHeld ==
  ASSUME NEW x, NEW a, NEW b, Typed(x), Adds(a), Adds(b), Held(x, b)
  PROVE  Held(Joined(x, a), b)
BY JoinedHas DEF Held, Adds

\* Look-ups of names are turned down after what lets them pass, if that was there
\* before.
LEMMA JoinedRejects ==
  ASSUME NEW x, NEW a, Typed(x), Adds(a), RejectsLast(x),
         \/ \A r \in Before : Holds(x, "output", r)
         \/ "output" \notin DOMAIN a
         \/ \A i \in DOMAIN a["output"] : a["output"][i] # NoDns
  PROVE  RejectsLast(Joined(x, a))
<1> DEFINE y == Joined(x, a)
<1>0. "output" \in ChainNames
  BY DEF ChainNames
<1>1. CASE "output" \notin DOMAIN a
  <2>1. y["output"] = x["output"]
    BY <1>0, <1>1 DEF Joined
  <2> QED BY <2>1 DEF RejectsLast
<1>2. CASE "output" \in DOMAIN a
  <2> DEFINE s == x["output"]
             t == a["output"]
             u == y["output"]
             S == ChainRules["output"]
  <2>1. s \in Seq(S) /\ t \in Seq(S) /\ u = s \o t
    BY <1>0, <1>2 DEF Typed, Adds, Joined
  <2>2. \/ \A r \in Before : \E i \in DOMAIN s : s[i] = r
        \/ \A i \in DOMAIN t : t[i] # NoDns
    BY <1>2 DEF Holds
  <2>3. \A i \in DOMAIN s : s[i] = NoDns => \A r \in Before : \E j \in DOMAIN s : j < i /\ s[j] = r
    BY DEF RejectsLast
  <2> HIDE DEF s, t, u, S
  <2>4. /\ \A i \in DOMAIN s : i \in DOMAIN u /\ u[i] = s[i]
        /\ \A i \in DOMAIN t : Len(s) + i \in DOMAIN u /\ u[Len(s) + i] = t[i]
        /\ \A k \in DOMAIN u : k \in DOMAIN s \/ \E i \in DOMAIN t : k = Len(s) + i
    BY <2>1, ConcatParts
  <2>5. ASSUME NEW i \in DOMAIN u, u[i] = NoDns, NEW r \in Before
        PROVE  \E j \in DOMAIN u : j < i /\ u[j] = r
    <3>1. CASE i \in DOMAIN s
      <4>1. PICK j \in DOMAIN s : j < i /\ s[j] = r
        BY <2>3, <2>4, <2>5, <3>1
      <4> QED BY <4>1, <2>4
    <3>2. CASE i \notin DOMAIN s
      <4>1. PICK k \in DOMAIN t : i = Len(s) + k
        BY <3>2, <2>4
      <4>2. t[k] = NoDns
        BY <4>1, <2>4, <2>5
      <4>3. PICK j \in DOMAIN s : s[j] = r
        BY <4>2, <2>2
      <4>4. j < i
        BY <4>1, <2>1
      <4> QED BY <4>3, <4>4, <2>4
    <3> QED BY <3>1, <3>2
  <2>6. RejectsLast(y)
    BY <2>5 DEF RejectsLast, u
  <2> QED BY <2>6
<1> QED BY <1>1, <1>2

\* The steps of up().
LEMMA StepsAre ==
  /\ DOMAIN UpSteps = 1 .. 8 /\ Len(UpSteps) = 8
  /\ UpSteps[1] = [conntrack |-> <<CtRule>>, preroute |-> <<ServerMark, AnswerMark>>]
  /\ UpSteps[2] = [c \in {"input", "output"} |->
                     <<OverIface("lo"), OverIface("moz0"), OfServer, Marked>>]
  /\ UpSteps[3] = [preroute |-> <<Isolate>>]
  /\ UpSteps[4] = [c \in {"input", "output"} |-> <<Prefix(Lan4)>>]
  /\ UpSteps[5] = [c \in {"input", "output"} |-> <<Prefix(Lan6)>>]
  /\ UpSteps[6] = [output |-> <<Leased, Dhcp("67to68")>>, input |-> <<Leased, Dhcp("68to67")>>]
  /\ UpSteps[7] = [output |-> <<Icmp({"rs"}, {"routers6"}), Icmp({"ns"}, {"solicited6"}),
                                Icmp({"ns"}, {"linklocal6"}), Icmp({"na"}, {"linklocal6"})>>,
                   input |-> <<Icmp(AllRouters, Addrs)>>]
  /\ UpSteps[8] = [output |-> <<NoDns>>]
<1>0. DOMAIN UpSteps = 1 .. 8 /\ Len(UpSteps) = 8
  BY DEF UpSteps
<1>1. UpSteps[1] = [conntrack |-> <<CtRule>>, preroute |-> <<ServerMark, AnswerMark>>]
  BY DEF UpSteps, nftApplyFwMark, CtRule, ServerMark, AnswerMark
<1>2. UpSteps[2] = [c \in {"input", "output"} |->
                      <<OverIface("lo"), OverIface("moz0"), OfServer, Marked>>]
  BY DEF UpSteps, nftRestrictTraffic, OverIface, OfServer, Marked
<1>3. UpSteps[3] = [preroute |-> <<Isolate>>]
  BY DEF UpSteps, NetfilterIsolateIpv6, Isolate
<1>4. UpSteps[4] = [c \in {"input", "output"} |-> <<Prefix(Lan4)>>]
  BY DEF UpSteps, NetfilterAllowPrefix, Prefix
<1>5. UpSteps[5] = [c \in {"input", "output"} |-> <<Prefix(Lan6)>>]
  BY DEF UpSteps, NetfilterAllowPrefix, Prefix
<1>6. UpSteps[6] = [output |-> <<Leased, Dhcp("67to68")>>, input |-> <<Leased, Dhcp("68to67")>>]
  BY DEF UpSteps, NetfilterAllowDHCP, Leased, Dhcp
<1>7. UpSteps[7] = [output |-> <<Icmp({"rs"}, {"routers6"}), Icmp({"ns"}, {"solicited6"}),
                                 Icmp({"ns"}, {"linklocal6"}), Icmp({"na"}, {"linklocal6"})>>,
                    input |-> <<Icmp(AllRouters, Addrs)>>]
  BY DEF UpSteps, NetfilterAllowNDP, Icmp, AllRouters
<1>8. UpSteps[8] = [output |-> <<NoDns>>]
  BY DEF UpSteps, NetfilterBlockDNS, NoDns
<1> QED BY <1>0, <1>1, <1>2, <1>3, <1>4, <1>5, <1>6, <1>7, <1>8

\* Every step adds rules to chains that may hold them, and only the last one turns
\* look-ups down.
LEMMA StepsAdd ==
  ASSUME NEW k \in 1 .. 8
  PROVE  /\ Adds(UpSteps[k])
         /\ k # 8 /\ "output" \in DOMAIN UpSteps[k] =>
              \A i \in DOMAIN UpSteps[k]["output"] : UpSteps[k]["output"][i] # NoDns
<1> DEFINE a == UpSteps[k]
<1>0. /\ ChainRules["conntrack"] = {CtRule}
      /\ ChainRules["preroute"] = {ServerMark, AnswerMark, Isolate}
      /\ ChainRules["input"] = AcceptIn /\ ChainRules["output"] = AcceptOut \cup {NoDns}
  BY DEF ChainRules
<1>1. \A r \in AcceptOut : r # NoDns
  BY AcceptActs, ActFacts
<1>2. CASE k = 1
  <2>1. a = [conntrack |-> <<CtRule>>, preroute |-> <<ServerMark, AnswerMark>>]
    BY <1>2, StepsAre
  <2> HIDE DEF a
  <2>3. /\ DOMAIN a = {"conntrack", "preroute"}
        /\ a["conntrack"] = <<CtRule>>
        /\ a["preroute"] = <<ServerMark, AnswerMark>>
    BY <2>1
  <2>4. /\ <<CtRule>> \in Seq({CtRule})
        /\ <<ServerMark, AnswerMark>> \in Seq({ServerMark, AnswerMark, Isolate})
    OBVIOUS
  <2>5. /\ DOMAIN a \subseteq ChainNames /\ \A c \in DOMAIN a : a[c] \in Seq(ChainRules[c])
        /\ "output" \in DOMAIN a => a["output"] \in Seq(AcceptOut)
    BY <2>3, <2>4, <1>0 DEF ChainNames
  <2> QED BY <2>5, <1>1 DEF Adds, a
<1>3. CASE k = 2
  <2>1. a = [c \in {"input", "output"} |->
               <<OverIface("lo"), OverIface("moz0"), OfServer, Marked>>]
    BY <1>3, StepsAre
  <2> HIDE DEF a
  <2>3. /\ DOMAIN a = {"input", "output"}
        /\ a["input"] = <<OverIface("lo"), OverIface("moz0"), OfServer, Marked>>
        /\ a["output"] = <<OverIface("lo"), OverIface("moz0"), OfServer, Marked>>
    BY <2>1
  <2>4. /\ <<OverIface("lo"), OverIface("moz0"), OfServer, Marked>> \in Seq(AcceptIn)
        /\ <<OverIface("lo"), OverIface("moz0"), OfServer, Marked>> \in Seq(AcceptOut \cup {NoDns})
        /\ <<OverIface("lo"), OverIface("moz0"), OfServer, Marked>> \in Seq(AcceptOut)
    BY DEF AcceptIn, AcceptOut
  <2>5. /\ DOMAIN a \subseteq ChainNames /\ \A c \in DOMAIN a : a[c] \in Seq(ChainRules[c])
        /\ "output" \in DOMAIN a => a["output"] \in Seq(AcceptOut)
    BY <2>3, <2>4, <1>0 DEF ChainNames
  <2> QED BY <2>5, <1>1 DEF Adds, a
<1>4. CASE k = 3
  <2>1. a = [preroute |-> <<Isolate>>]
    BY <1>4, StepsAre
  <2> HIDE DEF a
  <2>3. /\ DOMAIN a = {"preroute"}
        /\ a["preroute"] = <<Isolate>>
    BY <2>1
  <2>4. /\ <<Isolate>> \in Seq({ServerMark, AnswerMark, Isolate})
    OBVIOUS
  <2>5. /\ DOMAIN a \subseteq ChainNames /\ \A c \in DOMAIN a : a[c] \in Seq(ChainRules[c])
        /\ "output" \in DOMAIN a => a["output"] \in Seq(AcceptOut)
    BY <2>3, <2>4, <1>0 DEF ChainNames
  <2> QED BY <2>5, <1>1 DEF Adds, a
<1>5. CASE k \in {4, 5}
  <2>1. PICK l \in {Prefix(Lan4), Prefix(Lan6)} : a = [c \in {"input", "output"} |-> <<l>>]
    BY <1>5, StepsAre
  <2>2. l \in AcceptIn /\ l \in AcceptOut
    BY DEF AcceptIn, AcceptOut
  <2> HIDE DEF a
  <2>3. /\ DOMAIN a = {"input", "output"}
        /\ a["input"] = <<l>>
        /\ a["output"] = <<l>>
    BY <2>1
  <2>4. /\ <<l>> \in Seq(AcceptIn)
        /\ <<l>> \in Seq(AcceptOut \cup {NoDns})
        /\ <<l>> \in Seq(AcceptOut)
    BY <2>2
  <2>5. /\ DOMAIN a \subseteq ChainNames /\ \A c \in DOMAIN a : a[c] \in Seq(ChainRules[c])
        /\ "output" \in DOMAIN a => a["output"] \in Seq(AcceptOut)
    BY <2>3, <2>4, <1>0 DEF ChainNames
  <2> QED BY <2>5, <1>1 DEF Adds, a
<1>6. CASE k = 6
  <2>1. a = [output |-> <<Leased, Dhcp("67to68")>>, input |-> <<Leased, Dhcp("68to67")>>]
    BY <1>6, StepsAre
  <2> HIDE DEF a
  <2>3. /\ DOMAIN a = {"output", "input"}
        /\ a["output"] = <<Leased, Dhcp("67to68")>>
        /\ a["input"] = <<Leased, Dhcp("68to67")>>
    BY <2>1
  <2>4. /\ <<Leased, Dhcp("67to68")>> \in Seq(AcceptOut \cup {NoDns})
        /\ <<Leased, Dhcp("67to68")>> \in Seq(AcceptOut)
        /\ <<Leased, Dhcp("68to67")>> \in Seq(AcceptIn)
    BY DEF AcceptIn, AcceptOut
  <2>5. /\ DOMAIN a \subseteq ChainNames /\ \A c \in DOMAIN a : a[c] \in Seq(ChainRules[c])
        /\ "output" \in DOMAIN a => a["output"] \in Seq(AcceptOut)
    BY <2>3, <2>4, <1>0 DEF ChainNames
  <2> QED BY <2>5, <1>1 DEF Adds, a
<1>7. CASE k = 7
  <2>1. a = [output |-> <<Icmp({"rs"}, {"routers6"}), Icmp({"ns"}, {"solicited6"}),
                          Icmp({"ns"}, {"linklocal6"}), Icmp({"na"}, {"linklocal6"})>>,
             input |-> <<Icmp(AllRouters, Addrs)>>]
    BY <1>7, StepsAre
  <2> HIDE DEF a
  <2>3. /\ DOMAIN a = {"output", "input"}
        /\ a["output"] = <<Icmp({"rs"}, {"routers6"}), Icmp({"ns"}, {"solicited6"}),
                          Icmp({"ns"}, {"linklocal6"}), Icmp({"na"}, {"linklocal6"})>>
        /\ a["input"] = <<Icmp(AllRouters, Addrs)>>
    BY <2>1
  <2>4. /\ <<Icmp({"rs"}, {"routers6"}), Icmp({"ns"}, {"solicited6"}),
                          Icmp({"ns"}, {"linklocal6"}), Icmp({"na"}, {"linklocal6"})>> \in Seq(AcceptOut \cup {NoDns})
        /\ <<Icmp({"rs"}, {"routers6"}), Icmp({"ns"}, {"solicited6"}),
                          Icmp({"ns"}, {"linklocal6"}), Icmp({"na"}, {"linklocal6"})>> \in Seq(AcceptOut)
        /\ <<Icmp(AllRouters, Addrs)>> \in Seq(AcceptIn)
    BY DEF AcceptIn, AcceptOut
  <2>5. /\ DOMAIN a \subseteq ChainNames /\ \A c \in DOMAIN a : a[c] \in Seq(ChainRules[c])
        /\ "output" \in DOMAIN a => a["output"] \in Seq(AcceptOut)
    BY <2>3, <2>4, <1>0 DEF ChainNames
  <2> QED BY <2>5, <1>1 DEF Adds, a
<1>8. CASE k = 8
  <2>1. a = [output |-> <<NoDns>>]
    BY <1>8, StepsAre
  <2> HIDE DEF a
  <2>3. /\ DOMAIN a = {"output"}
        /\ a["output"] = <<NoDns>>
    BY <2>1
  <2>4. /\ <<NoDns>> \in Seq(AcceptOut \cup {NoDns})
    OBVIOUS
  <2>5. /\ DOMAIN a \subseteq ChainNames /\ \A c \in DOMAIN a : a[c] \in Seq(ChainRules[c])
    BY <2>3, <2>4, <1>0 DEF ChainNames
  <2> QED BY <2>5, <1>8 DEF Adds, a
<1> QED BY <1>2, <1>3, <1>4, <1>5, <1>6, <1>7, <1>8

\* What the steps have added, rule by rule.
LEMMA StepsHold ==
  ASSUME NEW x
  PROVE  /\ Held(x, UpSteps[1]) => /\ Holds(x, "conntrack", CtRule)
                                   /\ Holds(x, "preroute", ServerMark)
                                   /\ Holds(x, "preroute", AnswerMark)
         /\ Held(x, UpSteps[2]) => \A c \in {"input", "output"} :
              /\ Holds(x, c, OverIface("lo")) /\ Holds(x, c, OverIface("moz0"))
              /\ Holds(x, c, OfServer) /\ Holds(x, c, Marked)
         /\ Held(x, UpSteps[3]) => Holds(x, "preroute", Isolate)
         /\ Held(x, UpSteps[4]) => \A c \in {"input", "output"} : Holds(x, c, Prefix(Lan4))
         /\ Held(x, UpSteps[5]) => \A c \in {"input", "output"} : Holds(x, c, Prefix(Lan6))
         /\ Held(x, UpSteps[6]) => Holds(x, "output", Leased)
         /\ Held(x, UpSteps[7]) => /\ Holds(x, "output", Icmp({"rs"}, {"routers6"}))
                                   /\ Holds(x, "output", Icmp({"ns"}, {"solicited6"}))
                                   /\ Holds(x, "output", Icmp({"na"}, {"linklocal6"}))
                                   /\ Holds(x, "input", Icmp(AllRouters, Addrs))
         /\ Held(x, UpSteps[8]) => Holds(x, "output", NoDns)
<1>1. Held(x, UpSteps[1]) => /\ Holds(x, "conntrack", CtRule)
                             /\ Holds(x, "preroute", ServerMark)
                             /\ Holds(x, "preroute", AnswerMark)
  BY StepsAre, SMTT(60) DEF Held
<1>2. Held(x, UpSteps[2]) => \A c \in {"input", "output"} :
              /\ Holds(x, c, OverIface("lo")) /\ Holds(x, c, OverIface("moz0"))
              /\ Holds(x, c, OfServer) /\ Holds(x, c, Marked)
  <2> DEFINE l == <<OverIface("lo"), OverIface("moz0"), OfServer, Marked>>
  <2>1. 1 \in DOMAIN l /\ 2 \in DOMAIN l /\ 3 \in DOMAIN l /\ 4 \in DOMAIN l
    OBVIOUS
  <2>2. l[1] = OverIface("lo") /\ l[2] = OverIface("moz0") /\ l[3] = OfServer /\ l[4] = Marked
    OBVIOUS
  <2>3. UpSteps[2] = [c \in {"input", "output"} |-> l]
    BY StepsAre
  <2> HIDE DEF l
  <2>4. Held(x, UpSteps[2]) => \A c \in {"input", "output"} : \A i \in DOMAIN l : Holds(x, c, l[i])
    BY <2>3 DEF Held
  <2> QED BY <2>1, <2>2, <2>4
<1>3. Held(x, UpSteps[3]) => Holds(x, "preroute", Isolate)
  BY StepsAre DEF Held
<1>4. Held(x, UpSteps[4]) => \A c \in {"input", "output"} : Holds(x, c, Prefix(Lan4))
  BY StepsAre DEF Held
<1>5. Held(x, UpSteps[5]) => \A c \in {"input", "output"} : Holds(x, c, Prefix(Lan6))
  BY StepsAre DEF Held
<1>6. Held(x, UpSteps[6]) => Holds(x, "output", Leased)
  BY StepsAre DEF Held
<1>7. Held(x, UpSteps[7]) => /\ Holds(x, "output", Icmp({"rs"}, {"routers6"}))
                             /\ Holds(x, "output", Icmp({"ns"}, {"solicited6"}))
                             /\ Holds(x, "output", Icmp({"na"}, {"linklocal6"}))
                             /\ Holds(x, "input", Icmp(AllRouters, Addrs))
  <2> DEFINE l == <<Icmp({"rs"}, {"routers6"}), Icmp({"ns"}, {"solicited6"}),
                    Icmp({"ns"}, {"linklocal6"}), Icmp({"na"}, {"linklocal6"})>>
             m == <<Icmp(AllRouters, Addrs)>>
  <2>1. 1 \in DOMAIN l /\ 2 \in DOMAIN l /\ 4 \in DOMAIN l /\ 1 \in DOMAIN m
    OBVIOUS
  <2>2. /\ l[1] = Icmp({"rs"}, {"routers6"}) /\ l[2] = Icmp({"ns"}, {"solicited6"})
        /\ l[4] = Icmp({"na"}, {"linklocal6"}) /\ m[1] = Icmp(AllRouters, Addrs)
    OBVIOUS
  <2>3. UpSteps[7] = [output |-> l, input |-> m]
    BY StepsAre
  <2> HIDE DEF l, m
  <2>4. Held(x, UpSteps[7]) => /\ \A i \in DOMAIN l : Holds(x, "output", l[i])
                               /\ \A i \in DOMAIN m : Holds(x, "input", m[i])
    BY <2>3 DEF Held
  <2> QED BY <2>1, <2>2, <2>4
<1>8. Held(x, UpSteps[8]) => Holds(x, "output", NoDns)
  BY StepsAre DEF Held
<1> QED BY <1>1, <1>2, <1>3, <1>4, <1>5, <1>6, <1>7, <1>8

-----------------------------------------------------------------------------
(* The invariant.                                                          *)

\* What up() has committed so far is in the chains; the neighbour discovery waits
\* in the batch for the next commit.
Built ==
  \A k \in 1 .. 8 :
    k < upStep /\ upStep <= 9 /\ (k = NDP => upStep = 9) => Held(chains, UpSteps[k])

Pending ==
  /\ upStep # 8 => batch = NoRules
  /\ upStep = 8 => batch = Joined(NoRules, UpSteps[NDP])

GroupsKept ==
  /\ \A g \in Groups : groupRules[g] > 0 => g \in exempt \cup failed
  /\ \A g \in exempt \ failed : groupRules[g] > 0
  /\ ~table => groupRules = NoGroupRules
  /\ upStep \in 0 .. 8 => exempt = {}

FilterTypeOK ==
  /\ Typed(chains)
  /\ groupRules \in [Groups -> Nat]
  /\ addrset \subseteq ServerAddrs
  /\ upStep \in 0 .. 10
  /\ exempt \subseteq Groups

FilterInv ==
  /\ FilterTypeOK
  /\ upStep \in 1 .. 9 => table
  /\ RejectsLast(chains)
  /\ Built
  /\ Pending
  /\ GroupsKept

LEMMA NoRulesTyped == Typed(NoRules) /\ RejectsLast(NoRules)
<1>1. Typed(NoRules)
  BY DEF Typed, NoRules
<1>2. RejectsLast(NoRules)
  BY DEF RejectsLast, NoRules, ChainNames
<1> QED BY <1>1, <1>2

\* A commit of a step.
LEMMA CommitBuilds ==
  ASSUME FilterInv, upStep \in 1 .. 8, Commits(upStep), Committed(UpSteps[upStep])
  PROVE  /\ Typed(chains') /\ RejectsLast(chains') /\ batch' = NoRules
         /\ \A k \in 1 .. 8 : Held(chains, UpSteps[k]) => Held(chains', UpSteps[k])
         /\ Held(chains', UpSteps[upStep])
         /\ upStep = 8 => Held(chains', UpSteps[NDP])
<1> DEFINE x == Joined(chains, batch)
           a == UpSteps[upStep]
<1>1. chains' = Joined(x, a) /\ batch' = NoRules
  BY DEF Committed
<1>2. Adds(a) /\ \A k \in 1 .. 8 : Adds(UpSteps[k])
  BY StepsAdd
<1>3. /\ Typed(batch) /\ Adds(batch)
      /\ upStep = 8 => Held(batch, UpSteps[NDP])
      /\ \A i \in DOMAIN batch["output"] : batch["output"][i] # NoDns
  <2>1. CASE upStep = 8
    <3>1. batch = Joined(NoRules, UpSteps[NDP])
      BY <2>1 DEF FilterInv, Pending
    <3>2. Typed(batch) /\ Held(batch, UpSteps[NDP])
      BY <3>1, <1>2, NoRulesTyped, JoinedHas DEF NDP
    <3>3. batch["output"] = UpSteps[NDP]["output"]
      <4>0. "output" \in DOMAIN UpSteps[NDP] /\ Adds(UpSteps[NDP])
        <5>1. "output" \in DOMAIN UpSteps[NDP]
          BY StepsAre DEF NDP
        <5>2. NDP \in 1 .. 8
          BY DEF NDP
        <5> QED BY <5>1, <5>2, <1>2
      <4>1. UpSteps[NDP]["output"] \in Seq(ChainRules["output"]) /\ "output" \in DOMAIN UpSteps[NDP]
        BY <4>0 DEF Adds
      <4>2. batch["output"] = <<>> \o UpSteps[NDP]["output"]
        BY <3>1, <4>1 DEF Joined, NoRules, ChainNames
      <4> QED BY <4>1, <4>2
    <3>4. "output" \in DOMAIN UpSteps[NDP]
      BY StepsAre DEF NDP
    <3>5. \A i \in DOMAIN UpSteps[NDP]["output"] : UpSteps[NDP]["output"][i] # NoDns
      BY <3>4, StepsAdd DEF NDP
    <3> QED BY <3>2, <3>3, <3>5 DEF Typed, Adds
  <2>2. CASE upStep # 8
    <3>1. batch = NoRules
      BY <2>2 DEF FilterInv, Pending
    <3>2. batch["output"] = <<>>
      BY <3>1 DEF NoRules, ChainNames
    <3> QED BY <2>2, <3>1, <3>2, NoRulesTyped DEF Typed, Adds
  <2> QED BY <2>1, <2>2
<1>4. /\ Typed(x) /\ RejectsLast(x)
      /\ upStep = 8 => Held(x, UpSteps[NDP])
      /\ \A k \in 1 .. 8 : Held(chains, UpSteps[k]) => Held(x, UpSteps[k])
  <2>1. Typed(chains) /\ RejectsLast(chains)
    BY DEF FilterInv, FilterTypeOK
  <2>2. Typed(x) /\ Held(x, batch)
    BY <2>1, <1>3, JoinedHas
  <2>3. RejectsLast(x)
    BY <2>1, <1>3, JoinedRejects
  <2>4. \A k \in 1 .. 8 : Held(chains, UpSteps[k]) => Held(x, UpSteps[k])
    BY <2>1, <1>2, <1>3, JoinedHeld
  <2>5. ASSUME upStep = 8 PROVE Held(x, UpSteps[NDP])
    <3>1. Held(batch, UpSteps[NDP]) /\ Adds(UpSteps[NDP])
      BY <1>2, <1>3, <2>5 DEF NDP
    <3>2. ASSUME NEW c \in DOMAIN UpSteps[NDP], NEW i \in DOMAIN UpSteps[NDP][c]
          PROVE  Holds(x, c, UpSteps[NDP][c][i])
      <4> DEFINE r == UpSteps[NDP][c][i]
      <4>1. Holds(batch, c, r) /\ c \in ChainNames
        BY <3>1 DEF Held, Adds
      <4>2. PICK j \in DOMAIN batch[c] : batch[c][j] = r
        BY <4>1 DEF Holds
      <4>3. Holds(x, c, batch[c][j])
        BY <2>2, <4>1, <1>3 DEF Held, Typed
      <4> QED BY <4>2, <4>3
    <3> QED BY <3>2 DEF Held
  <2> QED BY <2>2, <2>3, <2>4, <2>5
<1>5. \/ \A r \in Before : Holds(x, "output", r)
      \/ "output" \notin DOMAIN a
      \/ \A i \in DOMAIN a["output"] : a["output"][i] # NoDns
  <2>1. CASE upStep = 8
    <3>1. Held(chains, UpSteps[2]) /\ Held(chains, UpSteps[4]) /\ Held(chains, UpSteps[5])
      BY <2>1 DEF FilterInv, Built, NDP
    <3>2. Held(x, UpSteps[2]) /\ Held(x, UpSteps[4]) /\ Held(x, UpSteps[5])
      BY <3>1, <1>4
    <3> HIDE DEF x
    <3>3. \A r \in Before : Holds(x, "output", r)
      BY <3>2, StepsHold DEF Before
    <3> QED BY <3>3
  <2>2. CASE upStep # 8
    BY <2>2, StepsAdd
  <2> QED BY <2>1, <2>2
<1> HIDE DEF x
<1>6. Typed(chains') /\ Held(chains', a)
  BY <1>1, <1>2, <1>4, JoinedHas
<1>7. RejectsLast(chains')
  BY <1>1, <1>2, <1>4, <1>5, JoinedRejects
<1>8. \A k \in 1 .. 8 : Held(x, UpSteps[k]) => Held(chains', UpSteps[k])
  BY <1>1, <1>2, <1>4, JoinedHeld
<1>9. NDP \in 1 .. 8
  BY DEF NDP
<1> QED BY <1>1, <1>4, <1>6, <1>7, <1>8, <1>9

LEMMA FilterInitInv == FilterInit => FilterInv
<1> SUFFICES ASSUME FilterInit PROVE FilterInv
  OBVIOUS
<1>1. FilterTypeOK
  BY NoRulesTyped DEF FilterInit, FilterTypeOK, NotBuilding, NoGroupRules
<1>2. RejectsLast(chains)
  BY NoRulesTyped DEF FilterInit
<1>3. Built /\ Pending /\ GroupsKept /\ (upStep \in 1 .. 9 => table)
  BY DEF FilterInit, Built, Pending, GroupsKept, NoGroupRules, NotBuilding
<1> QED BY <1>1, <1>2, <1>3 DEF FilterInv

\* The number of the last step and what comes after it.
LEMMA StepNumbers ==
  /\ DOMAIN UpSteps = 1 .. 8 /\ Broken = 10 /\ NotBuilding = 0
  /\ Standing <=> upStep = 9
BY StepsAre DEF Broken, Standing, NotBuilding

LEMMA FilterNextInv == FilterInv /\ [FilterNext]_filterVars => FilterInv'
<1> SUFFICES ASSUME FilterInv, [FilterNext]_filterVars PROVE FilterInv'
  OBVIOUS
<1> USE StepNumbers
<1>0. /\ Typed(chains) /\ groupRules \in [Groups -> Nat]
      /\ addrset \subseteq ServerAddrs /\ upStep \in 0 .. 10 /\ exempt \subseteq Groups
      /\ upStep \in 1 .. 9 => table
      /\ RejectsLast(chains) /\ Built /\ Pending /\ GroupsKept
  BY DEF FilterInv, FilterTypeOK
\* Steps that leave the chains, or clear them, and do not build.
<1>a. ASSUME \/ chains' = chains /\ upStep' = upStep
             \/ (chains' = chains \/ chains' = NoRules) /\ upStep' \in {0, 1, 10}
      PROVE  Typed(chains') /\ RejectsLast(chains') /\ Built'
  <2>1. Typed(chains') /\ RejectsLast(chains')
    BY <1>0, <1>a, NoRulesTyped
  <2>2. Built'
    <3>1. CASE chains' = chains /\ upStep' = upStep
      BY <1>0, <3>1 DEF Built
    <3>2. CASE upStep' \in {0, 1, 10}
      BY <3>2 DEF Built
    <3> QED BY <1>a, <3>1, <3>2
  <2> QED BY <2>1, <2>2
<1>b. NoGroupRules \in [Groups -> Nat] /\ \A g \in Groups : NoGroupRules[g] = 0
  BY DEF NoGroupRules
<1>1. CASE upBegins
  <2>1. /\ upStep = 0 /\ upStep' \in {1, 10} /\ chains' = chains /\ batch' = batch
        /\ groupRules' = groupRules /\ addrset' = addrset /\ exempt' = exempt /\ failed' = failed
        /\ upStep' = 1 => table'
        /\ table => table'
    BY <1>0, <1>1 DEF upBegins
  <2>2. FilterTypeOK' /\ RejectsLast(chains)' /\ Built'
    BY <2>1, <1>0, <1>a DEF FilterTypeOK
  <2>3. Pending'
    BY <2>1, <1>0 DEF Pending
  <2>4. GroupsKept'
    BY <2>1, <1>0 DEF GroupsKept
  <2> QED BY <2>1, <2>2, <2>3, <2>4 DEF FilterInv
<1>2. CASE upContinues
  <2>1. /\ upStep \in 1 .. 8 /\ table /\ table' /\ table' = table /\ upStep' = upStep + 1
        /\ groupRules' = groupRules /\ addrset' = addrset /\ exempt' = exempt /\ failed' = failed
    BY <1>2 DEF upContinues
  <2>2. GroupsKept'
    BY <2>1, <1>0 DEF GroupsKept
  <2>3. CASE Commits(upStep)
    <3>1. Committed(UpSteps[upStep]) /\ upStep # 7
      BY <1>2, <2>3 DEF upContinues, Commits, NDP
    <3>2. /\ Typed(chains') /\ RejectsLast(chains') /\ batch' = NoRules
          /\ \A k \in 1 .. 8 : Held(chains, UpSteps[k]) => Held(chains', UpSteps[k])
          /\ Held(chains', UpSteps[upStep])
          /\ upStep = 8 => Held(chains', UpSteps[NDP])
      BY <2>1, <2>3, <3>1, CommitBuilds
    <3>3. Built'
      <4> SUFFICES ASSUME NEW k \in 1 .. 8, k < upStep', upStep' <= 9, k = 7 => upStep' = 9
                   PROVE  Held(chains', UpSteps[k])
        BY DEF Built, NDP
      <4>1. CASE k = upStep
        BY <4>1, <3>2
      <4>2. CASE k = 7
        BY <4>2, <2>1, <3>2 DEF NDP
      <4>3. CASE k # upStep /\ k # 7
        <5>1. k < upStep /\ upStep <= 9
          BY <2>1, <4>3
        <5>2. Held(chains, UpSteps[k])
          BY <5>1, <4>3, <1>0 DEF Built, NDP
        <5> QED BY <5>2, <3>2
      <4> QED BY <4>1, <4>2, <4>3
    <3>4. Pending'
      BY <2>1, <3>1, <3>2 DEF Pending
    <3>5. FilterTypeOK'
      BY <2>1, <3>2, <1>0 DEF FilterTypeOK
    <3> QED BY <2>1, <2>2, <3>2, <3>3, <3>4, <3>5 DEF FilterInv
  <2>4. CASE ~Commits(upStep)
    <3>1. upStep = 7 /\ upStep' = 8 /\ chains' = chains /\ batch' = Joined(batch, UpSteps[7])
      BY <1>2, <2>1, <2>4 DEF upContinues, Commits, NDP
    <3>2. batch = NoRules
      BY <3>1, <1>0 DEF Pending
    <3>3. Pending'
      BY <3>1, <3>2 DEF Pending, NDP
    <3>4. Built'
      BY <3>1, <1>0 DEF Built, NDP
    <3>5. FilterTypeOK' /\ RejectsLast(chains)'
      BY <2>1, <3>1, <1>0 DEF FilterTypeOK
    <3> QED BY <2>1, <2>2, <3>3, <3>4, <3>5 DEF FilterInv
  <2> QED BY <2>3, <2>4
<1>3. CASE upFails
  <2>1. /\ upStep \in 1 .. 8 /\ upStep' = 10 /\ batch' = NoRules /\ exempt' = exempt
        /\ failed' = failed
    BY <1>3 DEF upFails
  <2>2. \/ table' = FALSE /\ chains' = NoRules /\ groupRules' = NoGroupRules /\ addrset' = {}
        \/ UNCHANGED <<table, chains, groupRules, addrset>>
    BY <1>3 DEF upFails, NetfilterRemoveTables, TableGone
  <2>3. Typed(chains') /\ RejectsLast(chains') /\ Built'
    BY <2>1, <2>2, <1>a
  <2>4. Pending'
    BY <2>1 DEF Pending
  <2>5. exempt = {}
    BY <2>1, <1>0 DEF GroupsKept
  <2>6. GroupsKept'
    BY <2>1, <2>2, <2>5, <1>0, <1>b DEF GroupsKept
  <2>7. FilterTypeOK'
    BY <2>1, <2>2, <2>3, <1>0, <1>b DEF FilterTypeOK
  <2> QED BY <2>1, <2>3, <2>4, <2>6, <2>7 DEF FilterInv
<1>4. CASE fwDown
  <2>1. /\ upStep \in {9, 10} /\ upStep' = 0 /\ batch' = batch /\ exempt' = {}
        /\ failed' = IF table' THEN failed \cup exempt ELSE {}
    BY <1>4 DEF fwDown
  <2>2. \/ table' = FALSE /\ chains' = NoRules /\ groupRules' = NoGroupRules /\ addrset' = {}
        \/ UNCHANGED <<table, chains, groupRules, addrset>>
    BY <1>4 DEF fwDown, TableGone
  <2>3. Typed(chains') /\ RejectsLast(chains') /\ Built'
    BY <2>1, <2>2, <1>a
  <2>4. Pending'
    BY <2>1, <1>0 DEF Pending
  <2>5. GroupsKept'
    BY <2>1, <2>2, <1>0, <1>b DEF GroupsKept
  <2>6. FilterTypeOK'
    BY <2>1, <2>2, <2>3, <1>0, <1>b DEF FilterTypeOK
  <2> QED BY <2>1, <2>3, <2>4, <2>5, <2>6 DEF FilterInv
<1>5. ASSUME NEW a \in ServerAddrs, fwMarkInbound(a) \/ fwClearInbound(a) PROVE FilterInv'
  <2>1. /\ table' = table /\ chains' = chains /\ groupRules' = groupRules /\ batch' = batch
        /\ upStep' = upStep /\ exempt' = exempt /\ failed' = failed /\ addrset' \subseteq ServerAddrs
    BY <1>5, <1>0 DEF fwMarkInbound, fwClearInbound
  <2>2. FilterTypeOK' /\ RejectsLast(chains)' /\ Built'
    BY <2>1, <1>0, <1>a DEF FilterTypeOK
  <2>3. Pending'
    BY <2>1, <1>0 DEF Pending
  <2>4. GroupsKept'
    BY <2>1, <1>0 DEF GroupsKept
  <2> QED BY <2>1, <2>2, <2>3, <2>4, <1>0 DEF FilterInv
<1>6. ASSUME NEW g \in Groups, markCgroupV2(g) \/ clearCgroupV2(g) \/ clearAllCgroupsV2
      PROVE  FilterInv'
  <2>1. /\ table /\ table' = table /\ chains' = chains /\ addrset' = addrset /\ batch' = batch
        /\ upStep' = upStep /\ upStep \in {9, 10}
    BY <1>6 DEF markCgroupV2, clearCgroupV2, clearAllCgroupsV2, Usable
  <2>2. groupRules' \in [Groups -> Nat] /\ exempt' \subseteq Groups
    BY <1>6, <1>0, <1>b DEF markCgroupV2, clearCgroupV2, clearAllCgroupsV2, nftDelCgroup2xt
  <2>3. FilterTypeOK' /\ RejectsLast(chains)' /\ Built'
    BY <2>1, <2>2, <1>0, <1>a DEF FilterTypeOK
  <2>4. Pending'
    BY <2>1, <1>0 DEF Pending
  <2>5. GroupsKept'
    <3>1. CASE markCgroupV2(g)
      BY <3>1, <2>1, <1>0 DEF markCgroupV2, GroupsKept
    <3>2. CASE clearCgroupV2(g)
      BY <3>2, <2>1, <1>0 DEF clearCgroupV2, nftDelCgroup2xt, GroupsKept
    <3>3. CASE clearAllCgroupsV2
      BY <3>3, <2>1, <1>0, <1>b DEF clearAllCgroupsV2, GroupsKept
    <3> QED BY <1>6, <3>1, <3>2, <3>3
  <2> QED BY <2>1, <2>3, <2>4, <2>5, <1>0 DEF FilterInv
<1>7. CASE clearAllCgroupsV2
  <2>1. \E g \in Groups : TRUE
    BY <1>7, <1>0 DEF clearAllCgroupsV2
  <2> QED BY <2>1, <1>6, <1>7
<1>8. CASE restart
  <2>1. /\ upStep' = 0 /\ batch' = NoRules /\ exempt' = {}
        /\ failed' = IF table' THEN failed \cup exempt ELSE {}
    BY <1>8 DEF restart
  <2>2. \/ table' = FALSE /\ chains' = NoRules /\ groupRules' = NoGroupRules /\ addrset' = {}
        \/ UNCHANGED <<table, chains, groupRules, addrset>>
    BY <1>8 DEF restart, NetfilterRemoveTables, TableGone
  <2>3. Typed(chains') /\ RejectsLast(chains') /\ Built'
    BY <2>1, <2>2, <1>a
  <2>4. Pending'
    BY <2>1 DEF Pending
  <2>5. GroupsKept'
    BY <2>1, <2>2, <1>0, <1>b DEF GroupsKept
  <2>6. FilterTypeOK'
    BY <2>1, <2>2, <2>3, <1>0, <1>b DEF FilterTypeOK
  <2> QED BY <2>1, <2>3, <2>4, <2>5, <2>6 DEF FilterInv
<1>9. CASE UNCHANGED filterVars
  <2>1. /\ table' = table /\ chains' = chains /\ groupRules' = groupRules /\ batch' = batch
        /\ upStep' = upStep /\ exempt' = exempt /\ failed' = failed /\ addrset' = addrset
    BY <1>9 DEF filterVars
  <2>2. FilterTypeOK' /\ RejectsLast(chains)' /\ Built'
    BY <2>1, <1>0, <1>a DEF FilterTypeOK
  <2>3. Pending' /\ GroupsKept'
    BY <2>1, <1>0 DEF Pending, GroupsKept
  <2> QED BY <2>1, <2>2, <2>3, <1>0 DEF FilterInv
<1> QED BY <1>1, <1>2, <1>3, <1>4, <1>5, <1>6, <1>7, <1>8, <1>9 DEF FilterNext

-----------------------------------------------------------------------------
(* What the rules let pass.                                                *)

\* Traffic as it starts.
LEMMA TrafficIs ==
  ASSUME NEW proto \in Protos, NEW svc \in Services,
         NEW a \in Addrs, NEW i \in Ifaces, NEW g \in Groups \cup {NoGroup}
  PROVE  /\ Traffic(proto, svc, a, i, g) \in Packet
         /\ Traffic(proto, svc, a, i, g).proto = proto /\ Traffic(proto, svc, a, i, g).svc = svc
         /\ Traffic(proto, svc, a, i, g).addr = a /\ Traffic(proto, svc, a, i, g).iface = i
         /\ Traffic(proto, svc, a, i, g).group = g /\ Traffic(proto, svc, a, i, g).mark = NoMark
         /\ Traffic(proto, svc, a, i, g).to = "host"
         /\ Traffic(proto, svc, a, i, g).verdict = "none"
BY DEF Traffic, Packet, NoMark, FwMark, Deciding

\* The rules when up() is done.
LEMMA AllHeld ==
  ASSUME FilterInv, Standing
  PROVE  /\ table /\ Typed(chains) /\ RejectsLast(chains)
         /\ Holds(chains, "conntrack", CtRule)
         /\ Holds(chains, "preroute", ServerMark) /\ Holds(chains, "preroute", AnswerMark)
         /\ Holds(chains, "preroute", Isolate)
         /\ \A c \in {"input", "output"} :
              /\ Holds(chains, c, OverIface("lo")) /\ Holds(chains, c, OverIface("moz0"))
              /\ Holds(chains, c, OfServer) /\ Holds(chains, c, Marked)
              /\ Holds(chains, c, Prefix(Lan4)) /\ Holds(chains, c, Prefix(Lan6))
         /\ Holds(chains, "output", Leased)
         /\ Holds(chains, "output", Icmp({"rs"}, {"routers6"}))
         /\ Holds(chains, "output", Icmp({"ns"}, {"solicited6"}))
         /\ Holds(chains, "output", Icmp({"na"}, {"linklocal6"}))
         /\ Holds(chains, "input", Icmp(AllRouters, Addrs))
         /\ Holds(chains, "output", NoDns)
<1>1. upStep = 9
  BY StepNumbers
<1>2. table /\ Typed(chains) /\ RejectsLast(chains)
  BY <1>1 DEF FilterInv, FilterTypeOK
<1>3. \A k \in 1 .. 8 : Held(chains, UpSteps[k])
  BY <1>1 DEF FilterInv, Built
<1>4. /\ Held(chains, UpSteps[1]) /\ Held(chains, UpSteps[2]) /\ Held(chains, UpSteps[3])
      /\ Held(chains, UpSteps[4]) /\ Held(chains, UpSteps[5]) /\ Held(chains, UpSteps[6])
      /\ Held(chains, UpSteps[7]) /\ Held(chains, UpSteps[8])
  BY <1>3
<1> QED BY <1>2, <1>4, StepsHold

\* No rule lets unmarked traffic out to a host that is not near.
LEMMA NoneMatches ==
  ASSUME FilterInv, NEW q, q.iface = "eth0", q.mark = NoMark, q.svc \in {"dns", "other"},
         \/ q.addr \in Hosts /\ q.proto \in {"udp", "tcp"}
         \/ q.addr \in ServerAddrs /\ q.proto = "tcp",
         NEW r \in AcceptOut
  PROVE  ~Matches(r, q)
<1>1. addrset \subseteq ServerAddrs
  BY DEF FilterInv, FilterTypeOK
<1>2. CASE r \in {OverIface("lo"), OverIface("moz0"), OfServer, Marked}
  BY <1>1, <1>2, MatchFacts DEF Hosts, ServerAddrs, NoMark, FwMark
<1>3. CASE r \in {Prefix(Lan4), Prefix(Lan6), Leased, Dhcp("67to68")}
  BY <1>3, MatchFacts DEF Hosts, ServerAddrs, Lan4, Lan6, Multicast6
<1>4. CASE r \in {Icmp({"rs"}, {"routers6"}), Icmp({"ns"}, {"solicited6"}),
                  Icmp({"ns"}, {"linklocal6"}), Icmp({"na"}, {"linklocal6"})}
  BY <1>4, MatchFacts
<1> QED BY <1>2, <1>3, <1>4 DEF AcceptOut

LEMMA AddrFacts ==
  /\ Hosts \subseteq Addrs /\ ServerAddrs \subseteq Addrs /\ Lan4 \subseteq Addrs
  /\ Lan6 \subseteq Addrs /\ {"broadcast4", "local6", "host4", "host6", "lan4"} \subseteq Addrs
  /\ {"routers6", "solicited6", "linklocal6"} \subseteq Addrs
  /\ "lo" \in Ifaces /\ "moz0" \in Ifaces /\ "eth0" \in Ifaces
  /\ "udp" \in Protos /\ "tcp" \in Protos /\ "icmp6" \in Protos
  /\ {"dns", "other"} \subseteq Services
  /\ {"68to67", "67to68", "rs", "ns", "na", "ra"} \subseteq Services
BY DEF Protos, Services, Addrs, Hosts, ServerAddrs, Lan4, Lan6, Multicast6, Ifaces

LEMMA InvEnclosed == FilterInv => Enclosed
<1> SUFFICES ASSUME FilterInv, table,
                    NEW g \in (Groups \cup {NoGroup}) \ (exempt \cup failed),
                    NEW svc \in {"dns", "other"}, NEW proto \in {"udp", "tcp"},
                    NEW a \in Hosts \cup ServerAddrs, a \in Hosts \/ proto = "tcp",
                    NEW p, p = Traffic(proto, svc, a, "eth0", g)
             PROVE  /\ ~Passes(Sent(p))
                    /\ Standing /\ svc = "dns" => Sent(p).verdict = "reject"
  BY DEF Enclosed, Passes
<1>0. proto \in Protos /\ svc \in Services /\ a \in Addrs /\ "eth0" \in Ifaces
  BY AddrFacts
<1>1. /\ p \in Packet /\ p.verdict = "none" /\ p.mark = NoMark /\ p.group = g
      /\ p.proto = proto /\ p.svc = svc /\ p.addr = a /\ p.iface = "eth0"
  BY <1>0, TrafficIs
<1>2. g # NoGroup => ~(groupRules[g] > 0)
  BY DEF FilterInv, GroupsKept
<1>3. nftMarkCgroup2xt(p).mark = NoMark /\ SameTraffic(nftMarkCgroup2xt(p), p)
  BY <1>1, <1>2, GroupMarks
<1> DEFINE q == nftMarkCgroup2xt(p)
<1>4. /\ q.iface = "eth0" /\ q.mark = NoMark /\ q.svc \in {"dns", "other"}
      /\ \/ q.addr \in Hosts /\ q.proto \in {"udp", "tcp"}
         \/ q.addr \in ServerAddrs /\ q.proto = "tcp"
  BY <1>1, <1>3 DEF SameTraffic
<1> HIDE DEF q
<1>5. \A r \in AcceptOut : ~Matches(r, q)
  BY <1>4, NoneMatches
<1>6. Typed(chains)
  BY DEF FilterInv, FilterTypeOK
<1>7. /\ ~Passes(Sent(p))
      /\ Holds(chains, "output", NoDns) /\ Matches(NoDns, p) => Sent(p).verdict = "reject"
  BY <1>1, <1>5, <1>6, SentStops DEF q
<1>8. Standing => Holds(chains, "output", NoDns)
  BY AllHeld
<1>9. svc = "dns" => Matches(NoDns, p)
  BY <1>1, MatchFacts
<1> QED BY <1>7, <1>8, <1>9

LEMMA InvExemptWorks == FilterInv => ExemptWorks
<1> SUFFICES ASSUME FilterInv, Standing, NEW g \in exempt \ failed, NEW a \in Hosts,
                    NEW proto \in {"udp", "tcp"}, NEW svc \in {"dns", "other"},
                    NEW p, p = Traffic(proto, svc, a, "moz0", g),
                    NEW q, q = Traffic(proto, svc, a, "eth0", g)
             PROVE  Sent(p).mark = FwMark /\ Answered(q)
  BY DEF ExemptWorks
<1>1. g \in Groups /\ g # NoGroup /\ groupRules[g] > 0
  BY FilterAssumption DEF FilterInv, FilterTypeOK, GroupsKept
<1>a. /\ proto \in Protos /\ svc \in Services /\ a \in Addrs
      /\ "eth0" \in Ifaces /\ "moz0" \in Ifaces /\ g \in Groups \cup {NoGroup}
  BY <1>1, AddrFacts
<1>2. p \in Packet /\ p.verdict = "none" /\ p.group = g /\ p.iface = "moz0"
  BY <1>a, TrafficIs
<1>3. q \in Packet /\ q.verdict = "none" /\ q.group = g /\ q.iface = "eth0" /\ q.to = "host"
  BY <1>a, TrafficIs
<1>4. nftMarkCgroup2xt(p).mark = FwMark /\ nftMarkCgroup2xt(q).mark = FwMark
  BY <1>1, <1>2, <1>3, GroupMarks
<1> QED BY <1>2, <1>3, <1>4, AllHeld, SentKeeps, AnsweredByMark

LEMMA InvServerTalks == FilterInv => ServerTalks
<1> SUFFICES ASSUME FilterInv, Standing PROVE ServerTalks
  BY DEF ServerTalks
<1>1. ASSUME NEW a \in ServerAddrs,
             NEW p, p = [Traffic("udp", "other", a, "eth0", NoGroup) EXCEPT !.mark = FwMark]
      PROVE  Answered(p)
  <2> DEFINE t == Traffic("udp", "other", a, "eth0", NoGroup)
  <2>1. t \in Packet /\ t.verdict = "none" /\ t.to = "host" /\ t.group = NoGroup
    BY TrafficIs, AddrFacts
  <2>2. p = [t EXCEPT !.mark = FwMark]
    BY <1>1
  <2> HIDE DEF t
  <2>3. p \in Packet /\ p.verdict = "none" /\ p.to = "host" /\ p.mark = FwMark /\ p.group = NoGroup
    BY <2>1, <2>2 DEF Packet
  <2>4. nftMarkCgroup2xt(p).mark = FwMark
    BY <2>3, GroupMarks
  <2> QED BY <2>3, <2>4, AllHeld, AnsweredByMark
<1>2. ASSUME NEW a \in addrset, NEW p, p = Traffic("udp", "other", a, "eth0", NoGroup)
      PROVE  Passes(Received(p)) /\ Received(p).mark = FwMark
  <2>1. a \in Addrs
    BY AddrFacts DEF FilterInv, FilterTypeOK
  <2>2. /\ p \in Packet /\ p.verdict = "none" /\ p.to = "host" /\ p.proto = "udp"
        /\ p.addr \in addrset
    BY <1>2, <2>1, TrafficIs, AddrFacts
  <2>3. ~Matches(Isolate, p) /\ Matches(ServerMark, p)
    BY <2>2, MatchFacts
  <2> QED BY <2>2, <2>3, AllHeld, ReceivedPasses
<1> QED BY <1>1, <1>2 DEF ServerTalks

LEMMA InvIsolated == FilterInv => Isolated
<1> SUFFICES ASSUME FilterInv, Standing PROVE Isolated
  BY DEF Isolated
<1> DEFINE To(a, i) == [Traffic("udp", "other", a, i, NoGroup) EXCEPT !.to = "tunnel"]
<1>1. ASSUME NEW a \in Addrs, NEW i \in Ifaces
      PROVE  /\ To(a, i) \in Packet /\ To(a, i).verdict = "none" /\ To(a, i).to = "tunnel"
             /\ To(a, i).addr = a /\ To(a, i).iface = i
  <2> DEFINE t == Traffic("udp", "other", a, i, NoGroup)
  <2>0. "udp" \in Protos /\ "other" \in Services /\ NoGroup \in Groups \cup {NoGroup}
    BY AddrFacts
  <2>1. t \in Packet /\ t.verdict = "none" /\ t.addr = a /\ t.iface = i
    BY <2>0, TrafficIs
  <2> HIDE DEF t
  <2>2. /\ [t EXCEPT !.to = "tunnel"] \in Packet /\ [t EXCEPT !.to = "tunnel"].verdict = "none"
        /\ [t EXCEPT !.to = "tunnel"].to = "tunnel" /\ [t EXCEPT !.to = "tunnel"].addr = a
        /\ [t EXCEPT !.to = "tunnel"].iface = i
    BY <2>1 DEF Packet
  <2> QED BY <2>2 DEF t
<1> HIDE DEF To
<1>2. ASSUME NEW a \in Addrs \ {"local6"}, NEW i \in Ifaces \ {"moz0"}
      PROVE  ~Passes(Received(To(a, i)))
  <2>1. Matches(Isolate, To(a, i))
    BY <1>1, MatchFacts
  <2> QED BY <1>1, <2>1, AllHeld, ReceivedStops
<1>3. OverIface("lo") \in AcceptIn /\ OverIface("moz0") \in AcceptIn
  BY DEF AcceptIn
<1>4. Passes(Received(To("local6", "lo")))
  <2>1. "local6" \in Addrs /\ "lo" \in Ifaces
    BY AddrFacts
  <2>2. ~Matches(Isolate, To("local6", "lo")) /\ Matches(OverIface("lo"), To("local6", "lo"))
    BY <1>1, <2>1, MatchFacts
  <2> QED BY <1>1, <1>3, <2>1, <2>2, AllHeld, ReceivedPasses
<1>5. Passes(Received(To("host6", "moz0")))
  <2>1. "host6" \in Addrs /\ "moz0" \in Ifaces
    BY AddrFacts
  <2>2. ~Matches(Isolate, To("host6", "moz0")) /\ Matches(OverIface("moz0"), To("host6", "moz0"))
    BY <1>1, <2>1, MatchFacts
  <2> QED BY <1>1, <1>3, <2>1, <2>2, AllHeld, ReceivedPasses
<1> QED BY <1>2, <1>4, <1>5 DEF Isolated, To

\* A rule of both filters that is there before look-ups are turned down.
LEMMA AnsweredBefore ==
  ASSUME FilterInv, Standing, NEW p \in Packet, p.verdict = "none", p.to = "host",
         NEW r \in Before \ {Marked}, Matches(r, p)
  PROVE  Answered(p)
<1>1. r \in AcceptIn /\ r \in AcceptOut
  BY BeforeAccepts
<1>2. Holds(chains, "input", r) /\ Holds(chains, "output", r)
  BY AllHeld DEF Before
<1>3. SameTraffic(nftMarkCgroup2xt(p), p)
  BY GroupMarks
<1> DEFINE q == nftMarkCgroup2xt(p)
<1> HIDE DEF q
<1>4. Matches(r, q)
  <2>1. SameTraffic(q, p)
    BY <1>3 DEF q
  <2>2. r \in {OverIface("lo"), OverIface("moz0"), Prefix(Lan4), Prefix(Lan6)}
    BY DEF Before
  <2> QED BY <2>1, <2>2, MatchFacts DEF SameTraffic
<1>5. r \notin {OfServer, Marked}
  <2>1. OfServer \notin Before
    BY DEF Before, OfServer, Lookup, OverIface, Marked, Prefix, Rule
  <2> QED BY <2>1
<1> QED BY <1>1, <1>2, <1>4, <1>5, AllHeld, AnsweredByRules DEF q

LEMMA InvStillUsable == FilterInv => StillUsable
<1> SUFFICES ASSUME FilterInv, Standing PROVE StillUsable
  BY DEF StillUsable
<1>0. {OverIface("lo"), OverIface("moz0"), Prefix(Lan4), Prefix(Lan6)} \subseteq Before \ {Marked}
  <2>1. Marked \notin {OverIface("lo"), OverIface("moz0"), Prefix(Lan4), Prefix(Lan6)}
    BY DEF OverIface, Marked, Prefix, Rule
  <2> QED BY <2>1 DEF Before
<1>1. ASSUME NEW g \in Groups \cup {NoGroup}, NEW svc \in {"dns", "other"}
      PROVE  /\ Answered(Traffic("udp", svc, "local6", "lo", g))
             /\ \A a \in Lan4 \cup Lan6 : Answered(Traffic("tcp", svc, a, "eth0", g))
             /\ Answered(Traffic("tcp", svc, "host4", "moz0", g))
  <2>1. Answered(Traffic("udp", svc, "local6", "lo", g))
    <3> DEFINE p == Traffic("udp", svc, "local6", "lo", g)
    <3>0. "udp" \in Protos /\ svc \in Services /\ "local6" \in Addrs /\ "lo" \in Ifaces
      BY AddrFacts
    <3>1. p \in Packet /\ p.verdict = "none" /\ p.to = "host" /\ p.iface = "lo"
      BY <3>0, TrafficIs
    <3> HIDE DEF p
    <3>2. Matches(OverIface("lo"), p)
      BY <3>1, MatchFacts
    <3>3. Answered(p)
      BY <3>1, <3>2, <1>0, AnsweredBefore
    <3> QED BY <3>3 DEF p
  <2>2. ASSUME NEW a \in Lan4 \cup Lan6 PROVE Answered(Traffic("tcp", svc, a, "eth0", g))
    <3> DEFINE p == Traffic("tcp", svc, a, "eth0", g)
    <3>0. "tcp" \in Protos /\ svc \in Services /\ a \in Addrs /\ "eth0" \in Ifaces
      BY AddrFacts
    <3>1. p \in Packet /\ p.verdict = "none" /\ p.to = "host" /\ p.addr = a
      BY <3>0, TrafficIs
    <3> HIDE DEF p
    <3>2. PICK r \in {Prefix(Lan4), Prefix(Lan6)} : Matches(r, p)
      BY <3>1, MatchFacts
    <3>3. Answered(p)
      BY <3>1, <3>2, <1>0, AnsweredBefore
    <3> QED BY <3>3 DEF p
  <2>3. Answered(Traffic("tcp", svc, "host4", "moz0", g))
    <3> DEFINE p == Traffic("tcp", svc, "host4", "moz0", g)
    <3>0. "tcp" \in Protos /\ svc \in Services /\ "host4" \in Addrs /\ "moz0" \in Ifaces
      BY AddrFacts
    <3>1. p \in Packet /\ p.verdict = "none" /\ p.to = "host" /\ p.iface = "moz0"
      BY <3>0, TrafficIs
    <3> HIDE DEF p
    <3>2. Matches(OverIface("moz0"), p)
      BY <3>1, MatchFacts
    <3>3. Answered(p)
      BY <3>1, <3>2, <1>0, AnsweredBefore
    <3> QED BY <3>3 DEF p
  <2> QED BY <2>1, <2>2, <2>3
\* A packet of no group that a rule lets out and that is no look-up.
<1>2. ASSUME NEW p \in Packet, p.verdict = "none", p.group = NoGroup, p.svc # "dns",
             NEW r \in AcceptOut, Holds(chains, "output", r), Matches(r, p)
      PROVE  Passes(Sent(p))
  <2>1. ~Matches(NoDns, p)
    BY <1>2, MatchFacts
  <2>2. SameTraffic(nftMarkCgroup2xt(p), p) /\ nftMarkCgroup2xt(p).mark = p.mark
    BY <1>2, GroupMarks
  <2>3. Matches(r, nftMarkCgroup2xt(p))
    BY <1>2, <2>2, OutMatches
  <2> QED BY <1>2, <2>1, <2>3, AllHeld, SentPasses
<1>3. ASSUME NEW p \in Packet, p.verdict = "none", p.to = "host",
             NEW r \in AcceptIn, Holds(chains, "input", r), Matches(r, p)
      PROVE  Passes(Received(p))
  <2>1. ~Matches(Isolate, p)
    BY <1>3, MatchFacts
  <2> QED BY <1>3, <2>1, AllHeld, ReceivedPasses
<1>4. Passes(Sent(Traffic("udp", "68to67", "broadcast4", "eth0", NoGroup)))
  <2> DEFINE p == Traffic("udp", "68to67", "broadcast4", "eth0", NoGroup)
  <2>1. /\ p \in Packet /\ p.verdict = "none" /\ p.group = NoGroup /\ p.svc = "68to67"
        /\ p.proto = "udp" /\ p.addr = "broadcast4"
    BY TrafficIs, AddrFacts
  <2> HIDE DEF p
  <2>2. Matches(Leased, p) /\ Leased \in AcceptOut
    BY <2>1, MatchFacts DEF AcceptOut
  <2>3. Passes(Sent(p))
    BY <2>1, <2>2, <1>2, AllHeld
  <2> QED BY <2>3 DEF p
<1>5. Passes(Received(Traffic("udp", "67to68", "lan4", "eth0", NoGroup)))
  <2> DEFINE p == Traffic("udp", "67to68", "lan4", "eth0", NoGroup)
  <2>1. p \in Packet /\ p.verdict = "none" /\ p.to = "host" /\ p.addr = "lan4"
    BY TrafficIs, AddrFacts
  <2> HIDE DEF p
  <2>2. Matches(Prefix(Lan4), p) /\ Prefix(Lan4) \in AcceptIn
    BY <2>1, MatchFacts DEF AcceptIn, Lan4
  <2>3. Passes(Received(p))
    BY <2>1, <2>2, <1>3, AllHeld
  <2> QED BY <2>3 DEF p
<1>6. ASSUME NEW s \in {"rs", "ns", "na"}, NEW a \in {"routers6", "solicited6", "linklocal6"},
             \/ s = "rs" /\ a = "routers6"
             \/ s = "ns" /\ a = "solicited6"
             \/ s = "na" /\ a = "linklocal6"
      PROVE  Passes(Sent(Traffic("icmp6", s, a, "eth0", NoGroup)))
  <2> DEFINE p == Traffic("icmp6", s, a, "eth0", NoGroup)
  <2>1. /\ p \in Packet /\ p.verdict = "none" /\ p.group = NoGroup /\ p.svc = s
        /\ p.proto = "icmp6" /\ p.addr = a
    BY TrafficIs, AddrFacts
  <2> HIDE DEF p
  <2>2. Icmp({s}, {a}) \in AcceptOut /\ Holds(chains, "output", Icmp({s}, {a}))
    BY <1>6, AllHeld DEF AcceptOut
  <2>3. Matches(Icmp({s}, {a}), p)
    BY <2>1, MatchFacts
  <2>4. Passes(Sent(p))
    BY <2>1, <2>2, <2>3, <1>2
  <2> QED BY <2>4 DEF p
<1>7. ASSUME NEW svc \in {"ra", "ns", "na"}
      PROVE  Passes(Received(Traffic("icmp6", svc, "linklocal6", "eth0", NoGroup)))
  <2> DEFINE p == Traffic("icmp6", svc, "linklocal6", "eth0", NoGroup)
  <2>1. /\ p \in Packet /\ p.verdict = "none" /\ p.to = "host" /\ p.addr = "linklocal6"
        /\ p.proto = "icmp6" /\ p.svc = svc
    BY TrafficIs, AddrFacts
  <2> HIDE DEF p
  <2>2. Matches(Icmp(AllRouters, Addrs), p)
    BY <2>1, AddrFacts, MatchFacts DEF AllRouters
  <2>3. Icmp(AllRouters, Addrs) \in AcceptIn
    BY DEF AcceptIn
  <2>4. Passes(Received(p))
    BY <2>1, <2>2, <2>3, <1>3, AllHeld
  <2> QED BY <2>4 DEF p
<1>8. \A x \in {<<"rs", "routers6">>, <<"ns", "solicited6">>, <<"na", "linklocal6">>} :
        Passes(Sent(Traffic("icmp6", x[1], x[2], "eth0", NoGroup)))
  <2> SUFFICES ASSUME NEW x \in {<<"rs", "routers6">>, <<"ns", "solicited6">>,
                                 <<"na", "linklocal6">>}
               PROVE  Passes(Sent(Traffic("icmp6", x[1], x[2], "eth0", NoGroup)))
    OBVIOUS
  <2>1. /\ x[1] \in {"rs", "ns", "na"} /\ x[2] \in {"routers6", "solicited6", "linklocal6"}
        /\ \/ x[1] = "rs" /\ x[2] = "routers6"
           \/ x[1] = "ns" /\ x[2] = "solicited6"
           \/ x[1] = "na" /\ x[2] = "linklocal6"
    OBVIOUS
  <2> QED BY <2>1, <1>6
<1> QED BY <1>1, <1>4, <1>5, <1>7, <1>8 DEF StillUsable

\* Whatever commits and removals fail and however often the daemon starts again
\* over the tables of an earlier one: the rules in the kernel stop what would
\* leave beside the tunnel, and let pass what must.
THEOREM FilterIsRight == FilterSpec => []FilterRight
<1>1. FilterInv => FilterRight
  BY InvEnclosed, InvExemptWorks, InvServerTalks, InvStillUsable, InvIsolated DEF FilterRight
<1> QED BY FilterInitInv, FilterNextInv, <1>1, PTL DEF FilterSpec

(***************************************************************************)
(* The resolvers of the Linux daemon.  Calls to resolved are under way     *)
(* while tunnels come and go, so the invariant speaks of what the domains  *)
(* of a link will be once the calls made so far are handled.               *)
(***************************************************************************)

\* The domains of the links, and the calls to resolved.
DomainMaps == [Links -> SUBSET Domains]
DnsCalls ==
  [op : {"domains"}, link : Nat, domains : SUBSET Domains] \cup
  [op : {"revert"}, link : Nat] \cup {GetDomains, Unheard}

\* A call changes the domains of a link, and what it gives the link.
Touches(c, l) == c.op \in {"domains", "revert"} /\ c.link = l
Gives(c) == IF c.op = "domains" THEN c.domains ELSE {}

Untouched(q, l) == \A i \in 1 .. Len(q) : ~Touches(q[i], l)

\* After the calls q the link has the domains v, if it had b before.
Ends(q, l, b, v) ==
  \/ Untouched(q, l) /\ v = b
  \/ \E n \in 1 .. Len(q) :
       /\ Touches(q[n], l)
       /\ \A i \in n .. Len(q) : Touches(q[i], l) => Gives(q[i]) = v

\* The call c leaves a link that exists with these domains.
LeavesLink(c, l, b) == IF Touches(c, l) THEN Gives(c) ELSE b

\* The calls hold no question about the domains, or the last one is asked when
\* nothing more happens to the network's link.
NoGet(q) == \A i \in 1 .. Len(q) : q[i].op # "get"
GetLast(q) ==
  \E k \in 1 .. Len(q) :
    /\ q[k].op = "get"
    /\ \A i \in k + 1 .. Len(q) : q[i].op # "get" /\ ~Touches(q[i], Net)

AllAnswered == NoGet(calls) /\ answers = <<>>

\* The answer a tells the domains of the network's link as they are.
Tells(a) == a = Error \/ a[Net] = linkDomains[Net]

\* The last answer will tell what the network's link has then.
UpToDate ==
  \/ GetLast(calls)
  \/ /\ NoGet(calls) /\ Untouched(calls, Net)
     /\ answers # <<>> /\ Tells(answers[Len(answers)])

\* What the daemon would restore gives the network's link its own domains back.
Restorable(v) ==
  /\ m_ifindex = 0 => m_linkDomains[Net] = {} /\ v = own
  /\ m_ifindex # 0 =>
       /\ \/ Root \in own /\ m_linkDomains[Net] = own /\ v = own \ {Root}
          \/ Root \notin m_linkDomains[Net] /\ m_linkDomains[Net] \in {{}, own} /\ v = own
       /\ AllAnswered \/ UpToDate

\* The tunnel takes all names, or an answer is still to come that gives them to it.
Resolving(v) ==
  tunnelLink # 0 =>
    /\ Root \notin v \/ UpToDate
    /\ AllAnswered => Ends(calls, tunnelLink, linkDomains[tunnelLink], {Root})

DnsTyped ==
  /\ m_ifindex = tunnelLink /\ made \in Nat /\ made <= MaxLinks /\ tunnelLink \in 0 .. made
  /\ m_linkDomains \in DomainMaps /\ linkDomains \in DomainMaps
  /\ calls \in Seq(DnsCalls) /\ answers \in Seq(DomainMaps \cup {Error})
  /\ own \in SUBSET Domains

DnsFits(v) ==
  /\ v \in SUBSET Domains
  /\ Ends(calls, Net, linkDomains[Net], v)
  /\ lapses \subseteq {"unread"} => Restorable(v)
  /\ lapses \cap {"changed", "unread"} = {} => Resolving(v)

DnsInv == DnsTyped /\ \E v : DnsFits(v)

\* The links are numbers, and the network's is none of the tunnel's.
LEMMA LinkFacts ==
  /\ Net \in Links /\ Net \in Nat /\ Net # 0 /\ Links \subseteq Nat /\ IsFiniteSet(Links)
  /\ NoDomains \in DomainMaps /\ \A l \in Links : NoDomains[l] = {}
  /\ \A l \in Nat : l <= MaxLinks => l # Net /\ (l # 0 => l \in Links)
<1>1. Net \in Nat /\ Net # 0 /\ Net \in Links /\ Links \subseteq Nat
  BY DnsAssumption DEF Net, Links
<1>2. IsFiniteSet(Links)
  BY <1>1, FS_Interval DEF Links
<1> QED BY <1>1, <1>2, DnsAssumption DEF Net, Links, NoDomains, DomainMaps

\* The calls that there are.
LEMMA CallFacts ==
  /\ \A l \in Nat, ds \in SUBSET Domains :
       /\ SetLinkDomains(l, ds) \in DnsCalls /\ SetLinkDomains(l, ds).op = "domains"
       /\ Gives(SetLinkDomains(l, ds)) = ds
       /\ \A k : Touches(SetLinkDomains(l, ds), k) <=> k = l
  /\ \A l \in Nat :
       /\ RevertLink(l) \in DnsCalls /\ RevertLink(l).op = "revert"
       /\ Gives(RevertLink(l)) = {} /\ \A k : Touches(RevertLink(l), k) <=> k = l
  /\ GetDomains \in DnsCalls /\ GetDomains.op = "get" /\ \A k : ~Touches(GetDomains, k)
  /\ Unheard \in DnsCalls /\ Unheard.op = "unheard" /\ \A k : ~Touches(Unheard, k)
BY DEF SetLinkDomains, RevertLink, GetDomains, Unheard, DnsCalls, Touches, Gives

\* What follows calls and does not touch the link leaves it as it will be.
LEMMA EndsUntouched ==
  ASSUME NEW S, NEW q \in Seq(S), NEW s \in Seq(S), NEW l, NEW b, NEW v,
         Ends(q, l, b, v), Untouched(s, l)
  PROVE  Ends(q \o s, l, b, v)
<1>1. /\ q \o s \in Seq(S) /\ Len(q) \in Nat /\ Len(s) \in Nat /\ Len(q \o s) = Len(q) + Len(s)
      /\ \A i \in 1 .. Len(q) : (q \o s)[i] = q[i]
      /\ \A i \in Len(q) + 1 .. Len(q \o s) : i - Len(q) \in 1 .. Len(s) /\ (q \o s)[i] = s[i - Len(q)]
  OBVIOUS
<1>2. \A i \in Len(q) + 1 .. Len(q \o s) : ~Touches((q \o s)[i], l)
  BY <1>1 DEF Untouched
<1>3. CASE Untouched(q, l) /\ v = b
  <2>1. Untouched(q \o s, l)
    BY <1>1, <1>2, <1>3 DEF Untouched
  <2> QED BY <2>1, <1>3 DEF Ends
<1>4. ASSUME NEW n \in 1 .. Len(q), Touches(q[n], l),
             \A i \in n .. Len(q) : Touches(q[i], l) => Gives(q[i]) = v
      PROVE  Ends(q \o s, l, b, v)
  <2>1. n \in 1 .. Len(q \o s) /\ Touches((q \o s)[n], l)
    BY <1>1, <1>4
  <2>2. \A i \in n .. Len(q \o s) : Touches((q \o s)[i], l) => Gives((q \o s)[i]) = v
    BY <1>1, <1>2, <1>4
  <2> QED BY <2>1, <2>2 DEF Ends
<1> QED BY <1>3, <1>4 DEF Ends

\* What follows and gives the link v decides.
LEMMA EndsGiven ==
  ASSUME NEW S, NEW q \in Seq(S), NEW s \in Seq(S), NEW l, NEW b, NEW v, NEW c,
         Ends(s, l, c, v), ~Untouched(s, l)
  PROVE  Ends(q \o s, l, b, v)
<1>1. /\ q \o s \in Seq(S) /\ Len(q) \in Nat /\ Len(s) \in Nat /\ Len(q \o s) = Len(q) + Len(s)
      /\ \A i \in 1 .. Len(s) : (q \o s)[i + Len(q)] = s[i]
      /\ \A i \in Len(q) + 1 .. Len(q \o s) : i - Len(q) \in 1 .. Len(s) /\ (q \o s)[i] = s[i - Len(q)]
  OBVIOUS
<1>2. PICK n \in 1 .. Len(s) : 
             /\ Touches(s[n], l)
             /\ \A i \in n .. Len(s) : Touches(s[i], l) => Gives(s[i]) = v
  BY DEF Ends
<1>3. n + Len(q) \in 1 .. Len(q \o s) /\ Touches((q \o s)[n + Len(q)], l)
  BY <1>1, <1>2
<1>4. ASSUME NEW i \in n + Len(q) .. Len(q \o s), Touches((q \o s)[i], l)
      PROVE  Gives((q \o s)[i]) = v
  <2>1. i \in Len(q) + 1 .. Len(q \o s) /\ i - Len(q) \in n .. Len(s)
    BY <1>1
  <2> QED BY <2>1, <1>1, <1>2, <1>4
<1> QED BY <1>3, <1>4 DEF Ends

\* resolved handles the first call.
LEMMA EndsTail ==
  ASSUME NEW S, NEW q \in Seq(S), q # <<>>, NEW l, NEW b, NEW v, Ends(q, l, b, v)
  PROVE  Ends(Tail(q), l, LeavesLink(Head(q), l, b), v)
<1> DEFINE t == Tail(q)
<1>1. /\ t \in Seq(S) /\ Len(q) \in Nat /\ Len(q) > 0 /\ Len(t) = Len(q) - 1 /\ Head(q) = q[1]
      /\ \A i \in 1 .. Len(t) : t[i] = q[i + 1]
  BY HeadTailProperties
<1>2. \A i \in 2 .. Len(q) : i - 1 \in 1 .. Len(t) /\ q[i] = t[i - 1]
  BY <1>1
<1> HIDE DEF t
<1>3. CASE Untouched(q, l) /\ v = b
  <2>1. Untouched(t, l) /\ LeavesLink(Head(q), l, b) = b
    BY <1>1, <1>3 DEF Untouched, LeavesLink
  <2> QED BY <2>1, <1>3 DEF Ends, t
<1>4. ASSUME NEW n \in 1 .. Len(q), Touches(q[n], l),
             \A i \in n .. Len(q) : Touches(q[i], l) => Gives(q[i]) = v
      PROVE  Ends(t, l, LeavesLink(Head(q), l, b), v)
  <2>1. ASSUME NEW m \in 1 .. Len(t), Touches(t[m], l), n <= m + 1
        PROVE  Ends(t, l, LeavesLink(Head(q), l, b), v)
    <3>1. \A i \in m .. Len(t) : Touches(t[i], l) => Gives(t[i]) = v
      BY <1>1, <1>4, <2>1
    <3> QED BY <2>1, <3>1 DEF Ends
  <2>2. CASE n > 1
    BY <2>1, <2>2, <1>2, <1>4
  <2>3. CASE n = 1 /\ Untouched(t, l)
    <3>1. LeavesLink(Head(q), l, b) = v
      BY <1>1, <1>4, <2>3 DEF LeavesLink
    <3> QED BY <3>1, <2>3 DEF Ends
  <2>4. CASE n = 1 /\ ~Untouched(t, l)
    BY <2>1, <2>4, <1>1 DEF Untouched
  <2> QED BY <2>2, <2>3, <2>4
<1> QED BY <1>3, <1>4 DEF Ends, t

\* Without calls the link stays as it is.
LEMMA EndsNow ==
  ASSUME NEW q, NEW l, NEW b, NEW v, Ends(q, l, b, v), Len(q) \in Nat, Untouched(q, l)
  PROVE  v = b
BY DEF Ends, Untouched

\* The calls of SetEach give every link with domains in m the ones of to.
LEMMA SetEachGives ==
  ASSUME NEW m \in DomainMaps, NEW to \in DomainMaps
  PROVE  /\ SetEach(m, to) \in Seq(DnsCalls) /\ NoGet(SetEach(m, to))
         /\ \A l \in Links :
              /\ m[l] = {} => Untouched(SetEach(m, to), l)
              /\ m[l] # {} => /\ ~Untouched(SetEach(m, to), l)
                              /\ Ends(SetEach(m, to), l, {}, to[l])
<1> DEFINE H == {l \in Links : m[l] # {}}
           each == SetToSeq(H)
           s == SetEach(m, to)
<1>1. IsFiniteSet(H)
  BY LinkFacts, FS_Subset
<1>2. /\ Cardinality(H) \in Nat /\ each \in Seq(H) /\ Len(each) = Cardinality(H)
      /\ \A x \in H : \E i \in 1 .. Cardinality(H) : each[i] = x
  BY <1>1, SetToSeqHas
<1>3. s = [i \in 1 .. Len(each) |-> SetLinkDomains(each[i], to[each[i]])]
  BY DEF SetEach
<1> HIDE DEF each, s
<1>4. \A l \in H : l \in Links /\ l \in Nat /\ m[l] # {} /\ to[l] \in SUBSET Domains
  BY LinkFacts DEF DomainMaps
<1>5. \A l \in Links : m[l] # {} => l \in H
  OBVIOUS
<1> HIDE DEF H
<1>6. /\ Len(each) \in Nat /\ \A i \in 1 .. Len(each) : each[i] \in H
      /\ \A l \in H : \E i \in 1 .. Len(each) : each[i] = l
  BY <1>2
<1>7. \A i \in 1 .. Len(each) :
        /\ s[i] \in DnsCalls /\ s[i].op = "domains" /\ Gives(s[i]) = to[each[i]]
        /\ \A l : Touches(s[i], l) <=> l = each[i]
  BY <1>6, <1>3, <1>4, CallFacts
<1>8. s \in Seq(DnsCalls) /\ Len(s) = Len(each)
  BY <1>6, <1>3, <1>7
<1>9. NoGet(s)
  BY <1>7, <1>8 DEF NoGet
<1>10. ASSUME NEW l \in Links, m[l] = {} PROVE Untouched(s, l)
  <2>1. \A i \in 1 .. Len(each) : each[i] # l
    BY <1>6, <1>4, <1>10
  <2> QED BY <2>1, <1>7, <1>8 DEF Untouched
<1>11. ASSUME NEW l \in Links, m[l] # {} PROVE ~Untouched(s, l) /\ Ends(s, l, {}, to[l])
  <2>1. PICK i \in 1 .. Len(s) : Touches(s[i], l)
    BY <1>6, <1>5, <1>7, <1>8, <1>11
  <2>2. \A j \in 1 .. Len(s) : Touches(s[j], l) => Gives(s[j]) = to[l]
    BY <1>7, <1>8
  <2>3. \A j \in i .. Len(s) : j \in 1 .. Len(s)
    BY <1>6, <1>8
  <2>4. ~Untouched(s, l)
    BY <2>1 DEF Untouched
  <2>5. Ends(s, l, {}, to[l])
    BY <2>1, <2>2, <2>3 DEF Ends
  <2> QED BY <2>4, <2>5
<1> QED BY <1>8, <1>9, <1>10, <1>11 DEF s

\* A single call, and none.
LEMMA OneCall ==
  ASSUME NEW c \in DnsCalls
  PROVE  /\ <<c>> \in Seq(DnsCalls) /\ Len(<<c>>) = 1 /\ <<c>>[1] = c
         /\ \A l : Untouched(<<c>>, l) <=> ~Touches(c, l)
         /\ \A l, b : Ends(<<c>>, l, b, LeavesLink(c, l, b))
<1>1. <<c>> \in Seq(DnsCalls) /\ Len(<<c>>) = 1 /\ <<c>>[1] = c
  OBVIOUS
<1>2. \A l : Untouched(<<c>>, l) <=> ~Touches(c, l)
  BY <1>1 DEF Untouched
<1>3. ASSUME NEW l, NEW b PROVE Ends(<<c>>, l, b, LeavesLink(c, l, b))
  BY <1>1, <1>2 DEF Ends, LeavesLink
<1> QED BY <1>1, <1>2, <1>3

\* The calls of restoreResolvers() give the network's link what was saved of it.
LEMMA RestoreGives ==
  ASSUME DnsTyped
  PROVE  /\ restoreResolvers \in Seq(DnsCalls)
         /\ m_linkDomains[Net] = {} => Untouched(restoreResolvers, Net)
         /\ m_linkDomains[Net] # {} => /\ ~Untouched(restoreResolvers, Net)
                                       /\ Ends(restoreResolvers, Net, {}, m_linkDomains[Net])
<1> DEFINE s == SetEach(m_linkDomains, m_linkDomains)
           r == IF m_ifindex > 0 THEN <<RevertLink(m_ifindex)>> ELSE <<>>
<1>1. m_linkDomains \in DomainMaps /\ m_ifindex \in Nat /\ m_ifindex # Net /\ Net \in Links
  BY LinkFacts, DnsAssumption DEF DnsTyped
<1>2. /\ s \in Seq(DnsCalls)
      /\ m_linkDomains[Net] = {} => Untouched(s, Net)
      /\ m_linkDomains[Net] # {} => ~Untouched(s, Net) /\ Ends(s, Net, {}, m_linkDomains[Net])
  BY <1>1, SetEachGives
<1>3. r \in Seq(DnsCalls) /\ Untouched(r, Net)
  <2>1. CASE m_ifindex > 0
    BY <2>1, <1>1, CallFacts, OneCall
  <2>2. CASE ~(m_ifindex > 0)
    <3>1. r = <<>> /\ <<>> \in Seq(DnsCalls) /\ Len(<<>>) = 0
      BY <2>2
    <3> QED BY <3>1 DEF Untouched
  <2> QED BY <2>1, <2>2
<1>4. restoreResolvers = s \o r
  BY DEF restoreResolvers
<1> HIDE DEF s, r
<1>5. /\ s \o r \in Seq(DnsCalls) /\ Len(s) \in Nat /\ Len(r) \in Nat /\ Len(s \o r) = Len(s) + Len(r)
      /\ \A i \in 1 .. Len(s) : (s \o r)[i] = s[i]
      /\ \A i \in Len(s) + 1 .. Len(s \o r) : i - Len(s) \in 1 .. Len(r) /\ (s \o r)[i] = r[i - Len(s)]
  BY <1>2, <1>3
<1>6. Untouched(s \o r, Net) <=> Untouched(s, Net)
  BY <1>3, <1>5 DEF Untouched
<1>7. m_linkDomains[Net] # {} => Ends(s \o r, Net, {}, m_linkDomains[Net])
  BY <1>2, <1>3, EndsUntouched
<1> QED BY <1>2, <1>4, <1>5, <1>6, <1>7

\* A question asked last will be answered with what the links have then.
LEMMA AskedLast ==
  ASSUME NEW q \in Seq(DnsCalls)
  PROVE  /\ q \o <<GetDomains>> \in Seq(DnsCalls)
         /\ GetLast(q \o <<GetDomains>>) /\ ~NoGet(q \o <<GetDomains>>)
         /\ \A l, b, v : Ends(q, l, b, v) => Ends(q \o <<GetDomains>>, l, b, v)
<1> DEFINE g == <<GetDomains>>
<1>1. g \in Seq(DnsCalls) /\ Len(g) = 1 /\ g[1] = GetDomains /\ \A l : Untouched(g, l)
  BY CallFacts, OneCall
<1> HIDE DEF g
<1>2. /\ q \o g \in Seq(DnsCalls) /\ Len(q) \in Nat /\ Len(q \o g) = Len(q) + 1
      /\ (q \o g)[Len(q) + 1] = GetDomains
  <2>1. /\ q \o g \in Seq(DnsCalls) /\ Len(q \o g) = Len(q) + Len(g)
        /\ \A i \in 1 .. Len(q) + Len(g) : (q \o g)[i] = IF i <= Len(q) THEN q[i] ELSE g[i - Len(q)]
    BY <1>1, ConcatProperties
  <2>2. Len(q) \in Nat /\ Len(q) + 1 \in 1 .. Len(q) + Len(g) /\ ~(Len(q) + 1 <= Len(q))
        /\ (Len(q) + 1) - Len(q) = 1
    BY <1>1
  <2> QED BY <1>1, <2>1, <2>2
<1>3. Len(q) + 1 \in 1 .. Len(q \o g) /\ (q \o g)[Len(q) + 1].op = "get"
  BY <1>2, CallFacts
<1>4. \A i \in Len(q) + 1 + 1 .. Len(q \o g) : FALSE
  BY <1>2
<1>5. GetLast(q \o g) /\ ~NoGet(q \o g)
  BY <1>3, <1>4 DEF GetLast, NoGet
<1>6. \A l, b, v : Ends(q, l, b, v) => Ends(q \o g, l, b, v)
  BY <1>1, EndsUntouched
<1> QED BY <1>2, <1>5, <1>6 DEF g

\* updateResolvers(): whatever is on its way, a later answer will tell.
LEMMA UpdateKeeps ==
  ASSUME NEW q \in Seq(DnsCalls), NEW v \in SUBSET Domains,
         Ends(q, Net, linkDomains[Net], v), calls' = q \o <<GetDomains>>,
         UNCHANGED linkDomains, tunnelLink' # 0
  PROVE  /\ calls' \in Seq(DnsCalls) /\ Ends(calls, Net, linkDomains[Net], v)'
         /\ UpToDate' /\ Resolving(v)'
<1>1. calls' \in Seq(DnsCalls) /\ GetLast(calls') /\ ~NoGet(calls') /\ Ends(calls', Net, linkDomains[Net], v)
  BY AskedLast
<1>2. UpToDate' /\ ~AllAnswered'
  BY <1>1 DEF UpToDate, AllAnswered
<1> QED BY <1>1, <1>2 DEF Resolving

\* A tunnel's interface is made, or used again.
LEMMA DnsActivatesKeep ==
  ASSUME DnsInv, dnsActivates \/ dnsActivatesAgain
  PROVE  DnsInv'
<1>1. PICK v : DnsFits(v)
  BY DEF DnsInv
<1>2. /\ DnsTyped /\ v \in SUBSET Domains /\ calls \in Seq(DnsCalls)
      /\ Ends(calls, Net, linkDomains[Net], v)
  BY <1>1 DEF DnsInv, DnsFits, DnsTyped
<1>3. /\ UNCHANGED <<m_linkDomains, linkDomains, answers, own, lapses>>
      /\ m_ifindex' = tunnelLink' /\ tunnelLink' # 0
      /\ made' \in Nat /\ made' <= MaxLinks /\ tunnelLink' \in 0 .. made'
      /\ calls' = calls \o <<>> \o <<GetDomains>>
  BY <1>2, DnsAssumption DEF dnsActivates, dnsActivatesAgain, updateResolvers, DnsTyped
<1>4. calls' = calls \o <<GetDomains>>
  BY <1>2, <1>3, ConcatEmptySeq
<1>5. /\ calls' \in Seq(DnsCalls) /\ Ends(calls, Net, linkDomains[Net], v)'
      /\ UpToDate' /\ Resolving(v)'
  BY <1>2, <1>3, <1>4, UpdateKeeps
<1>6. DnsTyped'
  BY <1>2, <1>3, <1>5 DEF DnsTyped
<1>7. ASSUME lapses \subseteq {"unread"} PROVE Restorable(v)'
  BY <1>1, <1>3, <1>5, <1>7 DEF DnsFits, Restorable
<1>8. DnsFits(v)'
  BY <1>2, <1>3, <1>5, <1>7 DEF DnsFits
<1> QED BY <1>6, <1>8 DEF DnsInv

\* What the network's link will have after restoreResolvers().
LEMMA RestoreKeeps ==
  ASSUME DnsTyped, NEW v, DnsFits(v)
  PROVE  /\ calls \o restoreResolvers \in Seq(DnsCalls)
         /\ \E w \in SUBSET Domains :
              /\ Ends(calls \o restoreResolvers, Net, linkDomains[Net], w)
              /\ lapses \subseteq {"unread"} => w = own
<1>1. calls \in Seq(DnsCalls) /\ restoreResolvers \in Seq(DnsCalls) /\ m_linkDomains \in DomainMaps
  BY RestoreGives DEF DnsTyped
<1>2. calls \o restoreResolvers \in Seq(DnsCalls)
  BY <1>1
<1>3. m_linkDomains[Net] \in SUBSET Domains /\ v \in SUBSET Domains
      /\ Ends(calls, Net, linkDomains[Net], v)
  BY <1>1, LinkFacts DEF DomainMaps, DnsFits
<1>4. CASE m_linkDomains[Net] = {}
  <2>1. Ends(calls \o restoreResolvers, Net, linkDomains[Net], v)
    BY <1>1, <1>3, <1>4, RestoreGives, EndsUntouched
  <2>2. lapses \subseteq {"unread"} => v = own
    BY <1>4 DEF DnsFits, Restorable
  <2> QED BY <1>2, <1>3, <2>1, <2>2
<1>5. CASE m_linkDomains[Net] # {}
  <2>1. Ends(calls \o restoreResolvers, Net, linkDomains[Net], m_linkDomains[Net])
    BY <1>1, <1>5, RestoreGives, EndsGiven
  <2>2. lapses \subseteq {"unread"} => m_linkDomains[Net] = own
    BY <1>5 DEF DnsFits, Restorable
  <2> QED BY <1>2, <1>3, <2>1, <2>2
<1> QED BY <1>4, <1>5

\* A switch restores and asks again.
LEMMA DnsSwitchKeeps ==
  ASSUME DnsInv, dnsSwitches
  PROVE  DnsInv'
<1>1. PICK v : DnsFits(v)
  BY DEF DnsInv
<1>2. PICK w \in SUBSET Domains :
        /\ Ends(calls \o restoreResolvers, Net, linkDomains[Net], w)
        /\ lapses \subseteq {"unread"} => w = own
  BY <1>1, RestoreKeeps DEF DnsInv
<1>3. calls \o restoreResolvers \in Seq(DnsCalls)
  BY <1>1, RestoreKeeps DEF DnsInv
<1>4. /\ UNCHANGED <<tunnelLink, linkDomains, made, answers, own, lapses>>
      /\ m_ifindex' = tunnelLink' /\ tunnelLink' # 0
      /\ m_linkDomains' = NoDomains
      /\ calls' = calls \o restoreResolvers \o <<GetDomains>>
  BY DEF dnsSwitches, updateResolvers, DnsInv, DnsTyped
<1>5. /\ calls' \in Seq(DnsCalls) /\ Ends(calls, Net, linkDomains[Net], w)'
      /\ UpToDate' /\ Resolving(w)'
  BY <1>2, <1>3, <1>4, UpdateKeeps
<1>6. m_linkDomains' \in DomainMaps /\ m_linkDomains'[Net] = {}
  BY <1>4, LinkFacts
<1>7. DnsTyped'
  BY <1>4, <1>5, <1>6 DEF DnsInv, DnsTyped
<1>8. ASSUME lapses \subseteq {"unread"} PROVE Restorable(w)'
  BY <1>2, <1>4, <1>5, <1>6, <1>8 DEF Restorable
<1>9. DnsFits(w)'
  BY <1>2, <1>4, <1>5, <1>8 DEF DnsFits
<1> QED BY <1>7, <1>9 DEF DnsInv

\* The tunnel's interface goes with its domains.
LEMMA LinkGone ==
  ASSUME DnsTyped, linkDomains' = [linkDomains EXCEPT ![tunnelLink] = {}]
  PROVE  linkDomains' \in DomainMaps /\ linkDomains'[Net] = linkDomains[Net]
<1>1. tunnelLink # Net /\ Net \in Links /\ linkDomains \in DomainMaps
  BY LinkFacts, DnsAssumption DEF DnsTyped
<1> QED BY <1>1 DEF DomainMaps

\* The end of the tunnel restores.
LEMMA DnsDeactivateKeeps ==
  ASSUME DnsInv, dnsDeactivates
  PROVE  DnsInv'
<1>1. PICK v : DnsFits(v)
  BY DEF DnsInv
<1>2. PICK w \in SUBSET Domains :
        /\ Ends(calls \o restoreResolvers, Net, linkDomains[Net], w)
        /\ lapses \subseteq {"unread"} => w = own
  BY <1>1, RestoreKeeps DEF DnsInv
<1>3. calls \o restoreResolvers \in Seq(DnsCalls)
  BY <1>1, RestoreKeeps DEF DnsInv
<1>4. /\ UNCHANGED <<made, answers, own, lapses>>
      /\ m_ifindex' = 0 /\ tunnelLink' = 0 /\ m_linkDomains' = NoDomains
      /\ calls' = calls \o restoreResolvers
      /\ linkDomains' = [linkDomains EXCEPT ![tunnelLink] = {}]
  BY DEF dnsDeactivates
<1>5. linkDomains' \in DomainMaps /\ linkDomains'[Net] = linkDomains[Net]
  BY <1>4, LinkGone DEF DnsInv
<1>6. m_linkDomains' \in DomainMaps /\ m_linkDomains'[Net] = {}
  BY <1>4, LinkFacts
<1>7. DnsTyped'
  BY <1>3, <1>4, <1>5, <1>6 DEF DnsInv, DnsTyped
<1>8. DnsFits(w)'
  BY <1>2, <1>4, <1>5, <1>6 DEF DnsFits, Restorable, Resolving
<1> QED BY <1>7, <1>8 DEF DnsInv

\* Calls that ask nothing follow others.
LEMMA FollowedBy ==
  ASSUME NEW q \in Seq(DnsCalls), NEW s \in Seq(DnsCalls), NoGet(s)
  PROVE  /\ q \o s \in Seq(DnsCalls)
         /\ NoGet(q) <=> NoGet(q \o s)
         /\ \A l : Untouched(q, l) /\ Untouched(s, l) <=> Untouched(q \o s, l)
         /\ GetLast(q) /\ Untouched(s, Net) => GetLast(q \o s)
<1>1. /\ q \o s \in Seq(DnsCalls) /\ Len(q) \in Nat /\ Len(s) \in Nat /\ Len(q \o s) = Len(q) + Len(s)
      /\ \A i \in 1 .. Len(q) : i \in 1 .. Len(q \o s) /\ (q \o s)[i] = q[i]
      /\ \A i \in 1 .. Len(s) : i + Len(q) \in 1 .. Len(q \o s) /\ (q \o s)[i + Len(q)] = s[i]
      /\ \A i \in Len(q) + 1 .. Len(q \o s) : i - Len(q) \in 1 .. Len(s) /\ (q \o s)[i] = s[i - Len(q)]
  OBVIOUS
<1>2. NoGet(q) <=> NoGet(q \o s)
  BY <1>1 DEF NoGet
<1>3. ASSUME NEW l PROVE Untouched(q, l) /\ Untouched(s, l) <=> Untouched(q \o s, l)
  BY <1>1 DEF Untouched
<1>4. ASSUME GetLast(q), Untouched(s, Net) PROVE GetLast(q \o s)
  <2>1. PICK k \in 1 .. Len(q) :
          /\ q[k].op = "get"
          /\ \A i \in k + 1 .. Len(q) : q[i].op # "get" /\ ~Touches(q[i], Net)
    BY <1>4 DEF GetLast
  <2>2. k \in 1 .. Len(q \o s) /\ (q \o s)[k].op = "get"
    BY <1>1, <2>1
  <2>3. \A i \in k + 1 .. Len(q \o s) : (q \o s)[i].op # "get" /\ ~Touches((q \o s)[i], Net)
    BY <1>1, <1>4, <2>1 DEF NoGet, Untouched
  <2> QED BY <2>2, <2>3 DEF GetLast
<1> QED BY <1>1, <1>2, <1>3, <1>4

\* The last answer stays the last when an earlier one is taken.
LEMMA LastAnswer ==
  ASSUME NEW S, NEW q \in Seq(S), q # <<>>
  PROVE  /\ Head(q) \in S /\ Tail(q) \in Seq(S) /\ Len(q) \in Nat
         /\ Len(q) <= 1 => Tail(q) = <<>> /\ q[Len(q)] = Head(q)
         /\ Tail(q) = <<>> => q[Len(q)] = Head(q)
         /\ Tail(q) # <<>> => Tail(q)[Len(Tail(q))] = q[Len(q)]
<1>1. /\ Head(q) \in S /\ Tail(q) \in Seq(S) /\ Len(Tail(q)) = Len(q) - 1 /\ Head(q) = q[1]
      /\ \A i \in 1 .. Len(Tail(q)) : Tail(q)[i] = q[i + 1]
      /\ Len(q) \in Nat /\ Len(q) > 0
  BY HeadTailProperties
<1>2. Tail(q) = <<>> <=> Len(Tail(q)) = 0
  BY <1>1, EmptySeq
<1> QED BY <1>1, <1>2

\* What dnsDomainsReceived() asks of resolved for the answer m.
LEMMA ReceivedCalls ==
  ASSUME DnsTyped, dnsDomainsReceived, NEW v, DnsFits(v), NEW m, m = Head(answers)
  PROVE  /\ calls' \in Seq(DnsCalls) /\ (NoGet(calls) <=> NoGet(calls'))
         /\ tunnelLink # 0 => Ends(calls', tunnelLink, linkDomains[tunnelLink], {Root})
         /\ Root \in m[Net] => Ends(calls', Net, linkDomains[Net], m[Net] \ {Root})
         /\ Root \notin m[Net] =>
              /\ Ends(calls', Net, linkDomains[Net], v)
              /\ GetLast(calls) => GetLast(calls')
              /\ Untouched(calls, Net) => Untouched(calls', Net)
<1> DEFINE competing == [l \in Links |-> IF Root \in m[l] THEN m[l] ELSE {}]
           to == [l \in Links |-> NewDomains(m[l])]
           s == SetEach(competing, to)
           c == SetLinkDomains(m_ifindex, {Root})
<1>1. /\ answers # <<>> /\ m # Error /\ calls \in Seq(DnsCalls)
      /\ calls' = Append(calls \o s, c)
  BY DEF dnsDomainsReceived, DnsTyped
<1>2. m \in DomainMaps
  BY <1>1, LastAnswer DEF DnsTyped
<1>3. competing \in DomainMaps /\ to \in DomainMaps
  BY <1>2 DEF DomainMaps, NewDomains
<1>4. Net \in Links /\ competing[Net] = (IF Root \in m[Net] THEN m[Net] ELSE {})
      /\ to[Net] = m[Net] \ {Root}
  BY LinkFacts DEF NewDomains
<1> HIDE DEF competing, to
<1>5. /\ s \in Seq(DnsCalls) /\ NoGet(s)
      /\ Root \notin m[Net] => Untouched(s, Net)
      /\ Root \in m[Net] => ~Untouched(s, Net) /\ Ends(s, Net, {}, m[Net] \ {Root})
  <2>1. /\ s \in Seq(DnsCalls) /\ NoGet(s)
        /\ competing[Net] = {} => Untouched(s, Net)
        /\ competing[Net] # {} => ~Untouched(s, Net) /\ Ends(s, Net, {}, to[Net])
    BY <1>3, <1>4, SetEachGives
  <2> QED BY <2>1, <1>4
<1>6. m_ifindex \in Nat /\ m_ifindex # Net /\ m_ifindex = tunnelLink /\ {Root} \in SUBSET Domains
  BY LinkFacts, DnsAssumption DEF DnsTyped, Domains
<1>7. /\ c \in DnsCalls /\ c.op = "domains" /\ Gives(c) = {Root}
      /\ \A k : Touches(c, k) <=> k = m_ifindex
  BY <1>6, CallFacts
<1> HIDE DEF s, c
<1>8. /\ <<c>> \in Seq(DnsCalls) /\ NoGet(<<c>>) /\ Untouched(<<c>>, Net)
      /\ ~Untouched(<<c>>, m_ifindex) /\ Ends(<<c>>, m_ifindex, {}, {Root})
  BY <1>6, <1>7, OneCall DEF NoGet, LeavesLink
<1>9. calls \o s \in Seq(DnsCalls) /\ calls' = (calls \o s) \o <<c>>
  BY <1>1, <1>5, <1>7, AppendIsConcat, ConcatProperties
<1>10. calls' \in Seq(DnsCalls) /\ (NoGet(calls) <=> NoGet(calls'))
  BY <1>1, <1>5, <1>8, <1>9, FollowedBy
<1>11. Ends(calls', tunnelLink, linkDomains[tunnelLink], {Root})
  BY <1>6, <1>8, <1>9, EndsGiven
<1>12. ASSUME Root \in m[Net] PROVE Ends(calls', Net, linkDomains[Net], m[Net] \ {Root})
  <2>1. Ends(calls \o s, Net, linkDomains[Net], m[Net] \ {Root})
    BY <1>1, <1>5, <1>12, EndsGiven
  <2> QED BY <2>1, <1>8, <1>9, EndsUntouched
<1>13. ASSUME Root \notin m[Net]
       PROVE  /\ Ends(calls', Net, linkDomains[Net], v)
              /\ GetLast(calls) => GetLast(calls')
              /\ Untouched(calls, Net) => Untouched(calls', Net)
  <2>1. Ends(calls \o s, Net, linkDomains[Net], v)
    BY <1>1, <1>5, <1>13, EndsUntouched DEF DnsFits
  <2>2. Ends(calls', Net, linkDomains[Net], v)
    BY <2>1, <1>8, <1>9, EndsUntouched
  <2>3. GetLast(calls) => GetLast(calls \o s)
    BY <1>1, <1>5, <1>13, FollowedBy
  <2>4. Untouched(calls, Net) => Untouched(calls \o s, Net)
    BY <1>1, <1>5, <1>13, FollowedBy
  <2> QED BY <2>2, <2>3, <2>4, <1>8, <1>9, FollowedBy
<1> QED BY <1>10, <1>11, <1>12, <1>13

\* An answer gives the tunnel all names.
LEMMA DnsReceivedKeeps ==
  ASSUME DnsInv, dnsDomainsReceived
  PROVE  DnsInv'
<1> DEFINE m == Head(answers)
<1>1. PICK v : DnsFits(v)
  BY DEF DnsInv
<1>2. DnsTyped /\ calls \in Seq(DnsCalls) /\ Len(calls) \in Nat /\ DOMAIN calls = 1 .. Len(calls)
      /\ v \in SUBSET Domains /\ Ends(calls, Net, linkDomains[Net], v)
  BY <1>1 DEF DnsInv, DnsTyped, DnsFits
<1>3. /\ answers # <<>> /\ m # Error /\ answers' = Tail(answers) /\ m_linkDomains' = m
      /\ UNCHANGED <<m_ifindex, tunnelLink, made, linkDomains, own>>
      /\ lapses \subseteq lapses'
      /\ m_ifindex = 0 \/ MoreToCome => "late" \in lapses'
      /\ Root \in m_linkDomains[Net] \ m[Net] => "twice" \in lapses'
  BY DEF dnsDomainsReceived
<1>4. /\ m \in DomainMaps \cup {Error} /\ Tail(answers) \in Seq(DomainMaps \cup {Error}) /\ Len(answers) \in Nat
      /\ Len(answers) <= 1 => Tail(answers) = <<>> /\ answers[Len(answers)] = m
      /\ Tail(answers) = <<>> => answers[Len(answers)] = m
      /\ Tail(answers) # <<>> => Tail(answers)[Len(Tail(answers))] = answers[Len(answers)]
  BY <1>2, <1>3, LastAnswer DEF DnsTyped
<1>5. m \in DomainMaps /\ m[Net] \in SUBSET Domains
  BY <1>3, <1>4, LinkFacts DEF DomainMaps
<1> HIDE DEF m
<1>6. /\ calls' \in Seq(DnsCalls) /\ (NoGet(calls) <=> NoGet(calls'))
      /\ tunnelLink # 0 => Ends(calls', tunnelLink, linkDomains[tunnelLink], {Root})
      /\ Root \in m[Net] => Ends(calls', Net, linkDomains[Net], m[Net] \ {Root})
      /\ Root \notin m[Net] =>
              /\ Ends(calls', Net, linkDomains[Net], v)
              /\ GetLast(calls) => GetLast(calls')
              /\ Untouched(calls, Net) => Untouched(calls', Net)
  BY <1>1, <1>2, ReceivedCalls DEF m
<1>7. PICK w : w = IF Root \in m[Net] THEN m[Net] \ {Root} ELSE v
  OBVIOUS
<1>8. w \in SUBSET Domains /\ Ends(calls', Net, linkDomains'[Net], w)
  BY <1>7, <1>2, <1>3, <1>5, <1>6
<1>9. ASSUME lapses' \subseteq {"unread"} PROVE Restorable(w)'
  <2>1. m_ifindex # 0 /\ ~MoreToCome /\ ~(Root \in m_linkDomains[Net] \ m[Net]) /\ Restorable(v)
    BY <1>1, <1>3, <1>9 DEF DnsFits
  <2>2. Len(answers) <= 1 /\ NoGet(calls)
    BY <1>2, <1>4, <2>1 DEF MoreToCome, NoGet
  <2>3. ~AllAnswered /\ ~GetLast(calls)
    BY <1>3, <2>2 DEF AllAnswered, GetLast, NoGet
  <2>4. Untouched(calls, Net) /\ Tells(m)
    BY <1>4, <2>1, <2>2, <2>3 DEF Restorable, UpToDate
  <2>5. v = m[Net]
    BY <1>2, <1>3, <2>4, EndsNow DEF Tells
  <2>6. AllAnswered'
    BY <1>3, <1>4, <1>6, <2>2 DEF AllAnswered
  <2>7. v = own
    BY <2>1, <2>5 DEF Restorable
  <2> QED BY <1>7, <1>3, <2>1, <2>5, <2>6, <2>7 DEF Restorable
<1>10. ASSUME lapses' \cap {"changed", "unread"} = {}, tunnelLink # 0 PROVE Resolving(w)'
  <2>1. Resolving(v)
    BY <1>1, <1>3, <1>10 DEF DnsFits
  <2>2. Root \notin v \/ UpToDate
    BY <2>1, <1>10 DEF Resolving
  <2>3. Root \notin w \/ UpToDate'
    <3>1. SUFFICES ASSUME Root \notin m[Net], Root \in v PROVE UpToDate'
      BY <1>7
    <3>2. CASE GetLast(calls)
      BY <3>1, <3>2, <1>6 DEF UpToDate
    <3>3. CASE /\ NoGet(calls) /\ Untouched(calls, Net)
               /\ answers # <<>> /\ Tells(answers[Len(answers)])
      <4>1. v = linkDomains[Net]
        BY <3>3, <1>2, EndsNow
      <4>2. Tail(answers) # <<>>
        BY <4>1, <3>1, <3>3, <1>3, <1>4 DEF Tells
      <4>3. Tells(answers[Len(answers)])'
        BY <4>2, <3>3, <1>3, <1>4 DEF Tells
      <4> QED BY <4>2, <4>3, <3>1, <3>3, <1>3, <1>6 DEF UpToDate
    <3> QED BY <2>2, <3>1, <3>2, <3>3 DEF UpToDate
  <2> QED BY <2>3, <1>3, <1>6, <1>10 DEF Resolving
<1>11. DnsTyped'
  BY <1>2, <1>3, <1>4, <1>5, <1>6 DEF DnsTyped
<1>12. tunnelLink = 0 => Resolving(w)'
  BY <1>3 DEF Resolving
<1>13. DnsFits(w)'
  BY <1>8, <1>9, <1>10, <1>12 DEF DnsFits
<1> QED BY <1>11, <1>13 DEF DnsInv

\* An answer that is an error is dropped.
LEMMA DnsUnreadKeeps ==
  ASSUME DnsInv, dnsDomainsUnread
  PROVE  DnsInv'
<1>1. PICK v : DnsFits(v)
  BY DEF DnsInv
<1>2. DnsTyped
  BY DEF DnsInv
<1>3. /\ answers # <<>> /\ answers' = Tail(answers) /\ lapses' = lapses \cup {"unread"}
      /\ UNCHANGED <<m_ifindex, m_linkDomains, tunnelLink, made, linkDomains, calls, own>>
  BY DEF dnsDomainsUnread
<1>4. /\ Tail(answers) \in Seq(DomainMaps \cup {Error})
      /\ Tail(answers) # <<>> => Tail(answers)[Len(Tail(answers))] = answers[Len(answers)]
  BY <1>2, <1>3, LastAnswer DEF DnsTyped
<1>5. AllAnswered \/ UpToDate => (AllAnswered \/ UpToDate)'
  <2>1. ~AllAnswered
    BY <1>3 DEF AllAnswered
  <2>2. CASE GetLast(calls)
    BY <2>2, <1>3 DEF UpToDate
  <2>3. CASE /\ NoGet(calls) /\ Untouched(calls, Net)
             /\ answers # <<>> /\ Tells(answers[Len(answers)])
    <3>1. CASE Tail(answers) = <<>>
      BY <2>3, <3>1, <1>3 DEF AllAnswered
    <3>2. CASE Tail(answers) # <<>>
      <4>1. Tells(answers[Len(answers)])'
        BY <2>3, <3>2, <1>3, <1>4 DEF Tells
      <4> QED BY <4>1, <2>3, <3>2, <1>3 DEF UpToDate
    <3> QED BY <3>1, <3>2
  <2> QED BY <2>1, <2>2, <2>3 DEF UpToDate
<1>6. DnsTyped'
  BY <1>2, <1>3, <1>4 DEF DnsTyped
<1>7. ASSUME lapses' \subseteq {"unread"} PROVE Restorable(v)'
  <2>1. Restorable(v)
    BY <1>1, <1>3, <1>7 DEF DnsFits
  <2> QED BY <2>1, <1>3, <1>5 DEF Restorable
<1>8. DnsFits(v)'
  BY <1>1, <1>3, <1>7 DEF DnsFits
<1> QED BY <1>6, <1>8 DEF DnsInv

\* The daemon dies: its settings arrive all the same.
LEMMA DnsCrashKeeps ==
  ASSUME DnsInv, dnsCrashes
  PROVE  DnsInv'
<1>1. PICK v : DnsFits(v)
  BY DEF DnsInv
<1>2. DnsTyped /\ calls \in Seq(DnsCalls) /\ Len(calls) \in Nat /\ DOMAIN calls = 1 .. Len(calls)
  BY DEF DnsInv, DnsTyped
<1>3. /\ m_ifindex' = 0 /\ m_linkDomains' = NoDomains /\ tunnelLink' = 0 /\ answers' = <<>>
      /\ calls' = [i \in 1 .. Len(calls) |-> IF calls[i].op = "get" THEN Unheard ELSE calls[i]]
      /\ linkDomains' = [linkDomains EXCEPT ![tunnelLink] = {}]
      /\ lapses' = lapses \cup {"crash"} /\ UNCHANGED <<made, own>>
  BY <1>2 DEF dnsCrashes
<1>4. linkDomains' \in DomainMaps /\ linkDomains'[Net] = linkDomains[Net]
  BY <1>2, <1>3, LinkGone
<1>5. \A i \in 1 .. Len(calls) :
        /\ calls'[i] \in DnsCalls
        /\ Touches(calls'[i], Net) <=> Touches(calls[i], Net)
        /\ Touches(calls[i], Net) => calls'[i] = calls[i]
  BY <1>2, <1>3, CallFacts DEF Touches
<1>6. calls' \in Seq(DnsCalls) /\ Len(calls') = Len(calls)
  BY <1>2, <1>3, <1>5
<1>7. Ends(calls', Net, linkDomains[Net], v)
  <2>1. Ends(calls, Net, linkDomains[Net], v)
    BY <1>1 DEF DnsFits
  <2>2. CASE Untouched(calls, Net) /\ v = linkDomains[Net]
    BY <2>2, <1>5, <1>6 DEF Untouched, Ends
  <2>3. ASSUME NEW n \in 1 .. Len(calls), Touches(calls[n], Net),
               \A i \in n .. Len(calls) : Touches(calls[i], Net) => Gives(calls[i]) = v
        PROVE  Ends(calls', Net, linkDomains[Net], v)
    <3>1. n \in 1 .. Len(calls') /\ Touches(calls'[n], Net)
      BY <2>3, <1>5, <1>6
    <3>2. \A i \in n .. Len(calls') : Touches(calls'[i], Net) => Gives(calls'[i]) = v
      BY <2>3, <1>2, <1>5, <1>6
    <3> QED BY <3>1, <3>2 DEF Ends
  <2> QED BY <2>1, <2>2, <2>3 DEF Ends
<1>8. DnsTyped'
  <2>1. answers' \in Seq(DomainMaps \cup {Error})
    BY <1>3
  <2>2. m_linkDomains' \in DomainMaps
    BY <1>3, LinkFacts
  <2> QED BY <1>2, <1>3, <1>4, <1>6, <2>1, <2>2 DEF DnsTyped
<1>9. DnsFits(v)'
  BY <1>1, <1>3, <1>4, <1>7 DEF DnsFits, Resolving
<1> QED BY <1>8, <1>9 DEF DnsInv

\* What is left of the calls when the first one is taken.
LEMMA RestOfCalls ==
  ASSUME NEW q \in Seq(DnsCalls), q # <<>>
  PROVE  /\ Tail(q) \in Seq(DnsCalls) /\ Head(q) \in DnsCalls
         /\ NoGet(q) <=> NoGet(Tail(q)) /\ Head(q).op # "get"
         /\ \A l : Untouched(q, l) <=> Untouched(Tail(q), l) /\ ~Touches(Head(q), l)
         /\ GetLast(q) /\ Head(q).op # "get" => GetLast(Tail(q))
         /\ GetLast(q) => GetLast(Tail(q)) \/ (NoGet(Tail(q)) /\ Untouched(Tail(q), Net))
<1> DEFINE t == Tail(q)
<1>1. /\ t \in Seq(DnsCalls) /\ Head(q) \in DnsCalls /\ Len(q) \in Nat /\ Len(q) > 0
      /\ Len(t) = Len(q) - 1 /\ Head(q) = q[1]
      /\ \A i \in 1 .. Len(t) : t[i] = q[i + 1]
  BY HeadTailProperties
<1>2. /\ \A i \in 2 .. Len(q) : i - 1 \in 1 .. Len(t) /\ q[i] = t[i - 1]
      /\ \A i \in 1 .. Len(t) : i + 1 \in 1 .. Len(q)
      /\ 1 \in 1 .. Len(q) /\ \A i \in 1 .. Len(q) : i = 1 \/ i \in 2 .. Len(q)
  BY <1>1
<1> HIDE DEF t
<1>3. NoGet(q) <=> NoGet(t) /\ Head(q).op # "get"
  BY <1>1, <1>2 DEF NoGet
<1>4. ASSUME NEW l PROVE Untouched(q, l) <=> Untouched(t, l) /\ ~Touches(Head(q), l)
  BY <1>1, <1>2 DEF Untouched
<1>5. ASSUME GetLast(q)
      PROVE  GetLast(t) \/ (NoGet(t) /\ Untouched(t, Net) /\ Head(q).op = "get")
  <2>1. PICK k \in 1 .. Len(q) :
          /\ q[k].op = "get"
          /\ \A i \in k + 1 .. Len(q) : q[i].op # "get" /\ ~Touches(q[i], Net)
    BY <1>5 DEF GetLast
  <2>2. CASE k = 1
    <3>1. \A i \in 1 .. Len(t) : t[i].op # "get" /\ ~Touches(t[i], Net)
      BY <1>1, <2>1, <2>2
    <3> QED BY <3>1, <2>1, <2>2, <1>1 DEF NoGet, Untouched
  <2>3. CASE k # 1
    <3> DEFINE j == k - 1
    <3>1. j \in 1 .. Len(t) /\ t[j].op = "get"
      BY <1>2, <2>1, <2>3
    <3>2. \A i \in j + 1 .. Len(t) : t[i].op # "get" /\ ~Touches(t[i], Net)
      BY <1>1, <2>1, <2>3
    <3> HIDE DEF j
    <3> QED BY <3>1, <3>2 DEF GetLast
  <2> QED BY <2>2, <2>3
<1> QED BY <1>1, <1>3, <1>4, <1>5 DEF t

\* resolved handles a call: the link it is about has then what the call gives.
LEMMA HandledLinks ==
  ASSUME DnsTyped, resolvedHandles
  PROVE  /\ linkDomains' \in DomainMaps
         /\ \A l \in {Net, tunnelLink} \ {0} :
              linkDomains'[l] = LeavesLink(Head(calls), l, linkDomains[l])
<1> DEFINE c == Head(calls)
<1>1. calls \in Seq(DnsCalls) /\ calls # <<>> /\ c \in DnsCalls /\ linkDomains \in DomainMaps
  BY HeadTailProperties DEF DnsTyped, resolvedHandles
<1>2. {Net, tunnelLink} \ {0} \subseteq Links
  BY LinkFacts, DnsAssumption DEF DnsTyped
<1>3. \/ /\ c.op \in {"get", "unheard"} /\ UNCHANGED linkDomains
      \/ /\ c.op \in {"domains", "revert"}
         /\ linkDomains' = [l \in Links |->
                 IF l # c.link \/ ~Exists(l) THEN linkDomains[l]
                 ELSE IF c.op = "revert" THEN {} ELSE c.domains]
  BY DEF resolvedHandles
<1> HIDE DEF c
<1>4. CASE c.op \in {"get", "unheard"} /\ UNCHANGED linkDomains
  <2>1. \A l : ~Touches(c, l)
    BY <1>4 DEF Touches
  <2> QED BY <2>1, <1>1, <1>4 DEF LeavesLink, c
<1>5. CASE /\ c.op \in {"domains", "revert"}
           /\ linkDomains' = [l \in Links |->
                 IF l # c.link \/ ~Exists(l) THEN linkDomains[l]
                 ELSE IF c.op = "revert" THEN {} ELSE c.domains]
  <2>1. c.op = "domains" => c.domains \in SUBSET Domains
    BY <1>1, <1>5 DEF DnsCalls, GetDomains, Unheard
  <2>2. \A l \in Links :
          linkDomains'[l] = IF Exists(l) THEN LeavesLink(c, l, linkDomains[l]) ELSE linkDomains[l]
    BY <1>5 DEF LeavesLink, Touches, Gives
  <2>3. \A l \in Links : LeavesLink(c, l, linkDomains[l]) \in SUBSET Domains
    BY <2>1, <1>1, <1>5 DEF LeavesLink, Gives, DomainMaps
  <2>4. linkDomains' \in DomainMaps
    BY <2>2, <2>3, <1>1, <1>5 DEF DomainMaps
  <2> QED BY <2>2, <2>4, <1>2 DEF Exists, c
<1> QED BY <1>3, <1>4, <1>5

\* resolved handles a call.
LEMMA DnsHandledKeeps ==
  ASSUME DnsInv, resolvedHandles
  PROVE  DnsInv'
<1> DEFINE c == Head(calls)
<1>1. PICK v : DnsFits(v)
  BY DEF DnsInv
<1>2. /\ DnsTyped /\ calls \in Seq(DnsCalls) /\ calls # <<>> /\ calls' = Tail(calls)
      /\ UNCHANGED <<m_ifindex, m_linkDomains, tunnelLink, made, own, lapses>>
      /\ answers \in Seq(DomainMaps \cup {Error}) /\ linkDomains \in DomainMaps
      /\ Ends(calls, Net, linkDomains[Net], v)
  BY <1>1 DEF DnsInv, DnsTyped, resolvedHandles, DnsFits
<1>3. /\ linkDomains' \in DomainMaps
      /\ linkDomains'[Net] = LeavesLink(c, Net, linkDomains[Net])
      /\ tunnelLink # 0 => linkDomains'[tunnelLink] = LeavesLink(c, tunnelLink, linkDomains[tunnelLink])
  BY <1>2, HandledLinks, LinkFacts
<1>4. /\ calls' \in Seq(DnsCalls) /\ (NoGet(calls) <=> NoGet(calls') /\ c.op # "get")
      /\ Untouched(calls, Net) <=> Untouched(calls', Net) /\ ~Touches(c, Net)
      /\ GetLast(calls) /\ c.op # "get" => GetLast(calls')
      /\ GetLast(calls) => GetLast(calls') \/ (NoGet(calls') /\ Untouched(calls', Net))
  BY <1>2, RestOfCalls
<1>5. \/ c.op = "get" /\ UNCHANGED linkDomains /\ \E a \in {linkDomains, Error} : answers' = Append(answers, a)
      \/ c.op # "get" /\ UNCHANGED answers
  BY DEF resolvedHandles
<1> HIDE DEF c
<1>6. Ends(calls', Net, linkDomains'[Net], v)
  BY <1>2, <1>3, EndsTail DEF c
<1>7. answers' \in Seq(DomainMaps \cup {Error})
      /\ (c.op = "get" => answers' # <<>> /\ Tells(answers[Len(answers)])')
  <2>1. CASE c.op # "get" /\ UNCHANGED answers
    BY <2>1, <1>2
  <2>2. ASSUME NEW a \in {linkDomains, Error}, UNCHANGED linkDomains, answers' = Append(answers, a)
        PROVE  /\ answers' \in Seq(DomainMaps \cup {Error}) /\ answers' # <<>>
               /\ Tells(answers[Len(answers)])'
    <3>1. a \in DomainMaps \cup {Error}
      BY <1>2
    <3>2. /\ answers' \in Seq(DomainMaps \cup {Error}) /\ answers' # <<>>
          /\ answers'[Len(answers')] = a
      BY <1>2, <2>2, <3>1, AppendProperties
    <3> QED BY <3>2, <2>2 DEF Tells
  <2> QED BY <2>1, <2>2, <1>5
<1>8. UpToDate => UpToDate'
  <2>1. CASE GetLast(calls) /\ c.op # "get"
    BY <2>1, <1>4 DEF UpToDate
  <2>2. CASE GetLast(calls) /\ c.op = "get"
    BY <2>2, <1>4, <1>7 DEF UpToDate
  <2>3. CASE /\ NoGet(calls) /\ Untouched(calls, Net)
             /\ answers # <<>> /\ Tells(answers[Len(answers)])
    <3>1. linkDomains'[Net] = linkDomains[Net] /\ UNCHANGED answers
      BY <2>3, <1>3, <1>4, <1>5 DEF LeavesLink
    <3> QED BY <3>1, <2>3, <1>4 DEF UpToDate, Tells
  <2> QED BY <2>1, <2>2, <2>3 DEF UpToDate
<1>9. AllAnswered <=> AllAnswered'
  BY <1>4, <1>5, <1>7 DEF AllAnswered
<1>10. Restorable(v) => Restorable(v)'
  BY <1>2, <1>8, <1>9 DEF Restorable
<1>11. Resolving(v) => Resolving(v)'
  <2>1. ASSUME tunnelLink # 0, Ends(calls, tunnelLink, linkDomains[tunnelLink], {Root})
        PROVE  Ends(calls', tunnelLink, linkDomains'[tunnelLink], {Root})
    BY <2>1, <1>2, <1>3, EndsTail DEF c
  <2> QED BY <2>1, <1>2, <1>8, <1>9 DEF Resolving
<1>12. DnsTyped'
  BY <1>2, <1>3, <1>4, <1>7 DEF DnsTyped
<1>13. DnsFits(v)'
  BY <1>1, <1>2, <1>6, <1>10, <1>11 DEF DnsFits
<1> QED BY <1>12, <1>13 DEF DnsInv

\* The network gives its link other domains.
LEMMA DnsChangeKeeps ==
  ASSUME DnsInv, networkChanges
  PROVE  DnsInv'
<1>1. PICK v : DnsFits(v)
  BY DEF DnsInv
<1>2. PICK ds \in SUBSET Domains \ {own} :
        own' = ds /\ linkDomains' = [linkDomains EXCEPT ![Net] = ds]
  BY DEF networkChanges
<1>3. /\ lapses' = IF tunnelLink = 0 /\ calls = <<>> /\ answers = <<>>
                   THEN lapses ELSE lapses \cup {"changed"}
      /\ UNCHANGED <<m_ifindex, m_linkDomains, tunnelLink, made, calls, answers>>
  BY DEF networkChanges
<1>4. linkDomains' \in DomainMaps /\ linkDomains'[Net] = ds /\ ds \in SUBSET Domains
  BY <1>2, LinkFacts DEF DnsInv, DnsTyped, DomainMaps
<1>5. DnsTyped'
  BY <1>2, <1>3, <1>4 DEF DnsInv, DnsTyped
<1>6. CASE Untouched(calls, Net)
  <2>1. Ends(calls', Net, linkDomains'[Net], ds)
    BY <1>3, <1>4, <1>6 DEF Ends
  <2>2. ASSUME lapses' \subseteq {"unread"} PROVE Restorable(ds)'
    <3>1. tunnelLink = 0 /\ lapses' = lapses
      BY <1>3, <2>2
    <3>2. Restorable(v) /\ m_ifindex = 0
      BY <3>1, <2>2, <1>1 DEF DnsFits, DnsInv, DnsTyped
    <3> QED BY <3>2, <1>2, <1>3 DEF Restorable
  <2>3. ASSUME lapses' \cap {"changed", "unread"} = {} PROVE Resolving(ds)'
    BY <1>3, <2>3 DEF Resolving
  <2>4. DnsFits(ds)'
    BY <2>1, <2>2, <2>3, <1>4 DEF DnsFits
  <2> QED BY <2>4, <1>5 DEF DnsInv
<1>7. CASE ~Untouched(calls, Net)
  <2>1. Ends(calls', Net, linkDomains'[Net], v)
    BY <1>1, <1>3, <1>7 DEF Ends, DnsFits
  <2>2. calls # <<>>
    BY <1>7 DEF Untouched
  <2>3. "changed" \in lapses'
    BY <1>3, <2>2
  <2>4. DnsFits(v)'
    BY <2>1, <2>3, <1>1 DEF DnsFits
  <2> QED BY <2>4, <1>5 DEF DnsInv
<1> QED BY <1>6, <1>7

\* At the start nothing is under way.
LEMMA DnsInvInit == DnsInit => DnsInv
<1> SUFFICES ASSUME DnsInit PROVE DnsInv
  OBVIOUS
<1>1. /\ calls = <<>> /\ Len(<<>>) = 0 /\ tunnelLink = 0 /\ own \in SUBSET Domains
      /\ m_ifindex = 0 /\ m_linkDomains[Net] = {} /\ linkDomains[Net] = own
  BY LinkFacts DEF DnsInit, DomainMaps
<1>2. DnsTyped
  BY LinkFacts, DnsAssumption DEF DnsInit, DnsTyped, DomainMaps
<1>3. Ends(calls, Net, linkDomains[Net], own)
  BY <1>1 DEF Ends, Untouched
<1>4. DnsFits(own)
  BY <1>1, <1>3 DEF DnsFits, Restorable, Resolving
<1> QED BY <1>2, <1>4 DEF DnsInv

\* When nothing is under way the links are as they should be.
LEMMA DnsInvImplies == DnsInv => DnsTypeOK /\ ResolversRight
<1>1. ASSUME DnsInv PROVE DnsTypeOK
  <2>1. \A c \in DnsCalls : c.op \in {"domains", "revert", "get", "unheard"}
    BY DEF DnsCalls, GetDomains, Unheard
  <2> QED BY <1>1, <2>1, DnsAssumption DEF DnsInv, DnsTyped, DnsTypeOK, DomainMaps, TunnelLinks
<1> SUFFICES ASSUME DnsInv, DnsSettled PROVE ResolversRight
  BY <1>1 DEF ResolversRight, RestoredUnless, TunnelResolves
<1>2. PICK v : DnsFits(v)
  BY DEF DnsInv
<1>3. /\ calls = <<>> /\ answers = <<>> /\ Len(calls) = 0 /\ m_ifindex = tunnelLink
      /\ \A l : Untouched(calls, l)
  BY DEF DnsSettled, DnsInv, DnsTyped, Untouched
<1>4. AllAnswered /\ ~UpToDate
  BY <1>3 DEF AllAnswered, UpToDate, NoGet, GetLast
<1>5. v = linkDomains[Net]
  BY <1>2, <1>3, EndsNow DEF DnsFits
<1>6. RestoredUnless
  BY <1>2, <1>3, <1>5 DEF RestoredUnless, DnsFits, Restorable
<1>7. ASSUME tunnelLink # 0, lapses \cap {"changed", "unread"} = {}
      PROVE  linkDomains[tunnelLink] = {Root} /\ Root \notin linkDomains[Net]
  <2>1. Root \notin v /\ Ends(calls, tunnelLink, linkDomains[tunnelLink], {Root})
    BY <1>2, <1>4, <1>7 DEF DnsFits, Resolving
  <2> QED BY <2>1, <1>3, <1>5, EndsNow
<1> QED BY <1>6, <1>7 DEF ResolversRight, TunnelResolves

\* ResolversRight, for any number of tunnels and of calls under way: after the
\* tunnel the network's link has its own domains again (unless an answer was
\* applied late or twice, the daemon crashed or the network changed them), and
\* with the tunnel no other link takes all names (unless they changed or could
\* not be read).
THEOREM ResolversAreRight == DnsSpec => [](DnsTypeOK /\ ResolversRight)
<1>1. ASSUME DnsInv, [DnsNext]_dnsVars PROVE DnsInv'
  <2>1. CASE DnsNext
    BY <1>1, <2>1, DnsActivatesKeep, DnsSwitchKeeps, DnsDeactivateKeeps, DnsReceivedKeeps,
       DnsUnreadKeeps, DnsCrashKeeps, DnsHandledKeeps, DnsChangeKeeps DEF DnsNext
  <2>2. CASE UNCHANGED dnsVars
    BY <1>1, <2>2 DEF dnsVars, DnsInv, DnsTyped, DnsFits, Restorable, Resolving, UpToDate,
       AllAnswered, Tells
  <2> QED BY <1>1, <2>1, <2>2
<1> QED BY <1>1, DnsInvInit, DnsInvImplies, PTL DEF DnsSpec

=============================================================================
