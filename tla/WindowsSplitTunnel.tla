------------------------- MODULE WindowsSplitTunnel --------------------------
(***************************************************************************)
(* Applications outside the tunnel on Windows: WindowsSplitTunnel, the     *)
(* daemon's end of a kernel driver, under WindowsDaemon::run(), which      *)
(* every activation, switch and deactivation of the daemon calls.          *)
(*                                                                         *)
(* The driver outlives the daemon with all it was told.  Every call to it, *)
(* and to the service manager, may fail; getState() may also fail to say.  *)
(***************************************************************************)
CONSTANTS
  SplitApps,   \* applications that the user may exclude
  UnknownApps, \* those whose path is on no known drive
  Adapters     \* adapters to the internet

ASSUME SplitAssumption == UnknownApps \subseteq SplitApps

NoAdapter == "none"

VARIABLES
  driver,      \* the driver: state, configuration, adapter of the internet
  ourService,  \* its service is registered
  mullvad,     \* MullvadVPN is installed
  manager,     \* the daemon: "down", "without" the driver, "with" it
  outside,     \* the adapter on which the server is reached
  entryApps,   \* history: what the last run() was asked to exclude
  entryRoute,  \* history: the adapter that it saw
  stopFailed,  \* history: the last stop() did not succeed
  splitTold    \* history: the last run() reported a failure to the client

splitVars == <<driver, ourService, mullvad, manager, outside, entryApps,
               entryRoute, stopFailed, splitTold>>

SplitTypeOK ==
  /\ driver \in [st : {"absent", "started", "initialized", "ready", "running"},
                 conf : SUBSET (SplitApps \ UnknownApps), inet : Adapters \cup {NoAdapter}]
  /\ manager \in {"down", "without", "with"}
  /\ outside \in Adapters \cup {NoAdapter} /\ entryRoute \in Adapters \cup {NoAdapter}
  /\ entryApps \subseteq SplitApps
  /\ {ourService, mullvad, stopFailed, splitTold} \subseteq BOOLEAN

Loaded == [st |-> "started", conf |-> {}, inet |-> NoAdapter]

Absent == [Loaded EXCEPT !.st = "absent"]

SplitInit ==
  /\ driver = Absent
  /\ ourService = FALSE /\ mullvad \in BOOLEAN /\ manager = "down"
  /\ outside \in Adapters
  /\ entryApps = {} /\ entryRoute = NoAdapter
  /\ stopFailed = FALSE /\ splitTold = FALSE

-----------------------------------------------------------------------------
(* The driver: what each request makes of it, as far as the code relies on *)
(* it.  It is running once it has both addresses and applications.         *)

Settled(d) ==
  [d EXCEPT !.st = IF d.conf # {} /\ d.inet # NoAdapter THEN "running" ELSE "ready"]

Configurable(d) == d.st \in {"ready", "running"}

IoInitialize(d) == IF d.st = "started" THEN {[d EXCEPT !.st = "initialized"]} ELSE {}
IoRegisterProcesses(d) == IF d.st = "initialized" THEN {[d EXCEPT !.st = "ready"]} ELSE {}
IoRegisterAddresses(d, a) == IF Configurable(d) THEN {Settled([d EXCEPT !.inet = a])} ELSE {}
IoSetConfiguration(d, c) == IF Configurable(d) THEN {Settled([d EXCEPT !.conf = c])} ELSE {}
IoClearConfiguration(d) == IF Configurable(d) THEN {Settled([d EXCEPT !.conf = {}])} ELSE {}

Done(ok, d) == [ok |-> ok, d |-> d]

\* A request: it fails and changes nothing, or does what the driver does.
Request(d, results) == {Done(FALSE, d)} \cup {Done(TRUE, r) : r \in results}

\* One call after another that succeeded.
AndThen(outcomes, Call(_)) ==
  UNION {IF o.ok THEN Call(o.d) ELSE {o} : o \in outcomes}

Seen(d) == {d.st, "unknown"}

-----------------------------------------------------------------------------
(* WindowsSplitTunnel.                                                     *)

\* generateAppConfiguration(): a path that convertPath() cannot convert becomes
\* an empty entry.
generateAppConfiguration(apps) == apps \ UnknownApps

\* start(): a driver that is fresh is initialized and told of the processes
\* first; the addresses fail without an adapter that has one.
splitStart(d, adapter) ==
  LET initialized == UNION {IF s = "started" THEN Request(d, IoInitialize(d))
                                             ELSE {Done(TRUE, d)} : s \in Seen(d)}
      Known(e) == UNION {IF s = "initialized" THEN Request(e, IoRegisterProcesses(e))
                                              ELSE {Done(TRUE, e)} : s \in Seen(e)}
      Addressed(e) ==
        {Done(FALSE, e)} \cup
          IF adapter = NoAdapter THEN {} ELSE Request(e, IoRegisterAddresses(e, adapter))
  IN  AndThen(AndThen(initialized, Known), Addressed)

excludeApps_resultIgnored(d, apps) ==
  {Done(TRUE, o.d) : o \in Request(d, IoSetConfiguration(d, generateAppConfiguration(apps)))}

\* excludeApps()
excludeApps(d, apps) ==
  UNION {IF s \in {"ready", "running"}
           THEN Request(d, IoSetConfiguration(d, generateAppConfiguration(apps)))
           ELSE {Done(FALSE, d)} : s \in Seen(d)}

\* stop()
stop(d) == Request(d, IoClearConfiguration(d))

initDriver_keepsState(d) ==
  IF d.st = "started" THEN Request(d, IoInitialize(d)) ELSE {Done(TRUE, d)}

\* initDriver(): a driver that a daemon has left is reset, and one that does not
\* reset is not used.
initDriver(d) ==
  LET Renewed(e) ==
        UNION {IF s = "started" THEN Request(e, IoInitialize(e)) ELSE {Done(FALSE, e)} :
               s \in Seen(e)}
  IN  {Done(FALSE, d)} \cup
        (IF d.st = "started" THEN Renewed(d) ELSE Renewed(Loaded) \cup {Done(FALSE, d)})

\* detectConflict()
detectConflict == mullvad \/ (driver.st # "absent" /\ ~ourService)

-----------------------------------------------------------------------------
(* The daemon.                                                             *)

\* WindowsDaemon is made, and with it WindowsSplitTunnel::create(): it installs
\* and starts the driver, opens it, once more after a restart of the driver, and
\* initializes it; each of these may fail, the restart in the middle too.
splitCreate ==
  /\ manager = "down"
  /\ \/ manager' = "without" /\ UNCHANGED <<driver, ourService>>
     \/ /\ ~detectConflict
        /\ ourService' = TRUE
        /\ \E d \in {IF driver.st = "absent" THEN Loaded ELSE driver, Loaded} :
           \E o \in initDriver(d) :
             driver' = o.d /\ manager' = IF o.ok THEN "with" ELSE "without"
     \/ /\ ~detectConflict
        /\ ourService' = TRUE /\ driver' = Absent /\ manager' = "without"
  /\ entryApps' = {} /\ entryRoute' = NoAdapter
  /\ stopFailed' = FALSE /\ splitTold' = FALSE
  /\ UNCHANGED <<mullvad, outside>>

Stopped ==
  \E o \in stop(driver) :
    driver' = o.d /\ stopFailed' = ~o.ok /\ splitTold' = FALSE

runApps_trustsStart(apps) ==
  \E o \in splitStart(driver, outside) : \E x \in excludeApps(o.d, apps) :
    /\ driver' = x.d
    /\ splitTold' = (outside = NoAdapter \/ ~o.ok)
    /\ UNCHANGED stopFailed

\* The part of run() that has applications to exclude: what fails is reported
\* and the next call is made all the same.
runApps(apps) ==
  \E o \in splitStart(driver, outside) : \E x \in excludeApps(o.d, apps) : \E s \in Seen(x.d) :
    /\ driver' = x.d
    /\ splitTold' = (outside = NoAdapter \/ ~o.ok \/ ~x.ok \/ s # "running")
    /\ UNCHANGED stopFailed

\* run(Up) and run(Switch) with the configuration of a single hop, of the exit,
\* or, without applications, of the entry, which stops what the exit set.
runUp(apps) ==
  /\ manager # "down"
  /\ entryApps' = apps /\ entryRoute' = outside
  /\ \/ manager = "without" /\ splitTold' = (apps # {}) /\ UNCHANGED <<driver, stopFailed>>
     \/ manager = "with" /\ apps # {} /\ runApps(apps)
     \/ manager = "with" /\ apps = {} /\ Stopped
  /\ UNCHANGED <<ourService, mullvad, manager, outside>>

\* run(Down), which without the driver reports the failure again.
runDown ==
  /\ manager # "down"
  /\ entryApps' = {} /\ entryRoute' = NoAdapter
  /\ \/ manager = "without" /\ splitTold' = (entryApps # {}) /\ UNCHANGED <<driver, stopFailed>>
     \/ manager = "with" /\ Stopped
  /\ UNCHANGED <<ourService, mullvad, manager, outside>>

\* The daemon ends: by itself, when the destructor asks for the removal of the
\* service, or by a crash.
splitDaemonEnds ==
  /\ manager # "down"
  /\ manager' = "down"
  /\ ourService' \in {ourService, FALSE}
  /\ entryApps' = {} /\ entryRoute' = NoAdapter
  /\ stopFailed' = FALSE /\ splitTold' = FALSE
  /\ UNCHANGED <<driver, mullvad, outside>>

\* The machine is started anew; the service starts the driver.
rebooted ==
  /\ manager = "down"
  /\ driver' = IF ourService THEN Loaded ELSE Absent
  /\ UNCHANGED <<ourService, mullvad, manager, outside, entryApps, entryRoute,
                 stopFailed, splitTold>>

\* The network moves to another adapter, or there is none; MullvadVPN is
\* installed or removed.
surroundings ==
  /\ \/ outside' \in Adapters \cup {NoAdapter} /\ UNCHANGED mullvad
     \/ mullvad' = ~mullvad /\ UNCHANGED outside
  /\ UNCHANGED <<driver, ourService, manager, entryApps, entryRoute, stopFailed, splitTold>>

SplitNext ==
  \/ splitCreate \/ runDown \/ splitDaemonEnds \/ rebooted \/ surroundings
  \/ \E apps \in SUBSET SplitApps : runUp(apps)

SplitSpec == SplitInit /\ [][SplitNext]_splitVars

-----------------------------------------------------------------------------

\* What leaves outside the tunnel now.
OutNow == IF driver.st = "running" THEN driver.conf ELSE {}

\* Either the applications the user chose go outside, by the adapter that
\* reached the server, or the client was told that they do not.
AllOutOrTold ==
  manager # "down" /\ ~splitTold /\ entryApps \ UnknownApps # {} =>
    OutNow = entryApps \ UnknownApps /\ driver.inet = entryRoute

\* No application goes outside that the last configuration did not name: not
\* what an earlier configuration, or a daemon that crashed, had excluded.
OnlyChosenOut ==
  manager = "with" /\ ~stopFailed => splitTold \/ OutNow \subseteq entryApps

\* What split tunnelling promises (windowsdaemon.cpp:52).
SplitTunnelHonest == AllOutOrTold /\ OnlyChosenOut

=============================================================================
