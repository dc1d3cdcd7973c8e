------------------------- MODULE WindowsRouteMonitor -------------------------
(***************************************************************************)
(* The routes of the Windows daemon: WindowsRouteMonitor                   *)
(* (src/src/platforms/windows/daemon/windowsroutemonitor.cpp).             *)
(*                                                                         *)
(* For each excluded prefix it keeps a route past the tunnel that does     *)
(* what the best other route would; if the tunnel captures the default     *)
(* route, it clones every other route into the tunnel.  The system's       *)
(* routes change at any time and the kernel's callback queues              *)
(* routeChanged().                                                         *)
(*                                                                         *)
(* A prefix is the sequence of its bits, so prefixcmp() is IsPrefix.  An    *)
(* interface has one next hop.  ULONG_MAX is the highest metric.            *)
(***************************************************************************)
EXTENDS Naturals, Sequences, SequencesExt, FiniteSets

CONSTANTS
  SysRows,      \* the routes the system may have: [dest, luid, metric]
  IfMetric,     \* the metric of each interface other than the tunnel
  Excludable,   \* prefixes the daemon excludes
  ULONG_MAX     \* the highest metric

VARIABLES
  monitor,      \* the monitor exists (from addInterface() to deleteInterface())
  sysRoutes,    \* routes of the system
  connectedIfs, \* interfaces that are connected
  m_metrics,    \* interfaces in m_interfaceMetrics
  m_exclusionRoutes,  \* the interface for each excluded prefix, 0 if none
  installed,    \* exclusion routes in the system's table: [dest, luid]
  m_clonedRoutes,     \* destinations cloned into the tunnel
  m_defaultRouteCapture,
  routesNotified, \* routeChanged() is queued
  missed,       \* history: a table could not be read
  captureStale  \* history: what to capture may have changed since it was looked at

routeVars == <<monitor, sysRoutes, connectedIfs, m_metrics, m_exclusionRoutes, installed,
               m_clonedRoutes, m_defaultRouteCapture, routesNotified, missed, captureStale>>

Luids == DOMAIN IfMetric
NoExclusions == [p \in {} |-> 0]

\* No interface has the number 0, which stands for none.
ASSUME RouteAssumption ==
  /\ ULONG_MAX \in Nat
  /\ IsFiniteSet(SysRows)
  /\ \A row \in SysRows :
       row.dest \in Seq({0, 1}) /\ row.luid \in Luids /\ row.metric \in 0 .. ULONG_MAX
  /\ \A luid \in Luids : luid # 0 /\ IfMetric[luid] \in 0 .. ULONG_MAX
  /\ \A p \in Excludable : p \in Seq({0, 1})

RouteInit ==
  /\ monitor = FALSE
  /\ sysRoutes = {} /\ connectedIfs = {} /\ m_metrics = {}
  /\ m_exclusionRoutes = NoExclusions /\ installed = {} /\ m_clonedRoutes = {}
  /\ m_defaultRouteCapture = FALSE
  /\ routesNotified = FALSE /\ missed = FALSE /\ captureStale = FALSE

-----------------------------------------------------------------------------
(* The algorithms, on the table as it was read.                            *)

\* Interface and route metric, saturated where the sum wraps.
RouteMetric(row) ==
  LET sum == (row.metric + IfMetric[row.luid]) % (ULONG_MAX + 1)
  IN  IF sum < row.metric THEN ULONG_MAX ELSE sum

Tighter(row, best) ==
  \/ Len(row.dest) > best.match
  \/ Len(row.dest) = best.match /\ RouteMetric(row) < best.metric

\* What the pass for a prefix makes of a row: the longest match so far and then
\* the lowest metric; a route to just that prefix needs no other.
Considered(best, row, dest, valid) ==
  IF IsPrefix(row.dest, dest) /\ row.luid \in valid /\ Tighter(row, best)
  THEN [match |-> Len(row.dest), metric |-> RouteMetric(row),
        luid |-> IF Len(row.dest) = Len(dest) THEN 0 ELSE row.luid]
  ELSE best

NoMatch == [match |-> 0 - 1, metric |-> ULONG_MAX, luid |-> 0]

\* The best of the first n rows of a table.
BestOf(table, dest, valid) ==
  LET best[n \in 0 .. Len(table)] ==
        IF n = 0 THEN NoMatch ELSE Considered(best[n - 1], table[n], dest, valid)
  IN  best

\* updateExclusionRoute(): the interface after one pass over the table.
BestLuid(rows, dest, valid) == BestOf(SetToSeq(rows), dest, valid)[Cardinality(rows)].luid

isRouteExcluded(dest, excluded) == \E p \in excluded : IsPrefix(p, dest)

\* updateCapturedRoutes(): what is cloned after a look at the table.
Captures(rows, excluded) ==
  {row.dest : row \in {r \in rows : r.dest # <<>> /\ ~isRouteExcluded(r.dest, excluded)}}

\* The row of an exclusion route is written when its interface is not the one it
\* had; that may fail, which is logged only.
updateExclusionRoutes(exclusions) ==
  LET same(p) == /\ p \in DOMAIN m_exclusionRoutes
                 /\ m_exclusionRoutes[p] = exclusions[p]
      kept == {row \in installed : same(row.dest)}
      new == {[dest |-> p, luid |-> exclusions[p]] :
                p \in {q \in DOMAIN exclusions : ~same(q) /\ exclusions[q] # 0}}
  IN  /\ m_exclusionRoutes' = exclusions
      /\ installed' \in {kept \cup new, kept}

updateCapturedRoutes_onlyAdds(excluded) ==
  m_clonedRoutes' = IF m_defaultRouteCapture
                    THEN m_clonedRoutes \cup Captures(sysRoutes, excluded)
                    ELSE m_clonedRoutes

updateCapturedRoutes(excluded) ==
  m_clonedRoutes' = IF m_defaultRouteCapture THEN Captures(sysRoutes, excluded)
                    ELSE m_clonedRoutes

-----------------------------------------------------------------------------

monitorCreated ==
  /\ ~monitor
  /\ monitor' = TRUE
  /\ UNCHANGED <<sysRoutes, connectedIfs, m_metrics, m_exclusionRoutes, installed,
                 m_clonedRoutes, m_defaultRouteCapture, routesNotified, missed, captureStale>>

\* deleteInterface(): the monitor is destroyed when control returns to the event
\* loop, before anything else can use it.
monitorDestroyed ==
  /\ monitor
  /\ monitor' = FALSE
  /\ m_metrics' = {} /\ m_exclusionRoutes' = NoExclusions
  /\ installed' = {} /\ m_clonedRoutes' = {}
  /\ m_defaultRouteCapture' = FALSE /\ routesNotified' = FALSE
  /\ missed' = FALSE /\ captureStale' = FALSE
  /\ UNCHANGED <<sysRoutes, connectedIfs>>

\* The captures are brought up to date first, for the exclusions so far.
addExclusionRoute(p) ==
  /\ monitor
  /\ p \notin DOMAIN m_exclusionRoutes
  /\ m_metrics' = connectedIfs
  /\ updateCapturedRoutes(DOMAIN m_exclusionRoutes)
  /\ updateExclusionRoutes(
       [q \in DOMAIN m_exclusionRoutes \cup {p} |->
          IF q = p THEN BestLuid(sysRoutes, p, connectedIfs) ELSE m_exclusionRoutes[q]])
  /\ captureStale' = TRUE
  /\ UNCHANGED <<monitor, sysRoutes, connectedIfs, m_defaultRouteCapture, routesNotified, missed>>

deleteExclusionRoute_rowOnly(p) ==
  /\ monitor
  /\ p \in DOMAIN m_exclusionRoutes
  /\ m_exclusionRoutes' = [q \in DOMAIN m_exclusionRoutes \ {p} |-> m_exclusionRoutes[q]]
  /\ captureStale' = TRUE
  /\ UNCHANGED <<monitor, sysRoutes, connectedIfs, m_metrics, m_clonedRoutes, installed,
                 m_defaultRouteCapture, routesNotified, missed>>

\* The captures are to be looked at again, but that happens only if the table
\* cannot be read (the condition is the wrong way round), so it does not.
deleteExclusionRoute(p) ==
  /\ monitor
  /\ p \in DOMAIN m_exclusionRoutes
  /\ m_exclusionRoutes' = [q \in DOMAIN m_exclusionRoutes \ {p} |-> m_exclusionRoutes[q]]
  /\ installed' = {row \in installed : row.dest # p}
  /\ captureStale' = TRUE
  /\ UNCHANGED <<monitor, sysRoutes, connectedIfs, m_metrics, m_clonedRoutes,
                 m_defaultRouteCapture, routesNotified, missed>>

setDetaultRouteCapture(enable) ==
  /\ monitor
  /\ m_defaultRouteCapture # enable
  /\ m_defaultRouteCapture' = enable
  /\ m_clonedRoutes' = IF enable THEN m_clonedRoutes ELSE {}
  /\ captureStale' = enable
  /\ UNCHANGED <<monitor, sysRoutes, connectedIfs, m_metrics, m_exclusionRoutes, installed,
                 routesNotified, missed>>

routeChanged_exclusionsFirst ==
  /\ routesNotified
  /\ routesNotified' = FALSE
  /\ updateExclusionRoutes([p \in DOMAIN m_exclusionRoutes |-> BestLuid(sysRoutes, p, m_metrics)])
  /\ m_metrics' = connectedIfs
  /\ updateCapturedRoutes(DOMAIN m_exclusionRoutes)
  /\ captureStale' = FALSE
  /\ UNCHANGED <<monitor, sysRoutes, connectedIfs, m_defaultRouteCapture, missed>>

\* routeChanged(), with a table.
routeChanged ==
  /\ routesNotified
  /\ routesNotified' = FALSE
  /\ m_metrics' = connectedIfs
  /\ updateCapturedRoutes(DOMAIN m_exclusionRoutes)
  /\ updateExclusionRoutes([p \in DOMAIN m_exclusionRoutes |-> BestLuid(sysRoutes, p, connectedIfs)])
  /\ captureStale' = FALSE
  /\ UNCHANGED <<monitor, sysRoutes, connectedIfs, m_defaultRouteCapture, missed>>

\* Without one it gives up until the next change.
routeChangedUnread ==
  /\ routesNotified
  /\ routesNotified' = FALSE /\ missed' = TRUE /\ captureStale' = TRUE
  /\ UNCHANGED <<monitor, sysRoutes, connectedIfs, m_metrics, m_exclusionRoutes, installed,
                 m_clonedRoutes, m_defaultRouteCapture>>

\* The system: routes come and go, and all of an interface that is disconnected.
sysRouteChanges ==
  /\ \E row \in SysRows :
       /\ row.luid \in connectedIfs
       /\ sysRoutes' = IF row \in sysRoutes THEN sysRoutes \ {row} ELSE sysRoutes \cup {row}
  /\ routesNotified' = monitor
  /\ UNCHANGED <<monitor, connectedIfs, m_metrics, m_exclusionRoutes, installed,
                 m_clonedRoutes, m_defaultRouteCapture, missed, captureStale>>

interfaceChanges ==
  /\ \E luid \in Luids :
       \/ luid \notin connectedIfs /\ connectedIfs' = connectedIfs \cup {luid}
       \/ luid \in connectedIfs /\ connectedIfs' = connectedIfs \ {luid}
  /\ sysRoutes' = {row \in sysRoutes : row.luid \in connectedIfs'}
  /\ installed' = {row \in installed : row.luid \in connectedIfs'}
  /\ routesNotified' = (routesNotified \/ (monitor /\ sysRoutes' # sysRoutes))
  /\ UNCHANGED <<monitor, m_metrics, m_exclusionRoutes, m_clonedRoutes,
                 m_defaultRouteCapture, missed, captureStale>>

RouteNext ==
  \/ monitorCreated \/ monitorDestroyed
  \/ \E p \in Excludable : addExclusionRoute(p) \/ deleteExclusionRoute(p)
  \/ \E enable \in BOOLEAN : setDetaultRouteCapture(enable)
  \/ routeChanged \/ routeChangedUnread
  \/ sysRouteChanges \/ interfaceChanges

RouteSpec == RouteInit /\ [][RouteNext]_routeVars

-----------------------------------------------------------------------------

\* Types of the members of WindowsRouteMonitor.
RouteTypeOK ==
  /\ DOMAIN m_exclusionRoutes \subseteq Excludable
  /\ \A p \in DOMAIN m_exclusionRoutes : m_exclusionRoutes[p] \in {0} \cup Luids
  /\ installed \subseteq [dest : Excludable, luid : Luids]
  /\ m_clonedRoutes \subseteq {row.dest : row \in SysRows} \ {<<>>}
  /\ m_metrics \subseteq Luids

\* The interfaces that the system would use for a prefix without the tunnel:
\* those of the longest match, and of these the ones of the lowest metric.
Usual(dest) ==
  LET fits == {r \in sysRoutes : IsPrefix(r.dest, dest)}
      longest == {r \in fits : \A o \in fits : Len(o.dest) <= Len(r.dest)}
  IN  {r \in longest : \A o \in longest : RouteMetric(r) <= RouteMetric(o)}

\* Once the changes are handled, traffic to an excluded prefix (the server, the
\* local network) goes where it would go without the tunnel, in whatever order
\* routes, interfaces and exclusions came and went: by the route of the system
\* to just that prefix, or by an exclusion route over the best interface; unless
\* a table could not be read, or the route is believed to be there and is not: it
\* could not be written, or its interface went and came back before the change
\* was handled, and nothing tries again.
ExclusionsFollow ==
  monitor /\ ~routesNotified /\ ~missed =>
    \A p \in DOMAIN m_exclusionRoutes :
      LET over == {row.luid : row \in {r \in installed : r.dest = p}}
      IN  \/ over = {} /\ m_exclusionRoutes[p] # 0
          \/ over = {} /\ (Usual(p) = {} \/ \E r \in Usual(p) : r.dest = p)
          \/ \E r \in Usual(p) : over = {r.luid} /\ r.dest # p

\* No route past the tunnel is left for a prefix that is not excluded, nor any
\* at all without a tunnel.
NoStrayRoutes == \A row \in installed : row.dest \in DOMAIN m_exclusionRoutes

AllCaptured ==
  \A dest \in {row.dest : row \in SysRows} \ {<<>>} :
    dest \in m_clonedRoutes <=>
      /\ \E row \in sysRoutes : row.dest = dest
      /\ \A p \in DOMAIN m_exclusionRoutes : ~IsPrefix(p, dest)

\* After a change of the routes was handled the tunnel has a clone of every route
\* that could take traffic past it and of nothing that is excluded.  Exclusions
\* and the capture itself take effect only at the next change.
CapturedUnless ==
  m_defaultRouteCapture /\ ~routesNotified /\ ~captureStale => AllCaptured

\* Routes of the monitor: those of excluded servers lead where the system's do,
\* none is left over, and the default routes are captured.
WinRoutesRight == ExclusionsFollow /\ NoStrayRoutes /\ CapturedUnless

=============================================================================
