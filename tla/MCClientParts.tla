--------------------------- MODULE MCClientParts ----------------------------
(* One instance for TLC of the parts of the client that keep state of their *)
(* own: the task scheduler, the profiles, the connection's health, the      *)
(* servers' latency and cooldowns, the detection of captive portals,       *)
(* the local socket to the daemon and the encrypted settings file.          *)
(* Each behaviour is one of the part that its first state names; the others *)
(* rest.  What the parts do to each other comes from their environments.    *)
EXTENDS TaskScheduler, WireGuardProfileModel, ConnectionHealth, ServerLatency,
        CaptivePortal, LocalSocket, CryptoSettings

CONSTANTS t1, t2, t3, t4, t5, s1, s2, s3

VARIABLE part

clientVars == <<part, schedVars, modelVars, healthVars, latencyVars, portalVars,
                socketVars, cryptoVars>>

\* Two tasks that must not be deleted, one that may be and two that are
\* rescheduled.
MCPolicy == [t \in Tasks |->
               CASE t \in {t1, t2} -> "NonDeletable"
                 [] t = t3 -> "Deletable"
                 [] OTHER -> "Reschedulable"]

\* Two servers in one city, one in another.
MCByDistance == <<s1, s2, s3>>
MCCityOf == [s \in {s1, s2, s3} |-> IF s = s3 THEN "c2" ELSE "c1"]

\* Tokens that leave the header's length below 128, between 128 and 255, and
\* above.
MCTokenLength == <<20, 100, 300>>

ClientInit ==
  /\ part \in {"scheduler", "profiles", "health", "latency", "cooldowns", "portal",
              "socket", "settings"}
  /\ SchedInit /\ HealthInit /\ LatencyInit
  /\ ModelInit /\ (part # "profiles" => file = Unset)
  /\ PortalInit /\ (part # "portal" => m_active)
  /\ SocketInit /\ (part # "socket" => ~daemonUp)
  /\ CryptoInit /\ (part # "settings" => sfile = NoFile /\ secretPerToken)

ClientNext ==
  /\ UNCHANGED part
  /\ \/ /\ part = "scheduler" /\ SchedNext
        /\ UNCHANGED <<modelVars, healthVars, latencyVars, portalVars, socketVars, cryptoVars>>
     \/ /\ part = "profiles" /\ (UserNext \/ ProcessNext)
        /\ UNCHANGED <<schedVars, healthVars, latencyVars, portalVars, socketVars, cryptoVars>>
     \/ /\ part = "health" /\ HealthNext
        /\ UNCHANGED <<schedVars, modelVars, latencyVars, portalVars, socketVars, cryptoVars>>
     \/ /\ part = "latency" /\ (MeasureNext \/ latTick)
        /\ UNCHANGED <<schedVars, modelVars, healthVars, portalVars, socketVars, cryptoVars>>
     \/ /\ part = "cooldowns" /\ (CooldownNext \/ latTick)
        /\ UNCHANGED <<schedVars, modelVars, healthVars, portalVars, socketVars, cryptoVars>>
     \/ /\ part = "portal" /\ PortalNext
        /\ UNCHANGED <<schedVars, modelVars, healthVars, latencyVars, socketVars, cryptoVars>>
     \/ /\ part = "socket" /\ SocketNext
        /\ UNCHANGED <<schedVars, modelVars, healthVars, latencyVars, portalVars, cryptoVars>>
     \/ /\ part = "settings" /\ CryptoNext
        /\ UNCHANGED <<schedVars, modelVars, healthVars, latencyVars, portalVars, socketVars>>

\* Tasks complete, timers fire and pauses end: whoever pauses resumes, and no
\* pause is always followed by another before the last one is lifted.
SchedFairness ==
  /\ WF_schedVars(part = "scheduler" /\ runTask)
  /\ WF_schedVars(part = "scheduler" /\ taskCompleted)
  /\ WF_schedVars(part = "scheduler" /\ rescheduled)
  /\ WF_schedVars(part = "scheduler" /\ resume)
  /\ []<>(m_paused = 0)

HealthFairness ==
  /\ WF_healthVars(part = "health" /\ second)
  /\ WF_healthVars(part = "health" /\ nextPing)
  /\ WF_healthVars(part = "health" /\ healthCheckTimeout)
  /\ WF_healthVars(part = "health" /\ \E q \in pongs : pingReceived(q))
  /\ WF_healthVars(part = "health" /\ statusUpdated)
  /\ WF_healthVars(part = "health" /\ net = "good" /\ \E q \in flying : pongArrives(q, FALSE))

LatencyFairness ==
  /\ WF_latencyVars(part \in {"latency", "cooldowns"} /\ latPingTimeout)
  /\ WF_latencyVars(part \in {"latency", "cooldowns"} /\ \E q \in latAnswers : recvPing(q))
  /\ WF_latencyVars(part \in {"latency", "cooldowns"} /\ clearCooldowns)
  /\ WF_latencyVars(part \in {"latency", "cooldowns"} /\ latTick)

PortalFairness ==
  /\ WF_portalVars(part = "portal" /\ runDetection)
  /\ WF_portalVars(part = "portal" /\ detectionTimeout)

SocketFairness ==
  /\ WF_socketVars(part = "socket" /\ lsInitialize)
  /\ WF_socketVars(part = "socket" /\ initializingTimeout)
  /\ WF_socketVars(part = "socket" /\ socketDisconnected)
  /\ WF_socketVars(part = "socket" /\ responseTimeout)
  /\ WF_socketVars(part = "socket" /\ readData)
  /\ WF_socketVars(part = "socket" /\ daemonReads)

ClientSpec ==
  /\ ClientInit /\ [][ClientNext]_clientVars
  /\ SchedFairness /\ HealthFairness /\ LatencyFairness /\ PortalFairness
  /\ SocketFairness

\* The values the parts keep have the types of the variables they stand for.
ClientTypeOK ==
  /\ SchedTypeOK /\ ModelTypeOK /\ HealthTypeOK
  /\ LatencyTypeOK /\ PortalTypeOK /\ SocketTypeOK /\ CryptoTypeOK
=============================================================================
