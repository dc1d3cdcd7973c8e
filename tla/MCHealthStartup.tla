-------------------------- MODULE MCHealthStartup ---------------------------
(* The connection's health alone, on a backend that always answers a        *)
(* request for the status.                                                  *)
EXTENDS ConnectionHealth

StartupSpec ==
  /\ HealthInit /\ [][HealthNext]_healthVars
  /\ WF_healthVars(second)
  /\ WF_healthVars(nextPing)
  /\ WF_healthVars(healthCheckTimeout)
  /\ WF_healthVars(\E q \in pongs : pingReceived(q))
  /\ WF_healthVars(statusUpdated)
  /\ WF_healthVars(net = "good" /\ \E q \in flying : pongArrives(q, FALSE))
=============================================================================
