---------------------------- MODULE MCUserParts -----------------------------
(* One instance for TLC of what users ask of the client and see of it: what  *)
(* they ask by its window and how it is done, the screens of the window, and *)
(* the way from the browser's extension.  Each behaviour is one of the part  *)
(* that its first state names; the others rest.                              *)
EXTENDS Application, Navigator, WebExtension

VARIABLE part

userVars == <<part, allVars, navVars, extVars>>

UserPartsInit ==
  /\ part \in {"application", "screens", "extension"}
  /\ AppInit /\ NavInit /\ ExtInit
  /\ part # "application" => conduct = "window" /\ hasProfiles /\ tunnel = NoKey

UserPartsNext ==
  /\ UNCHANGED part
  /\ \/ part = "application" /\ AppNext /\ UNCHANGED <<navVars, extVars>>
     \/ part = "screens" /\ NavNext /\ UNCHANGED <<allVars, extVars>>
     \/ part = "extension" /\ ExtNext /\ UNCHANGED <<allVars, navVars>>

\* As in AppFairSpec.
AppFairness ==
  /\ WF_moving(part = "application" /\ Synchronous)
  /\ SF_moving(part = "application" /\ taskTimeout)
  /\ SF_moving(part = "application" /\ handshakeTimesOut)
  /\ SF_moving(part = "application" /\ implInitializes)
  /\ SF_moving(part = "application" /\ owed /\ implDisconnects)

\* The event loop of the client and that of the bridge's process.
ExtFairness ==
  /\ WF_extVars(part = "extension" /\ (newConnectionReceived \/ clientReads))
  /\ WF_extVars(part = "extension" /\ (bridgeReads \/ bridgeDisconnected))

UserPartsSpec ==
  UserPartsInit /\ [][UserPartsNext]_userVars /\ AppFairness /\ ExtFairness

\* The values the parts keep have the types of the variables they stand for.
UserPartsTypeOK == AppTypeOK /\ NavTypeOK /\ ExtTypeOK
=============================================================================
