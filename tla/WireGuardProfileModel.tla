----------------------- MODULE WireGuardProfileModel ------------------------
(***************************************************************************)
(* The list of local WireGuard profiles                                    *)
(* (src/src/models/wireguardprofilemodel.cpp), which one is active, and    *)
(* the two settings they are kept in.  Settings live in a QSettings object *)
(* that is written to its file from the event loop, so never between two   *)
(* assignments of one handler; a crash loses what was not written.         *)
(***************************************************************************)
EXTENDS Naturals, Sequences, Selections

CONSTANTS
  Ids,          \* the identifiers of profiles (UUIDs)
  NoId,         \* the empty string
  Names,        \* non-empty names
  MaxProfiles   \* bound on the length of the list

ASSUME IdsAssumption == NoId \notin Ids
ASSUME ProfilesBound == MaxProfiles \in Nat \ {0}

\* A configuration text either parses (WireGuardConfig::parse) or does not.
Configs == {"valid", "invalid"}

Profile == [id : Ids, name : Names, config : Configs]

VARIABLES
  m_profiles,         \* the profiles, in the order of the list
  m_activeProfileId,  \* the selected one
  settings,           \* the wireGuard/* settings in memory
  file,               \* and in the settings file
  wiped               \* history: profiles a reset removed from the settings

modelVars == <<m_profiles, m_activeProfileId, settings, file, wiped>>

Lists == UNION {[1..n -> Profile] : n \in 0..MaxProfiles}
IdsOf(ps) == {ps[i].id : i \in DOMAIN ps}
Unique(ps) == \A i, j \in DOMAIN ps : ps[i].id = ps[j].id => i = j

Stored == [profiles : {ps \in Lists : Unique(ps)}, active : Ids \cup {NoId}]
Unset == [profiles |-> <<>>, active |-> NoId]

\* Types of the model and its two stored copies: in the settings and in the file
\* no two profiles share an identifier.
ModelTypeOK ==
  /\ m_profiles \in Lists
  /\ m_activeProfileId \in Ids \cup {NoId}
  /\ settings \in Stored
  /\ file \in Stored
  /\ wiped \subseteq Ids

-----------------------------------------------------------------------------

FirstOf(ps) == IF ps = <<>> THEN NoId ELSE ps[1].id

Parses(p) == p.config = "valid"

\* loadFromSettings(): profiles that do not parse are skipped, and the first
\* one is active if the stored one is not there.
Loaded(s) ==
  LET ps == AtPositions(s.profiles, {i \in DOMAIN s.profiles : Parses(s.profiles[i])}) IN
  [profiles |-> ps,
   active |-> IF s.active \in IdsOf(ps) THEN s.active ELSE FirstOf(ps)]

\* The file is one an earlier version of the client or its user left: it may
\* hold profiles that do not parse and select one that is not there.
ModelInit ==
  /\ file \in Stored
  /\ settings = file
  /\ m_profiles = Loaded(file).profiles
  /\ m_activeProfileId = Loaded(file).active
  /\ wiped = {}

Write_activeKept(ps, a) ==
  /\ m_profiles' = ps
  /\ m_activeProfileId' = a
  /\ settings' = [profiles |-> ps, active |-> settings.active]
  /\ UNCHANGED <<file, wiped>>

\* The model becomes ps with active profile a, and writeSettings().
Write(ps, a) ==
  /\ m_profiles' = ps
  /\ m_activeProfileId' = a
  /\ settings' = [profiles |-> ps, active |-> a]
  /\ UNCHANGED <<file, wiped>>

\* addProfile() of a configuration that parses, under a new UUID.
addProfile(id, name) ==
  /\ Len(m_profiles) < MaxProfiles
  /\ id \notin IdsOf(m_profiles) \cup IdsOf(settings.profiles)
                 \cup IdsOf(file.profiles) \cup wiped
  /\ Write(Append(m_profiles, [id |-> id, name |-> name, config |-> "valid"]),
           IF m_activeProfileId = NoId THEN id ELSE m_activeProfileId)

RemainingActive_kept(ps, id) == m_activeProfileId

\* The active profile once id has been removed and ps are left.
RemainingActive(ps, id) ==
  IF m_activeProfileId = id THEN FirstOf(ps) ELSE m_activeProfileId

removeProfile(id) ==
  LET ps == AtPositions(m_profiles, {i \in DOMAIN m_profiles : m_profiles[i].id # id}) IN
  /\ id \in IdsOf(m_profiles)
  /\ Write(ps, RemainingActive(ps, id))

renameProfile(id, name) ==
  \E i \in DOMAIN m_profiles :
    /\ m_profiles[i].id = id
    /\ Write([m_profiles EXCEPT ![i].name = name], m_activeProfileId)

selectProfile(id) ==
  /\ id \in IdsOf(m_profiles)
  /\ Write(m_profiles, id)

-----------------------------------------------------------------------------

\* QSettings writes its file.
settingsSync ==
  /\ file' = settings
  /\ UNCHANGED <<m_profiles, m_activeProfileId, settings, wiped>>

\* The client ends, in order or not, and is started again.
restart(s) ==
  /\ settings' = s
  /\ file' = s
  /\ m_profiles' = Loaded(s).profiles
  /\ m_activeProfileId' = Loaded(s).active
  /\ UNCHANGED wiped

quitAndRestart == restart(settings)
crashAndRestart == restart(file)

\* SettingsManager::reset() and hardReset() remove both settings; the list in
\* memory stays.
reset ==
  /\ wiped' = wiped \cup IdsOf(settings.profiles)
  /\ settings' = Unset
  /\ UNCHANGED <<m_profiles, m_activeProfileId, file>>

UserNext ==
  \E id \in Ids :
    \/ \E name \in Names : addProfile(id, name) \/ renameProfile(id, name)
    \/ removeProfile(id)
    \/ selectProfile(id)

ProcessNext == settingsSync \/ quitAndRestart \/ crashAndRestart

ModelSpec == ModelInit /\ [][UserNext \/ ProcessNext]_modelVars

ResetSpec == ModelInit /\ [][UserNext \/ ProcessNext \/ reset]_modelVars

-----------------------------------------------------------------------------

\* Wherever the list comes from and whatever was removed, there is an active
\* profile as soon as there is any, and its configuration parses: this is what
\* lets the controller take hasProfiles() for "a tunnel can be configured".
ActiveIsUsable ==
  IF m_profiles = <<>>
  THEN m_activeProfileId = NoId
  ELSE \E i \in DOMAIN m_profiles :
         m_profiles[i].id = m_activeProfileId /\ Parses(m_profiles[i])

\* A restart shows the user what was on the screen: reading the settings back
\* gives the list and the selection in memory, after every edit.
ReloadIsIdentity ==
  Loaded(settings) = [profiles |-> m_profiles, active |-> m_activeProfileId]

\* "Remove when reset": what a reset removed does not come back.
ResetForgets == IdsOf(settings.profiles) \cap wiped = {}

\* The selection is usable and what is stored is what is shown.
ProfilesSound == ActiveIsUsable /\ ReloadIsIdentity

=============================================================================
