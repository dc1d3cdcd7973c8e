----------------------------- MODULE Navigator ------------------------------
(***************************************************************************)
(* Which screen the window shows: Navigator (src/src/frontend/navigator.cpp) *)
(* with the screens that the Linux build registers and the states of the   *)
(* client it reaches, StateInitialize and StateMain.                       *)
(*                                                                         *)
(* Some screens belong to a state; the others are shown in any state, only *)
(* when asked for, and have a button that goes back.                       *)
(***************************************************************************)
EXTENDS Naturals, Sequences

CONSTANT MaxHistory   \* bound on the history when a screen is asked for

ASSUME HistoryAssumption == MaxHistory \in Nat \ {0}

VARIABLES
  vpnState,         \* MozillaVPN::m_state
  m_currentScreen,
  m_screenHistory

navVars == <<vpnState, m_currentScreen, m_screenHistory>>

AnyState == {"GetHelp", "ViewLogs", "UpdateRecommended", "CrashReporting"}
OfMain == {"Home", "Settings", "Messaging", "CaptivePortal"}
OfInitialize == {"Initialize"}

\* registerNavigatorScreens(): the screens of a state, and the one of top
\* priority, as far as the client gets into their states.
Screens(st) == IF st = "Main" THEN OfMain ELSE OfInitialize
TopPriority(st) == IF st = "Main" THEN "Home" ELSE "Initialize"

NavTypeOK ==
  /\ vpnState \in {"Initialize", "Main"}
  /\ m_screenHistory \in Seq(AnyState \cup OfMain \cup OfInitialize)
  /\ m_currentScreen = m_screenHistory[Len(m_screenHistory)]

\* initialize()
NavInit ==
  /\ vpnState = "Initialize"
  /\ m_currentScreen = "Initialize" /\ m_screenHistory = <<"Initialize">>

-----------------------------------------------------------------------------

\* loadScreen(): the current screen is not loaded again, whatever the flags.
loadScreen(screen, history) ==
  /\ m_currentScreen' = screen
  /\ m_screenHistory' = IF screen = m_currentScreen THEN history
                                                    ELSE Append(history, screen)

\* requestScreen(), with computeScreens(): what the state does not allow is not
\* shown.
requestScreen(screen, history) ==
  \/ screen \in Screens(vpnState) \cup AnyState /\ loadScreen(screen, history)
  \/ /\ screen \notin Screens(vpnState) \cup AnyState
     /\ m_screenHistory' = history /\ UNCHANGED m_currentScreen

computeComponent_staysOnRequested(st) ==
  IF m_currentScreen \in AnyState THEN UNCHANGED <<m_currentScreen, m_screenHistory>>
                                  ELSE loadScreen(TopPriority(st), m_screenHistory)

\* computeComponent(): screens of any state have no priority unless asked for.
computeComponent(st) == loadScreen(TopPriority(st), m_screenHistory)

\* setState(), also to the state it is in, as each change of the profiles does.
navSetState ==
  /\ Len(m_screenHistory) < MaxHistory
  /\ \E st \in {"Initialize", "Main"} : vpnState' = st /\ computeComponent(st)

\* A button, a notification, a deep link or the controller asks for a screen;
\* reloadCurrentScreen() asks for the current one.
navRequested ==
  /\ Len(m_screenHistory) < MaxHistory
  /\ \E screen \in AnyState \cup OfMain \cup OfInitialize :
       requestScreen(screen, m_screenHistory)
  /\ UNCHANGED vpnState

requestPreviousScreen_takesOne ==
  /\ m_currentScreen \in AnyState /\ Len(m_screenHistory) > 1
  /\ requestScreen(m_screenHistory[Len(m_screenHistory) - 1],
                   SubSeq(m_screenHistory, 1, Len(m_screenHistory) - 1))
  /\ UNCHANGED vpnState

\* requestPreviousScreen(), from a screen that has the button: both screens are
\* taken from the history before it is known whether the older can be shown.
requestPreviousScreen ==
  /\ m_currentScreen \in AnyState /\ Len(m_screenHistory) > 1
  /\ requestScreen(m_screenHistory[Len(m_screenHistory) - 1],
                   SubSeq(m_screenHistory, 1, Len(m_screenHistory) - 2))
  /\ UNCHANGED vpnState

NavNext == navSetState \/ navRequested \/ requestPreviousScreen

NavSpec == NavInit /\ [][NavNext]_navVars

-----------------------------------------------------------------------------

\* The button always leads somewhere: there is an older screen, another one,
\* that may still be shown, however often the state changed since.
BackLeadsSomewhere ==
  m_currentScreen \in AnyState =>
    /\ Len(m_screenHistory) > 1
    /\ m_screenHistory[Len(m_screenHistory) - 1]
         \in (Screens(vpnState) \cup AnyState) \ {m_currentScreen}

\* What is shown belongs to the state the client is in.
ShownFits == m_currentScreen \in Screens(vpnState) \cup AnyState

\* Whatever happens to the screens leaves one that fits and a way back from it,
\* and going back undoes one step, no more and no less (navigator.cpp:203).
NavigationHolds ==
  [][/\ BackLeadsSomewhere' /\ ShownFits'
     /\ Len(m_screenHistory') < Len(m_screenHistory)
          => m_screenHistory' = SubSeq(m_screenHistory, 1, Len(m_screenHistory) - 1)]_navVars

=============================================================================
