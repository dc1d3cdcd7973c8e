------------------------- MODULE ClientPartsProofs --------------------------
(***************************************************************************)
(* Proofs about parts of the client: the screens the user can go back to,  *)
(* the list of local WireGuard profiles, the task queue, the encrypted     *)
(* settings file, the local socket, the connection health, the captive     *)
(* portal and the servers' latency.                                        *)
(***************************************************************************)
EXTENDS Navigator, WireGuardProfileModel, TaskScheduler, CryptoSettings,
        LocalSocket, ConnectionHealth, CaptivePortal, ServerLatency,
        FiniteSetTheorems, SequenceTheorems, WellFoundedInduction, TLAPS

(***************************************************************************)
(* The screens.  What a back button reaches depends on the history below   *)
(* it, which a change of the state does not touch: what makes it work is   *)
(* that under the screens of any state at its end lies one of the state.   *)
(***************************************************************************)

\* Every screen of the application.
AllScreens == AnyState \cup OfMain \cup OfInitialize

\* Under the screens of any state at the end is one of the state.
BelongsBelow(h, st) ==
  \A i \in 1..Len(h) :
    h[i] \notin AnyState /\ (\A j \in i + 1 .. Len(h) : h[j] \in AnyState) => h[i] \in Screens(st)

\* No screen follows itself, and the first is of a state.
HistorySound(h) ==
  /\ h \in Seq(AllScreens) /\ Len(h) > 0 /\ h[1] \notin AnyState
  /\ \A i \in 1 .. Len(h) - 1 : h[i] # h[i + 1]

\* The invariant of the window.
NavInv ==
  /\ NavTypeOK
  /\ HistorySound(m_screenHistory)
  /\ BelongsBelow(m_screenHistory, vpnState)

\* No screen is one of two kinds.
LEMMA ScreensApart ==
  /\ \A st \in {"Initialize", "Main"} :
       /\ Screens(st) \cap AnyState = {} /\ Screens(st) \subseteq AllScreens
       /\ TopPriority(st) \in Screens(st)
BY DEF Screens, TopPriority, AnyState, OfMain, OfInitialize, AllScreens

\* A screen is put on top of a history.
LEMMA PutOnTop ==
  ASSUME NEW h, HistorySound(h), NEW st \in {"Initialize", "Main"},
         NEW screen \in Screens(st) \cup AnyState, screen # h[Len(h)],
         screen \in AnyState => BelongsBelow(h, st)
  PROVE  /\ HistorySound(Append(h, screen)) /\ BelongsBelow(Append(h, screen), st)
         /\ Append(h, screen)[Len(Append(h, screen))] = screen
<1> DEFINE g == Append(h, screen)
<1>1. h \in Seq(AllScreens) /\ screen \in AllScreens
  BY ScreensApart DEF HistorySound, AllScreens
<1>2. /\ g \in Seq(AllScreens) /\ Len(g) = Len(h) + 1 /\ Len(h) \in Nat \ {0}
      /\ g[Len(g)] = screen /\ \A i \in 1..Len(h) : g[i] = h[i]
  BY <1>1 DEF HistorySound
<1> HIDE DEF g
<1>3. HistorySound(g)
  <2>1. ASSUME NEW i \in 1 .. Len(g) - 1 PROVE g[i] # g[i + 1]
    <3>1. CASE i = Len(h)
      BY <3>1, <1>2
    <3>2. CASE i # Len(h)
      <4>1. i \in 1 .. Len(h) - 1 /\ i \in 1..Len(h) /\ i + 1 \in 1..Len(h)
        BY <3>2, <1>2
      <4> QED BY <4>1, <1>2 DEF HistorySound
    <3> QED BY <3>1, <3>2
  <2>2. g[1] = h[1]
    BY <1>2
  <2> QED BY <2>1, <2>2, <1>2 DEF HistorySound
<1>4. BelongsBelow(g, st)
  <2> SUFFICES ASSUME NEW i \in 1..Len(g), g[i] \notin AnyState,
                      \A j \in i + 1 .. Len(g) : g[j] \in AnyState
               PROVE  g[i] \in Screens(st)
    BY DEF BelongsBelow
  <2>1. CASE i = Len(g)
    BY <2>1, <1>2
  <2>2. CASE i # Len(g)
    <3>1. i \in 1..Len(h) /\ Len(g) \in i + 1 .. Len(g)
      BY <2>2, <1>2
    <3>2. screen \in AnyState
      BY <3>1, <1>2
    <3>3. \A j \in i + 1 .. Len(h) : h[j] \in AnyState
      BY <3>1, <1>2
    <3> QED BY <3>1, <3>2, <3>3, <1>2 DEF BelongsBelow
  <2> QED BY <2>1, <2>2
<1> QED BY <1>2, <1>3, <1>4 DEF g

\* A history without its last screen, when that is one of any state.
LEMMA TakenOff ==
  ASSUME NEW h, HistorySound(h), NEW st, BelongsBelow(h, st), h[Len(h)] \in AnyState
  PROVE  LET g == SubSeq(h, 1, Len(h) - 1)
         IN  /\ HistorySound(g) /\ BelongsBelow(g, st)
             /\ Len(h) > 1 /\ Len(g) = Len(h) - 1 /\ g[Len(g)] = h[Len(h) - 1]
             /\ h[Len(h) - 1] \in (Screens(st) \cup AnyState) \ {h[Len(h)]}
             /\ g = Append(SubSeq(h, 1, Len(h) - 2), h[Len(h) - 1])
<1> DEFINE g == SubSeq(h, 1, Len(h) - 1)
           n == Len(h)
<1>1. h \in Seq(AllScreens) /\ n \in Nat /\ n > 1
  BY DEF HistorySound
<1>2. /\ g \in Seq(AllScreens) /\ Len(g) = n - 1 /\ \A i \in 1 .. n - 1 : g[i] = h[i]
  BY <1>1
<1>3. g = Append(SubSeq(h, 1, n - 2), h[n - 1])
  <2> DEFINE f == SubSeq(h, 1, n - 2)
             k == Append(f, h[n - 1])
  <2>1. f \in Seq(AllScreens) /\ Len(f) = n - 2 /\ \A i \in 1 .. n - 2 : f[i] = h[i]
    <3> DEFINE m == n - 2
    <3>1. 1 \in 1 .. Len(h) + 1 /\ m \in 0 .. Len(h) /\ m \in Nat
      BY <1>1
    <3> HIDE DEF m
    <3>2. /\ SubSeq(h, 1, m) \in Seq(AllScreens)
          /\ Len(SubSeq(h, 1, m)) = IF 1 <= m THEN m - 1 + 1 ELSE 0
          /\ \A i \in 1 .. m - 1 + 1 : SubSeq(h, 1, m)[i] = h[1 + i - 1]
      BY <1>1, <3>1, SubSeqProperties
    <3>3. Len(SubSeq(h, 1, m)) = m /\ \A i \in 1 .. m : SubSeq(h, 1, m)[i] = h[i]
      <4>1. m - 1 + 1 = m /\ \A i \in 1 .. m : 1 + i - 1 = i
        BY <3>1
      <4>2. 1 <= m \/ m = 0
        BY <3>1
      <4> QED BY <4>1, <4>2, <3>2
    <3>4. f = SubSeq(h, 1, m)
      BY DEF m
    <3> HIDE DEF f
    <3>5. f \in Seq(AllScreens) /\ Len(f) = m /\ \A i \in 1 .. m : f[i] = h[i]
      BY <3>2, <3>3, <3>4
    <3> QED BY <3>5 DEF m
  <2>2. h[n - 1] \in AllScreens
    BY <1>1
  <2> HIDE DEF f
  <2>3. k \in Seq(AllScreens) /\ Len(k) = n - 1 /\ \A i \in 1 .. n - 1 : k[i] = h[i]
    BY <1>1, <2>1, <2>2
  <2> HIDE DEF k, g
  <2>4. \A i \in 1 .. Len(g) : g[i] = k[i]
    BY <1>2, <2>3
  <2>5. g = k
    BY <1>2, <2>3, <2>4, SeqEqual
  <2> QED BY <2>5 DEF k, f
<1> HIDE DEF g
<1>4. HistorySound(g)
  BY <1>1, <1>2 DEF HistorySound
<1>5. BelongsBelow(g, st)
  <2> SUFFICES ASSUME NEW i \in 1..Len(g), g[i] \notin AnyState,
                      \A j \in i + 1 .. Len(g) : g[j] \in AnyState
               PROVE  g[i] \in Screens(st)
    BY DEF BelongsBelow
  <2>1. \A j \in i + 1 .. n : h[j] \in AnyState
    BY <1>1, <1>2
  <2>2. i \in 1..n /\ h[i] = g[i]
    BY <1>1, <1>2
  <2> QED BY <2>1, <2>2 DEF BelongsBelow
<1>6. h[n - 1] \in Screens(st) \cup AnyState
  <2>1. n - 1 \in 1..n /\ \A j \in (n - 1) + 1 .. n : j = n
    BY <1>1
  <2> QED BY <2>1 DEF BelongsBelow
<1>7. h[n - 1] # h[n]
  BY <1>1 DEF HistorySound
<1> QED BY <1>1, <1>2, <1>3, <1>4, <1>5, <1>6, <1>7 DEF g

\* A step of the window leaves a history in which the way back is open.
NavStepHolds ==
  /\ NavInv'
  /\ Len(m_screenHistory') < Len(m_screenHistory)
       => m_screenHistory' = SubSeq(m_screenHistory, 1, Len(m_screenHistory) - 1)

\* A change of the state of the application.
LEMMA SetStateHolds ==
  ASSUME NavInv, navSetState
  PROVE  NavStepHolds
<1> DEFINE h == m_screenHistory
<1>1. PICK st \in {"Initialize", "Main"} : vpnState' = st /\ computeComponent(st)
  BY DEF navSetState
<1>2. HistorySound(h) /\ m_currentScreen = h[Len(h)] /\ h \in Seq(AllScreens)
  BY DEF NavInv, NavTypeOK, HistorySound
<1>3. TopPriority(st) \in Screens(st) /\ TopPriority(st) \notin AnyState
  BY ScreensApart
<1>4. CASE TopPriority(st) = m_currentScreen
  <2>1. m_screenHistory' = h /\ m_currentScreen' = m_currentScreen
    BY <1>1, <1>4 DEF computeComponent, loadScreen
  <2>2. BelongsBelow(h, st)
    BY <1>2, <1>3, <1>4 DEF BelongsBelow, HistorySound
  <2> QED BY <2>1, <2>2, <1>1, <1>2 DEF NavStepHolds, NavInv, NavTypeOK, AllScreens
<1>5. CASE TopPriority(st) # m_currentScreen
  <2> DEFINE g == Append(h, TopPriority(st))
  <2>1. m_screenHistory' = g /\ m_currentScreen' = TopPriority(st)
    BY <1>1, <1>5 DEF computeComponent, loadScreen
  <2>2. /\ HistorySound(g) /\ BelongsBelow(g, st)
        /\ g[Len(g)] = TopPriority(st)
    BY <1>2, <1>3, <1>5, PutOnTop
  <2>3. Len(g) > Len(h)
    BY <1>2
  <2>4. g \in Seq(AllScreens)
    BY <2>2 DEF HistorySound
  <2> HIDE DEF g
  <2> QED BY <2>1, <2>2, <2>3, <2>4, <1>1, <1>2 DEF NavStepHolds, NavInv, NavTypeOK, AllScreens,
          HistorySound
<1> QED BY <1>4, <1>5

\* A screen is asked for.
LEMMA RequestHolds ==
  ASSUME NavInv, navRequested
  PROVE  NavStepHolds
<1> DEFINE h == m_screenHistory
<1>1. PICK screen \in AllScreens : requestScreen(screen, h)
  BY DEF navRequested, AllScreens
<1>2. /\ HistorySound(h) /\ m_currentScreen = h[Len(h)] /\ h \in Seq(AllScreens)
      /\ BelongsBelow(h, vpnState) /\ vpnState \in {"Initialize", "Main"}
      /\ vpnState' = vpnState
  BY DEF NavInv, NavTypeOK, HistorySound, navRequested
<1>3. CASE m_screenHistory' = h /\ m_currentScreen' = m_currentScreen
  BY <1>2, <1>3 DEF NavStepHolds, NavInv, NavTypeOK
<1>4. CASE screen \in Screens(vpnState) \cup AnyState /\ screen # m_currentScreen
  <2> DEFINE g == Append(h, screen)
  <2>1. m_screenHistory' = g /\ m_currentScreen' = screen
    BY <1>1, <1>4 DEF requestScreen, loadScreen
  <2>2. /\ HistorySound(g) /\ BelongsBelow(g, vpnState)
        /\ g[Len(g)] = screen
    BY <1>2, <1>4, PutOnTop
  <2>3. Len(g) > Len(h)
    BY <1>2
  <2>4. g \in Seq(AllScreens)
    BY <2>2 DEF HistorySound
  <2> HIDE DEF g
  <2> QED BY <2>1, <2>2, <2>3, <2>4, <1>2 DEF NavStepHolds, NavInv, NavTypeOK, AllScreens,
          HistorySound
<1> QED BY <1>1, <1>3, <1>4 DEF requestScreen, loadScreen

\* The back button.
LEMMA BackHolds ==
  ASSUME NavInv, requestPreviousScreen
  PROVE  NavStepHolds
<1> DEFINE h == m_screenHistory
           g == SubSeq(h, 1, Len(h) - 1)
           older == h[Len(h) - 1]
<1>1. /\ HistorySound(h) /\ m_currentScreen = h[Len(h)] /\ h[Len(h)] \in AnyState
      /\ BelongsBelow(h, vpnState) /\ vpnState \in {"Initialize", "Main"}
      /\ vpnState' = vpnState
      /\ requestScreen(older, SubSeq(h, 1, Len(h) - 2))
  BY DEF NavInv, NavTypeOK, requestPreviousScreen
<1>2. /\ HistorySound(g) /\ BelongsBelow(g, vpnState)
      /\ Len(g) = Len(h) - 1 /\ g[Len(g)] = older
      /\ older \in (Screens(vpnState) \cup AnyState) \ {h[Len(h)]}
      /\ g = Append(SubSeq(h, 1, Len(h) - 2), older)
  BY <1>1, TakenOff
<1>3. m_screenHistory' = g /\ m_currentScreen' = older
  BY <1>1, <1>2 DEF requestScreen, loadScreen
<1>4. g \in Seq(AllScreens)
  BY <1>2 DEF HistorySound
<1> HIDE DEF older
<1>5. NavInv'
  BY <1>1, <1>2, <1>3, <1>4 DEF NavInv, NavTypeOK, AllScreens
<1> QED BY <1>3, <1>5 DEF NavStepHolds

\* What is shown fits, and the way back from it is open.
LEMMA NavInvImplies == NavInv => ShownFits /\ BackLeadsSomewhere
<1> SUFFICES ASSUME NavInv PROVE ShownFits /\ BackLeadsSomewhere
  OBVIOUS
<1> DEFINE h == m_screenHistory
<1>1. /\ HistorySound(h) /\ m_currentScreen = h[Len(h)] /\ BelongsBelow(h, vpnState)
      /\ Len(h) \in Nat \ {0}
  BY DEF NavInv, NavTypeOK, HistorySound
<1>2. ShownFits
  <2>1. Len(h) \in 1..Len(h) /\ Len(h) + 1 .. Len(h) = {}
    BY <1>1
  <2> QED BY <2>1, <1>1 DEF ShownFits, BelongsBelow
<1>3. BackLeadsSomewhere
  BY <1>1, TakenOff DEF BackLeadsSomewhere
<1> QED BY <1>2, <1>3

\* The window is made.
LEMMA NavInvInit == NavInit => NavInv
<1> SUFFICES ASSUME NavInit PROVE NavInv
  OBVIOUS
<1>1. /\ m_screenHistory = <<"Initialize">> /\ vpnState = "Initialize"
      /\ m_currentScreen = "Initialize"
  BY DEF NavInit
<1>2. /\ "Initialize" \notin AnyState /\ "Initialize" \in Screens("Initialize")
      /\ "Initialize" \in AllScreens
  BY DEF AnyState, Screens, OfInitialize, AllScreens
<1>3. HistorySound(m_screenHistory) /\ BelongsBelow(m_screenHistory, vpnState)
  BY <1>1, <1>2 DEF HistorySound, BelongsBelow
<1> QED BY <1>1, <1>2, <1>3 DEF NavInv, NavTypeOK, AllScreens

(***************************************************************************)
(* Whatever the window is asked for and however the state of the client    *)
(* changes, the screen shown fits the state, the button to go back leads   *)
(* to another screen that may be shown, and going back undoes one step     *)
(* (Navigator), with any bound on the history.                             *)
(***************************************************************************)
THEOREM ScreensHold == NavSpec => []NavTypeOK /\ NavigationHolds
<1>1. NavInv /\ [NavNext]_navVars =>
        /\ NavInv'
        /\ [/\ BackLeadsSomewhere' /\ ShownFits'
            /\ Len(m_screenHistory') < Len(m_screenHistory)
                 => m_screenHistory' = SubSeq(m_screenHistory, 1, Len(m_screenHistory) - 1)]_navVars
  <2> SUFFICES ASSUME NavInv, [NavNext]_navVars
               PROVE  /\ NavInv'
                      /\ [/\ BackLeadsSomewhere' /\ ShownFits'
                          /\ Len(m_screenHistory') < Len(m_screenHistory)
                               => m_screenHistory' = SubSeq(m_screenHistory, 1, Len(m_screenHistory) - 1)]_navVars
    OBVIOUS
  <2>1. CASE NavNext
    <3>1. NavStepHolds
      BY <2>1, SetStateHolds, RequestHolds, BackHolds DEF NavNext
    <3>2. NavInv' => ShownFits' /\ BackLeadsSomewhere'
      BY NavInvImplies, PTL
    <3> QED BY <3>1, <3>2 DEF NavStepHolds
  <2>2. CASE UNCHANGED navVars
    BY <2>2 DEF navVars, NavInv, NavTypeOK
  <2> QED BY <2>1, <2>2
<1>2. NavInv => NavTypeOK
  BY DEF NavInv
<1> QED BY <1>1, <1>2, NavInvInit, PTL DEF NavSpec, NavigationHolds

-----------------------------------------------------------------------------

(***************************************************************************)
(* Counting.  A set of natural numbers that is not empty has a least one;  *)
(* from this comes all that is needed of the order of kept positions.      *)
(***************************************************************************)

\* A set of natural numbers that is not empty has a least member.
LEMMA LeastNat ==
  ASSUME NEW T, T \subseteq Nat, T # {}
  PROVE \E x \in T : \A y \in T : x <= y
<1> DEFINE R == OpToRel(<, Nat)
<1>1. IsWellFoundedOn(R, Nat)
  BY NatLessThanWellFounded
<1>2. \A x, y \in Nat : <<y, x>> \in R <=> y < x
  BY DEF OpToRel
<1> HIDE DEF R
<1>3. PICK x \in T : \A y \in T : <<y, x>> \notin R
  BY <1>1, WFMin
<1>4. ASSUME NEW y \in T PROVE x <= y
  <2>1. x \in Nat /\ y \in Nat
    OBVIOUS
  <2>2. ~(y < x)
    BY <2>1, <1>2, <1>3
  <2> QED BY <2>1, <2>2
<1> QED BY <1>4

\* How many members S has up to i.
UpTo(S, i) == Cardinality(S \cap 1..i)

\* How many members of a set of positions lie up to one.
LEMMA UpToCounts ==
  ASSUME NEW S, NEW n \in Nat, S \subseteq 1..n
  PROVE  /\ IsFiniteSet(S) /\ Cardinality(S) \in Nat /\ Cardinality(S) <= n
         /\ UpTo(S, 0) = 0 /\ UpTo(S, n) = Cardinality(S)
         /\ \A i \in Nat : UpTo(S, i) \in Nat /\ IsFiniteSet(S \cap 1..i)
         /\ \A i \in Nat : UpTo(S, i + 1) = IF i + 1 \in S THEN UpTo(S, i) + 1 ELSE UpTo(S, i)
         /\ \A i \in Nat, j \in S : i < j => UpTo(S, i) < UpTo(S, j)
<1>1. IsFiniteSet(1..n) /\ Cardinality(1..n) = n
  BY FS_Interval
<1>2. IsFiniteSet(S) /\ Cardinality(S) <= n /\ Cardinality(S) \in Nat
  BY <1>1, FS_Subset, FS_CardinalityType
<1>3. ASSUME NEW i \in Nat PROVE UpTo(S, i) \in Nat /\ IsFiniteSet(S \cap 1..i)
  BY <1>2, FS_Subset, FS_CardinalityType DEF UpTo
<1>4. UpTo(S, 0) = 0
  <2>1. S \cap 1..0 = {}
    OBVIOUS
  <2> QED BY <2>1, FS_EmptySet DEF UpTo
<1>5. UpTo(S, n) = Cardinality(S)
  <2>1. S \cap 1..n = S
    OBVIOUS
  <2> QED BY <2>1 DEF UpTo
<1>6. ASSUME NEW i \in Nat
      PROVE  UpTo(S, i + 1) = IF i + 1 \in S THEN UpTo(S, i) + 1 ELSE UpTo(S, i)
  <2>1. CASE i + 1 \in S
    <3>1. S \cap 1..(i + 1) = (S \cap 1..i) \cup {i + 1} /\ i + 1 \notin S \cap 1..i
      BY <2>1
    <3>2. Cardinality((S \cap 1..i) \cup {i + 1}) = Cardinality(S \cap 1..i) + 1
      BY <3>1, <1>3, FS_AddElement
    <3> QED BY <3>1, <3>2, <2>1 DEF UpTo
  <2>2. CASE i + 1 \notin S
    <3>1. S \cap 1..(i + 1) = S \cap 1..i
      BY <2>2
    <3> QED BY <3>1, <2>2 DEF UpTo
  <2> QED BY <2>1, <2>2
<1>7. ASSUME NEW i \in Nat, NEW j \in S, i < j PROVE UpTo(S, i) < UpTo(S, j)
  <2>1. j \in Nat
    OBVIOUS
  <2>2. (S \cap 1..i) \cup {j} \in SUBSET (S \cap 1..j) /\ j \notin S \cap 1..i
    BY <1>7, <2>1
  <2>3. /\ IsFiniteSet((S \cap 1..i) \cup {j})
        /\ Cardinality((S \cap 1..i) \cup {j}) = Cardinality(S \cap 1..i) + 1
    BY <2>2, <1>3, FS_AddElement
  <2>4. Cardinality((S \cap 1..i) \cup {j}) <= Cardinality(S \cap 1..j)
    BY <2>1, <2>2, <1>3, FS_Subset
  <2>5. UpTo(S, i) \in Nat /\ UpTo(S, j) \in Nat
    BY <1>3, <2>1
  <2> QED BY <2>3, <2>4, <2>5 DEF UpTo
<1> QED BY <1>2, <1>3, <1>4, <1>5, <1>6, <1>7

\* Every count up to that of S is that at one member.
LEMMA MemberAt ==
  ASSUME NEW S, NEW n \in Nat, S \subseteq 1..n, NEW k \in 1 .. Cardinality(S)
  PROVE  \E i \in S : UpTo(S, i) = k
<1> DEFINE T == {i \in 0..n : k <= UpTo(S, i)}
<1>1. /\ Cardinality(S) \in Nat /\ UpTo(S, 0) = 0 /\ UpTo(S, n) = Cardinality(S)
      /\ \A i \in Nat : UpTo(S, i) \in Nat
      /\ \A i \in Nat : UpTo(S, i + 1) = IF i + 1 \in S THEN UpTo(S, i) + 1 ELSE UpTo(S, i)
  BY UpToCounts
<1>2. n \in T
  BY <1>1
<1>3. T \subseteq Nat
  OBVIOUS
<1>4. PICK i \in T : \A j \in T : i <= j
  BY <1>2, <1>3, LeastNat
<1>5. i \in Nat \ {0} /\ i <= n
  BY <1>1, <1>4
<1>6. i - 1 \in Nat /\ i - 1 \in 0..n /\ (i - 1) + 1 = i
  BY <1>5
<1>7. i - 1 \notin T
  BY <1>4, <1>5
<1>8. UpTo(S, i - 1) < k /\ k <= UpTo(S, i)
  BY <1>1, <1>4, <1>6, <1>7
<1> QED BY <1>1, <1>6, <1>8

\* The list at the positions S holds the members at S, each once.
LEMMA AtPositionsHolds ==
  ASSUME NEW P, NEW ps \in Seq(P), NEW S, S \subseteq 1..Len(ps)
  PROVE  LET r == AtPositions(ps, S)
         IN  /\ r \in Seq(P) /\ Len(r) = Cardinality(S) /\ Len(r) <= Len(ps)
             /\ \A k \in 1..Len(r) : \E i \in S : r[k] = ps[i] /\ UpTo(S, i) = k
             /\ \A i \in S : UpTo(S, i) \in 1..Len(r) /\ r[UpTo(S, i)] = ps[i]
<1> DEFINE n == Len(ps)
           c == Cardinality(S)
           at(k) == CHOOSE i \in S : Cardinality(S \cap 1..i) = k
           r == AtPositions(ps, S)
<1>1. n \in Nat /\ \A i \in 1..n : ps[i] \in P
  OBVIOUS
<1> HIDE DEF n
<1>0. S \subseteq 1..n
  BY DEF n
<1>2. c \in Nat /\ c <= n
  BY <1>0, <1>1, UpToCounts
<1>9. /\ IsFiniteSet(S) /\ UpTo(S, 0) = 0
      /\ \A x \in Nat : UpTo(S, x) \in Nat
      /\ \A x \in Nat, y \in S : x < y => UpTo(S, x) < UpTo(S, y)
  BY <1>0, <1>1, UpToCounts
<1>3. ASSUME NEW k \in 1..c PROVE at(k) \in S /\ UpTo(S, at(k)) = k
  <2>1. \E i \in S : UpTo(S, i) = k
    BY <1>0, <1>1, MemberAt
  <2> QED BY <2>1 DEF UpTo
<1>4. r = [k \in 1..c |-> ps[at(k)]]
  BY DEF AtPositions
<1> HIDE DEF at, r
<1>5. r \in [1..c -> P]
  BY <1>0, <1>1, <1>3, <1>4
<1>6. r \in Seq(P) /\ Len(r) = c
  BY <1>2, <1>5
<1>7. \A k \in 1..c : r[k] = ps[at(k)]
  BY <1>4
<1>8. ASSUME NEW i \in S PROVE UpTo(S, i) \in 1..c /\ r[UpTo(S, i)] = ps[i]
  <2>1. i \in 1..n /\ i \in Nat /\ UpTo(S, i) \in Nat
    BY <1>0, <1>1, <1>9
  <2>2. UpTo(S, 0) = 0 /\ UpTo(S, 0) < UpTo(S, i)
    BY <1>0, <2>1, <1>9
  <2>3. UpTo(S, i) <= c
    <3>1. IsFiniteSet(S) /\ S \cap 1..i \in SUBSET S
      BY <1>9
    <3> QED BY <3>1, FS_Subset DEF UpTo
  <2>4. UpTo(S, i) \in 1..c
    BY <2>1, <2>2, <2>3, <1>2
  <2> DEFINE j == at(UpTo(S, i))
  <2>5. j \in S /\ UpTo(S, j) = UpTo(S, i)
    BY <2>4, <1>3
  <2> HIDE DEF j
  <2>6. j \in Nat /\ ~(j < i) /\ ~(i < j)
    <3>1. j \in Nat
      BY <2>5, <1>0, <1>1
    <3>2. j < i => UpTo(S, j) < UpTo(S, i)
      BY <3>1, <1>9
    <3>3. i < j => UpTo(S, i) < UpTo(S, j)
      BY <2>1, <2>5, <1>9
    <3> QED BY <3>1, <3>2, <3>3, <2>5, <2>1
  <2>7. j = i
    BY <2>6, <2>1
  <2> QED BY <2>4, <2>7, <1>7 DEF j
<1> QED BY <1>2, <1>3, <1>6, <1>7, <1>8 DEF r, n

\* The list at all its positions is the list.
LEMMA AtAllPositions ==
  ASSUME NEW P, NEW ps \in Seq(P)
  PROVE  AtPositions(ps, 1..Len(ps)) = ps
<1> DEFINE S == 1..Len(ps)
           r == AtPositions(ps, S)
<1>0. Len(ps) \in Nat
  OBVIOUS
<1>1. Len(ps) \in Nat /\ S \subseteq 1..Len(ps) /\ Cardinality(S) = Len(ps)
  <2> DEFINE n == Len(ps)
  <2>1. n \in Nat
    BY <1>0
  <2> HIDE DEF n
  <2>2. Cardinality(1..n) = n
    BY <2>1, FS_Interval
  <2> QED BY <2>1, <2>2 DEF n
<1>2. ASSUME NEW i \in S PROVE UpTo(S, i) = i
  <2>1. S \cap 1..i = 1..i /\ i \in Nat \ {0}
    BY <1>1
  <2>2. Cardinality(1..i) = i
    BY <2>1, FS_Interval
  <2> QED BY <2>1, <2>2 DEF UpTo
<1>3. /\ r \in Seq(P) /\ Len(r) = Cardinality(S)
      /\ \A i \in S : UpTo(S, i) \in 1..Len(r) /\ r[UpTo(S, i)] = ps[i]
  BY <1>1, AtPositionsHolds
<1> HIDE DEF r
<1>4. \A i \in 1..Len(ps) : r[i] = ps[i]
  BY <1>2, <1>3
<1>5. r = ps
  BY <1>1, <1>3, <1>4, SeqEqual
<1> QED BY <1>5 DEF r

(***************************************************************************)
(* The profiles.                                                           *)
(***************************************************************************)

\* The lists are the sequences of profiles that are short enough.
LEMMA ListsAreSequences ==
  /\ \A ps : ps \in Lists <=> ps \in Seq(Profile) /\ Len(ps) <= MaxProfiles
  /\ \A ps \in Lists : DOMAIN ps = 1..Len(ps) /\ Len(ps) \in Nat
<1>1. ASSUME NEW ps \in Lists PROVE ps \in Seq(Profile) /\ Len(ps) <= MaxProfiles
                                      /\ DOMAIN ps = 1..Len(ps) /\ Len(ps) \in Nat
  <2>1. PICK n \in 0..MaxProfiles : ps \in [1..n -> Profile]
    BY DEF Lists
  <2> QED BY <2>1, ProfilesBound
<1>2. ASSUME NEW ps \in Seq(Profile), Len(ps) <= MaxProfiles PROVE ps \in Lists
  <2>1. Len(ps) \in 0..MaxProfiles /\ ps \in [1..Len(ps) -> Profile]
    BY <1>2, ProfilesBound
  <2> QED BY <2>1 DEF Lists
<1> QED BY <1>1, <1>2

\* Part of a list is a list, its profiles are among those of the list, and no two
\* of them share an identifier if no two of the list do.
LEMMA PartOfList ==
  ASSUME NEW ps \in Lists, NEW S, S \subseteq DOMAIN ps
  PROVE  LET r == AtPositions(ps, S)
         IN  /\ r \in Lists
             /\ \A k \in DOMAIN r : \E i \in S : r[k] = ps[i]
             /\ \A i \in S : \E k \in DOMAIN r : r[k] = ps[i]
             /\ Unique(ps) => Unique(r)
<1> DEFINE r == AtPositions(ps, S)
<1>1. ps \in Seq(Profile) /\ Len(ps) <= MaxProfiles /\ DOMAIN ps = 1..Len(ps) /\ Len(ps) \in Nat
  BY ListsAreSequences
<1>2. /\ r \in Seq(Profile) /\ Len(r) <= Len(ps)
      /\ \A k \in 1..Len(r) : \E i \in S : r[k] = ps[i] /\ UpTo(S, i) = k
      /\ \A i \in S : UpTo(S, i) \in 1..Len(r) /\ r[UpTo(S, i)] = ps[i]
  BY <1>1, AtPositionsHolds
<1> HIDE DEF r
<1>3. r \in Lists /\ DOMAIN r = 1..Len(r)
  <2>1. Len(r) \in Nat /\ Len(r) <= MaxProfiles
    BY <1>1, <1>2, ProfilesBound
  <2> QED BY <2>1, <1>2, ListsAreSequences
<1>4. ASSUME Unique(ps) PROVE Unique(r)
  <2> SUFFICES ASSUME NEW k \in 1..Len(r), NEW l \in 1..Len(r), r[k].id = r[l].id
               PROVE  k = l
    BY <1>3 DEF Unique
  <2>1. PICK i \in S : r[k] = ps[i] /\ UpTo(S, i) = k
    BY <1>2
  <2>2. PICK j \in S : r[l] = ps[j] /\ UpTo(S, j) = l
    BY <1>2
  <2>3. i = j
    BY <2>1, <2>2, <1>4 DEF Unique
  <2> QED BY <2>1, <2>2, <2>3
<1> QED BY <1>2, <1>3, <1>4 DEF r

\* Every profile parses; the active one is among them.
AllParse(ps) == \A i \in DOMAIN ps : Parses(ps[i])

UsableIn(ps, a) ==
  IF ps = <<>> THEN a = NoId
  ELSE \E i \in DOMAIN ps : ps[i].id = a /\ Parses(ps[i])

\* What loadFromSettings() gives is a usable selection of profiles that parse.
LEMMA LoadedIsUsable ==
  ASSUME NEW s \in Stored
  PROVE  LET l == Loaded(s)
         IN  /\ l.profiles \in Lists /\ Unique(l.profiles) /\ AllParse(l.profiles)
             /\ l.active \in Ids \cup {NoId}
             /\ UsableIn(l.profiles, l.active)
<1> DEFINE ps == s.profiles
           S == {i \in DOMAIN ps : Parses(ps[i])}
           r == AtPositions(ps, S)
           a == IF s.active \in IdsOf(r) THEN s.active ELSE FirstOf(r)
<1>1. ps \in Lists /\ Unique(ps) /\ s.active \in Ids \cup {NoId}
  BY DEF Stored
<1>2. Loaded(s) = [profiles |-> r, active |-> a]
  BY DEF Loaded
<1>3. /\ r \in Lists /\ Unique(r)
      /\ \A k \in DOMAIN r : \E i \in S : r[k] = ps[i]
  <2>1. S \subseteq DOMAIN ps
    OBVIOUS
  <2> HIDE DEF S, ps
  <2> QED BY <2>1, <1>1, PartOfList
<1>4. AllParse(r)
  BY <1>3 DEF AllParse
<1> HIDE DEF r
<1>5. r \in Seq(Profile) /\ DOMAIN r = 1..Len(r) /\ Len(r) \in Nat
  BY <1>3, ListsAreSequences
<1>6. CASE r = <<>>
  BY <1>6, <1>2, <1>3, <1>4, <1>5 DEF UsableIn, IdsOf, FirstOf
<1>7. CASE r # <<>>
  <2>1. 1 \in DOMAIN r /\ r[1].id \in Ids
    <3>1. 1 \in 1..Len(r) /\ r[1] \in Profile
      BY <1>5, <1>7
    <3> QED BY <3>1, <1>5 DEF Profile
  <2>2. \E i \in DOMAIN r : r[i].id = a
    BY <2>1, <1>7 DEF IdsOf, FirstOf
  <2>3. a \in Ids \cup {NoId}
    BY <2>1, <1>1, <1>7 DEF FirstOf
  <2> HIDE DEF a
  <2> QED BY <2>2, <2>3, <1>2, <1>3, <1>4, <1>7 DEF UsableIn, AllParse
<1> QED BY <1>6, <1>7

\* A usable selection that was written is read back as it is.
LEMMA WrittenIsRead ==
  ASSUME NEW ps \in Lists, NEW a, AllParse(ps), UsableIn(ps, a)
  PROVE  Loaded([profiles |-> ps, active |-> a]) = [profiles |-> ps, active |-> a]
<1> DEFINE S == {i \in DOMAIN ps : Parses(ps[i])}
<1>1. ps \in Seq(Profile) /\ DOMAIN ps = 1..Len(ps)
  BY ListsAreSequences
<1>2. S = 1..Len(ps)
  BY <1>1 DEF AllParse
<1>3. AtPositions(ps, S) = ps
  BY <1>1, <1>2, AtAllPositions
<1>4. a = IF a \in IdsOf(ps) THEN a ELSE FirstOf(ps)
  BY DEF UsableIn, IdsOf, FirstOf
<1> HIDE DEF S
<1>5. Loaded([profiles |-> ps, active |-> a]) =
        [profiles |-> AtPositions(ps, S),
         active |-> IF a \in IdsOf(AtPositions(ps, S)) THEN a ELSE FirstOf(AtPositions(ps, S))]
  BY DEF Loaded, S
<1> QED BY <1>3, <1>4, <1>5

\* The model's part of the invariant: what is in memory is a usable selection of
\* profiles that parse, and the settings read back as it.
ModelInv ==
  /\ ModelTypeOK
  /\ Unique(m_profiles) /\ AllParse(m_profiles)
  /\ UsableIn(m_profiles, m_activeProfileId)
  /\ ReloadIsIdentity

\* writeSettings() of a usable selection.
LEMMA WriteKeeps ==
  ASSUME ModelInv, NEW ps \in Lists, NEW a \in Ids \cup {NoId}, Write(ps, a),
         Unique(ps), AllParse(ps), UsableIn(ps, a)
  PROVE  ModelInv'
<1>1. /\ m_profiles' = ps /\ m_activeProfileId' = a
      /\ settings' = [profiles |-> ps, active |-> a]
      /\ UNCHANGED <<file, wiped>>
  BY DEF Write
<1>2. ModelTypeOK'
  BY <1>1 DEF ModelInv, ModelTypeOK, Stored
<1>3. Loaded([profiles |-> ps, active |-> a]) = [profiles |-> ps, active |-> a]
  BY WrittenIsRead
<1>4. ReloadIsIdentity'
  BY <1>1, <1>3 DEF ReloadIsIdentity, Loaded
<1> QED BY <1>1, <1>2, <1>4 DEF ModelInv, Unique, AllParse, UsableIn, Parses

\* What is stored is loaded.
LEMMA RestartKeeps ==
  ASSUME ModelInv, NEW s \in Stored, restart(s)
  PROVE  ModelInv'
<1> DEFINE l == Loaded(s)
<1>1. /\ m_profiles' = l.profiles /\ m_activeProfileId' = l.active
      /\ settings' = s /\ file' = s /\ wiped' = wiped
      /\ l = [profiles |-> l.profiles, active |-> l.active]
  BY DEF restart, Loaded
<1>2. /\ l.profiles \in Lists /\ Unique(l.profiles) /\ AllParse(l.profiles)
      /\ l.active \in Ids \cup {NoId} /\ UsableIn(l.profiles, l.active)
  BY LoadedIsUsable
<1>3. Loaded(settings)' = l
  BY <1>1 DEF Loaded
<1> HIDE DEF l
<1>4. ReloadIsIdentity'
  BY <1>1, <1>3 DEF ReloadIsIdentity
<1>5. ModelTypeOK'
  BY <1>1, <1>2 DEF ModelInv, ModelTypeOK
<1> QED BY <1>1, <1>2, <1>4, <1>5 DEF ModelInv, Unique, AllParse, UsableIn, Parses

\* addProfile(): the new profile parses, and is active if there was none.
LEMMA AddKeeps ==
  ASSUME ModelInv, NEW id \in Ids, NEW name \in Names, addProfile(id, name)
  PROVE  ModelInv'
<1> DEFINE p == [id |-> id, name |-> name, config |-> "valid"]
           ps == Append(m_profiles, p)
           a == IF m_activeProfileId = NoId THEN id ELSE m_activeProfileId
<1>1. /\ m_profiles \in Seq(Profile) /\ DOMAIN m_profiles = 1..Len(m_profiles)
      /\ Len(m_profiles) \in Nat /\ Len(m_profiles) < MaxProfiles
      /\ id \notin IdsOf(m_profiles)
  BY ListsAreSequences DEF ModelInv, ModelTypeOK, addProfile
<1>2. p \in Profile /\ p.id = id /\ Parses(p)
  BY DEF Profile, Configs, Parses
<1>3. Write(ps, a) /\ a \in Ids \cup {NoId}
  BY DEF addProfile, ModelInv, ModelTypeOK
<1> HIDE DEF p
<1>4. /\ ps \in Seq(Profile) /\ Len(ps) = Len(m_profiles) + 1 /\ ps # <<>>
      /\ DOMAIN ps = 1..Len(ps) /\ ps[Len(ps)] = p
      /\ \A i \in 1..Len(m_profiles) : ps[i] = m_profiles[i]
  BY <1>1, <1>2
<1> HIDE DEF ps
<1>5. ps \in Lists
  <2>1. Len(ps) <= MaxProfiles
    BY <1>1, <1>4, ProfilesBound
  <2> QED BY <1>4, <2>1, ListsAreSequences
<1>6. \A i \in 1..Len(ps) : i = Len(ps) \/ i \in 1..Len(m_profiles)
  BY <1>1, <1>4
<1>7. Unique(ps)
  <2> SUFFICES ASSUME NEW i \in 1..Len(ps), NEW j \in 1..Len(ps), ps[i].id = ps[j].id
               PROVE  i = j
    BY <1>4 DEF Unique
  <2> QED BY <1>1, <1>2, <1>4, <1>6 DEF ModelInv, Unique, IdsOf
<1>8. AllParse(ps)
  BY <1>1, <1>2, <1>4, <1>6 DEF ModelInv, AllParse
<1>9. UsableIn(ps, a)
  <2>1. CASE m_profiles = <<>>
    <3>1. a = id /\ Len(ps) \in DOMAIN ps
      BY <2>1, <1>1, <1>4 DEF ModelInv, UsableIn
    <3> QED BY <3>1, <1>2, <1>4 DEF UsableIn
  <2>2. CASE m_profiles # <<>>
    <3>1. PICK i \in 1..Len(m_profiles) : m_profiles[i].id = m_activeProfileId /\ Parses(m_profiles[i])
      BY <2>2, <1>1 DEF ModelInv, UsableIn
    <3>2. m_profiles[i] \in Profile
      BY <1>1
    <3>2a. m_profiles[i].id \in Ids
      BY <3>2 DEF Profile
    <3>3. a = m_activeProfileId
      BY <3>1, <3>2a, IdsAssumption
    <3>4. i \in DOMAIN ps /\ ps[i] = m_profiles[i]
      BY <1>1, <1>4
    <3> QED BY <3>1, <3>3, <3>4, <1>4 DEF UsableIn
  <2> QED BY <2>1, <2>2
<1> QED BY <1>3, <1>5, <1>7, <1>8, <1>9, WriteKeeps

\* removeProfile(): the first of the others is active if the active one goes.
LEMMA RemoveKeeps ==
  ASSUME ModelInv, NEW id \in Ids, removeProfile(id)
  PROVE  ModelInv'
<1> DEFINE S == {i \in DOMAIN m_profiles : m_profiles[i].id # id}
           ps == AtPositions(m_profiles, S)
           a == RemainingActive(ps, id)
<1>1. m_profiles \in Lists /\ S \subseteq DOMAIN m_profiles /\ id \in IdsOf(m_profiles)
  BY DEF ModelInv, ModelTypeOK, removeProfile
<1>2. Write(ps, a)
  BY DEF removeProfile
<1>3. /\ ps \in Lists /\ Unique(ps)
      /\ \A k \in DOMAIN ps : \E i \in S : ps[k] = m_profiles[i]
      /\ \A i \in S : \E k \in DOMAIN ps : ps[k] = m_profiles[i]
  <2> HIDE DEF S
  <2> QED BY <1>1, PartOfList DEF ModelInv
<1> HIDE DEF ps
<1>4. AllParse(ps)
  BY <1>1, <1>3 DEF ModelInv, AllParse
<1>5. ps \in Seq(Profile) /\ DOMAIN ps = 1..Len(ps) /\ Len(ps) \in Nat
  BY <1>3, ListsAreSequences
<1>6. ps # <<>> => 1 \in DOMAIN ps /\ ps[1] \in Profile
  BY <1>5
<1>7. PICK i \in DOMAIN m_profiles : m_profiles[i].id = m_activeProfileId
  <2>1. m_profiles # <<>>
    BY <1>1 DEF IdsOf
  <2> QED BY <2>1 DEF ModelInv, UsableIn
<1>8. a \in Ids \cup {NoId} /\ UsableIn(ps, a)
  <2>1. CASE m_activeProfileId = id
    <3>1. a = FirstOf(ps)
      BY <2>1 DEF RemainingActive
    <3> QED BY <3>1, <1>4, <1>6 DEF FirstOf, UsableIn, AllParse, Profile
  <2>2. CASE m_activeProfileId # id
    <3>1. a = m_activeProfileId
      BY <2>2 DEF RemainingActive
    <3>2. i \in S
      BY <2>2, <1>7
    <3>3. PICK k \in DOMAIN ps : ps[k] = m_profiles[i]
      BY <3>2, <1>3
    <3>4. ps # <<>>
      BY <3>3, <1>5
    <3> QED BY <3>1, <3>3, <3>4, <1>4, <1>7 DEF UsableIn, AllParse, ModelInv, ModelTypeOK
  <2> QED BY <2>1, <2>2
<1> HIDE DEF a
<1> QED BY <1>2, <1>3, <1>4, <1>8, WriteKeeps

\* renameProfile(): identifiers and configurations stay.
LEMMA RenameKeeps ==
  ASSUME ModelInv, NEW id \in Ids, NEW name \in Names, renameProfile(id, name)
  PROVE  ModelInv'
<1>1. PICK i \in DOMAIN m_profiles : Write([m_profiles EXCEPT ![i].name = name], m_activeProfileId)
  BY DEF renameProfile
<1> DEFINE ps == [m_profiles EXCEPT ![i].name = name]
<1>2. /\ m_profiles \in Seq(Profile) /\ DOMAIN m_profiles = 1..Len(m_profiles)
      /\ Len(m_profiles) \in Nat /\ Len(m_profiles) <= MaxProfiles
      /\ m_activeProfileId \in Ids \cup {NoId}
  BY ListsAreSequences DEF ModelInv, ModelTypeOK
<1>a. \A j \in DOMAIN m_profiles : m_profiles[j] \in Profile
  BY <1>2
<1>3. [m_profiles[i] EXCEPT !.name = name] \in Profile
  BY <1>a DEF Profile
<1>4. /\ ps \in Seq(Profile) /\ DOMAIN ps = DOMAIN m_profiles /\ Len(ps) = Len(m_profiles)
      /\ \A j \in DOMAIN m_profiles :
           ps[j] = IF j = i THEN [m_profiles[i] EXCEPT !.name = name] ELSE m_profiles[j]
  BY <1>2, <1>3
<1> HIDE DEF ps
<1>5. \A j \in DOMAIN m_profiles :
        ps[j].id = m_profiles[j].id /\ ps[j].config = m_profiles[j].config
  BY <1>a, <1>4 DEF Profile
<1>6. ps \in Lists
  BY <1>2, <1>4, ListsAreSequences
<1>7. Unique(ps) /\ AllParse(ps)
  BY <1>4, <1>5 DEF ModelInv, Unique, AllParse, Parses
<1>8. UsableIn(ps, m_activeProfileId)
  BY <1>2, <1>4, <1>5 DEF ModelInv, UsableIn, Parses
<1> QED BY <1>1, <1>2, <1>6, <1>7, <1>8, WriteKeeps DEF ps

\* selectProfile(): only one that is there.
LEMMA SelectKeeps ==
  ASSUME ModelInv, NEW id \in Ids, selectProfile(id)
  PROVE  ModelInv'
<1>1. id \in IdsOf(m_profiles) /\ Write(m_profiles, id) /\ m_profiles \in Lists
  BY DEF selectProfile, ModelInv, ModelTypeOK
<1>2. UsableIn(m_profiles, id)
  BY <1>1 DEF ModelInv, UsableIn, IdsOf, AllParse
<1> QED BY <1>1, <1>2, WriteKeeps DEF ModelInv

(***************************************************************************)
(* However profiles are imported, renamed, removed and selected, and       *)
(* whenever the client ends or crashes, there is an active profile that    *)
(* can be used as soon as there is any, and the settings read back as what *)
(* is shown, for every number of profiles (WireGuardProfileModel).         *)
(***************************************************************************)
THEOREM ProfilesAreSound == ModelSpec => [](ModelTypeOK /\ ProfilesSound)
<1>1. ModelInit => ModelInv
  <2> SUFFICES ASSUME ModelInit PROVE ModelInv
    OBVIOUS
  <2> DEFINE l == Loaded(file)
  <2>1. /\ m_profiles = l.profiles /\ m_activeProfileId = l.active
        /\ settings = file /\ file \in Stored /\ wiped = {}
        /\ l = [profiles |-> l.profiles, active |-> l.active]
    BY DEF ModelInit, Loaded
  <2>2. /\ l.profiles \in Lists /\ Unique(l.profiles) /\ AllParse(l.profiles)
        /\ l.active \in Ids \cup {NoId} /\ UsableIn(l.profiles, l.active)
    BY <2>1, LoadedIsUsable
  <2>3. ReloadIsIdentity
    BY <2>1 DEF ReloadIsIdentity
  <2> QED BY <2>1, <2>2, <2>3 DEF ModelInv, ModelTypeOK
<1>2. ModelInv /\ [UserNext \/ ProcessNext]_modelVars => ModelInv'
  <2> SUFFICES ASSUME ModelInv, [UserNext \/ ProcessNext]_modelVars PROVE ModelInv'
    OBVIOUS
  <2>1. CASE UserNext
    BY <2>1, AddKeeps, RemoveKeeps, RenameKeeps, SelectKeeps DEF UserNext
  <2>2. CASE settingsSync
    BY <2>2 DEF settingsSync, ModelInv, ModelTypeOK, Unique, AllParse, UsableIn, ReloadIsIdentity,
       Loaded, Parses
  <2>3. CASE quitAndRestart \/ crashAndRestart
    BY <2>3, RestartKeeps DEF quitAndRestart, crashAndRestart, ModelInv, ModelTypeOK
  <2>4. CASE UNCHANGED modelVars
    BY <2>4 DEF modelVars, ModelInv, ModelTypeOK, Unique, AllParse, UsableIn, ReloadIsIdentity,
       Loaded, Parses
  <2> QED BY <2>1, <2>2, <2>3, <2>4 DEF ProcessNext
<1>3. ModelInv => ModelTypeOK /\ ProfilesSound
  BY DEF ModelInv, ProfilesSound, ActiveIsUsable, UsableIn
<1> QED BY <1>1, <1>2, <1>3, PTL DEF ModelSpec

-----------------------------------------------------------------------------

(***************************************************************************)
(* The task queue.  Its invariant is what is promised of it: a task is in  *)
(* one place, and the queue does not stand still.                          *)
(***************************************************************************)

\* No two places of a list hold the same task.
Distinct(s) == \A i, j \in 1..Len(s) : s[i] = s[j] => i = j

\* No task is in both.
Apart(s, u) == \A i \in 1..Len(s), j \in 1..Len(u) : s[i] # u[j]

Lacks(s, t) == \A i \in 1..Len(s) : s[i] # t

\* The invariant of the scheduler.
SchedInv == SchedTypeOK /\ NoStall /\ HeldOnce

\* What HeldOnce says, of the lists.
LEMMA HeldOnceOfLists ==
  ASSUME SchedTypeOK
  PROVE  HeldOnce <=> /\ Distinct(m_tasks) /\ Distinct(deferred) /\ Apart(m_tasks, deferred)
                      /\ Lacks(m_tasks, m_running_task) /\ Lacks(deferred, m_running_task)
<1>1. DOMAIN m_tasks = 1..Len(m_tasks) /\ DOMAIN deferred = 1..Len(deferred)
  BY DEF SchedTypeOK
<1> QED BY <1>1 DEF HeldOnce, Distinct, Apart, Lacks

\* maybeRunTask() keeps the invariant when the queue, the deferred tasks and the
\* running one are apart.
LEMMA MaybeRunKeeps ==
  ASSUME NEW q \in Seq(Tasks), NEW d \in Seq(Tasks), NEW r \in Tasks \cup {NoTask},
         Distinct(q), Distinct(d), Apart(q, d), Lacks(q, r), Lacks(d, r),
         NEW p \in Nat, maybeRunTask(q, r, p), deferred' = d, m_paused' = p
  PROVE  SchedInv'
<1>1. CASE r = NoTask /\ q # <<>> /\ p = 0
  <2>1. m_tasks' = Tail(q) /\ m_running_task' = Head(q) /\ starting' = TRUE
    BY <1>1 DEF maybeRunTask
  <2>2. /\ Tail(q) \in Seq(Tasks) /\ Len(Tail(q)) = Len(q) - 1 /\ Len(q) \in Nat \ {0}
        /\ \A i \in 1..Len(Tail(q)) : Tail(q)[i] = q[i + 1] /\ i + 1 \in 1..Len(q)
        /\ Head(q) = q[1] /\ Head(q) \in Tasks /\ 1 \in 1..Len(q)
    BY <1>1
  <2>3. SchedTypeOK'
    BY <2>1, <2>2 DEF SchedTypeOK
  <2>4. Distinct(Tail(q))
    <3> SUFFICES ASSUME NEW i \in 1..Len(Tail(q)), NEW j \in 1..Len(Tail(q)), Tail(q)[i] = Tail(q)[j]
                 PROVE  i = j
      BY DEF Distinct
    <3>1. i + 1 = j + 1
      BY <2>2 DEF Distinct
    <3> QED BY <2>2, <3>1
  <2>5. Apart(Tail(q), d) /\ Lacks(d, Head(q))
    BY <2>2 DEF Apart, Lacks
  <2>6. Lacks(Tail(q), Head(q))
    <3> SUFFICES ASSUME NEW i \in 1..Len(Tail(q)) PROVE Tail(q)[i] # Head(q)
      BY DEF Lacks
    <3>1. i + 1 # 1 /\ i + 1 \in 1..Len(q)
      BY <2>2
    <3> QED BY <2>2, <3>1 DEF Distinct
  <2>7. HeldOnce'
    <3>1. SchedTypeOK' => (HeldOnce' <=> /\ Distinct(m_tasks') /\ Distinct(deferred')
                         /\ Apart(m_tasks', deferred')
                         /\ Lacks(m_tasks', m_running_task') /\ Lacks(deferred', m_running_task'))
      <4>1. SchedTypeOK' => DOMAIN m_tasks' = 1..Len(m_tasks') /\ DOMAIN deferred' = 1..Len(deferred')
        BY DEF SchedTypeOK
      <4> QED BY <4>1 DEF HeldOnce, Distinct, Apart, Lacks
    <3> QED BY <2>1, <2>3, <2>4, <2>5, <2>6, <3>1
  <2>8. NoStall'
    BY <2>1, <2>2, TasksAssumption DEF NoStall
  <2> QED BY <2>3, <2>7, <2>8 DEF SchedInv
<1>2. CASE ~(r = NoTask /\ q # <<>> /\ p = 0)
  <2>1. m_tasks' = q /\ m_running_task' = r /\ starting' = FALSE
    BY <1>2 DEF maybeRunTask
  <2>2. SchedTypeOK'
    BY <2>1 DEF SchedTypeOK
  <2>3. HeldOnce'
    <3>1. DOMAIN q = 1..Len(q) /\ DOMAIN d = 1..Len(d)
      OBVIOUS
    <3> QED BY <2>1, <3>1 DEF HeldOnce, Distinct, Apart, Lacks
  <2>4. NoStall'
    BY <1>2, <2>1 DEF NoStall
  <2> QED BY <2>2, <2>3, <2>4 DEF SchedInv
<1> QED BY <1>1, <1>2

\* The part of the queue that a deletion keeps or moves.
LEMMA PartOfQueue ==
  ASSUME NEW q \in Seq(Tasks), Distinct(q), NEW S, S \subseteq 1..Len(q)
  PROVE  LET r == AtPositions(q, S)
         IN  /\ r \in Seq(Tasks) /\ Distinct(r)
             /\ \A k \in 1..Len(r) : \E i \in S : r[k] = q[i]
             /\ \A i \in S : \E k \in 1..Len(r) : r[k] = q[i]
             /\ \A i, j \in S : i < j => r[1] # q[j]
<1> DEFINE r == AtPositions(q, S)
<1>1. /\ r \in Seq(Tasks) /\ Len(r) = Cardinality(S)
      /\ \A k \in 1..Len(r) : \E i \in S : r[k] = q[i] /\ UpTo(S, i) = k
      /\ \A i \in S : UpTo(S, i) \in 1..Len(r) /\ r[UpTo(S, i)] = q[i]
  BY AtPositionsHolds
<1>2. Len(q) \in Nat /\ Len(r) \in Nat /\ \A i \in S : i \in Nat
  BY <1>1
<1>3. \A i \in Nat, j \in S : i < j => UpTo(S, i) < UpTo(S, j)
  BY <1>2, UpToCounts
<1> HIDE DEF r
<1>4. Distinct(r)
  <2> SUFFICES ASSUME NEW k \in 1..Len(r), NEW l \in 1..Len(r), r[k] = r[l] PROVE k = l
    BY DEF Distinct
  <2>1. PICK i \in S : r[k] = q[i] /\ UpTo(S, i) = k
    BY <1>1
  <2>2. PICK j \in S : r[l] = q[j] /\ UpTo(S, j) = l
    BY <1>1
  <2>3. i = j
    BY <2>1, <2>2 DEF Distinct
  <2> QED BY <2>1, <2>2, <2>3
<1>5. ASSUME NEW i \in S, NEW j \in S, i < j PROVE r[1] # q[j]
  <2>1. UpTo(S, i) \in 1..Len(r) /\ UpTo(S, j) \in 1..Len(r) /\ UpTo(S, i) < UpTo(S, j)
    BY <1>1, <1>2, <1>3, <1>5
  <2>2. 1 \in 1..Len(r) /\ UpTo(S, j) # 1
    BY <1>2, <2>1
  <2>3. r[UpTo(S, j)] = q[j]
    BY <1>1
  <2> QED BY <2>1, <2>2, <2>3, <1>4 DEF Distinct
<1> QED BY <1>1, <1>4, <1>5 DEF r

\* A task put at the end of the queue.
LEMMA AppendKeeps ==
  ASSUME NEW q \in Seq(Tasks), NEW d \in Seq(Tasks), NEW r, NEW t \in Tasks,
         Distinct(q), Apart(q, d), Lacks(q, r), Lacks(q, t), Lacks(d, t), t # r
  PROVE  LET u == Append(q, t)
         IN  u \in Seq(Tasks) /\ Distinct(u) /\ Apart(u, d) /\ Lacks(u, r)
<1> DEFINE u == Append(q, t)
<1>1. /\ u \in Seq(Tasks) /\ Len(u) = Len(q) + 1 /\ Len(q) \in Nat
      /\ \A i \in 1..Len(q) : u[i] = q[i]
      /\ u[Len(q) + 1] = t
  OBVIOUS
<1> HIDE DEF u
<1>2. \A i \in 1..Len(u) : i \in 1..Len(q) \/ i = Len(q) + 1
  BY <1>1
<1>3. Distinct(u)
  BY <1>1, <1>2 DEF Distinct, Lacks
<1>4. Apart(u, d)
  BY <1>1, <1>2 DEF Apart, Lacks
<1>5. Lacks(u, r)
  BY <1>1, <1>2 DEF Lacks
<1> QED BY <1>1, <1>3, <1>4, <1>5 DEF u

\* Tasks put at the end of the deferred ones.
LEMMA DeferKeeps ==
  ASSUME NEW d \in Seq(Tasks), NEW e \in Seq(Tasks), NEW q \in Seq(Tasks), NEW r,
         Distinct(d), Distinct(e), Apart(d, e), Apart(q, d), Apart(q, e), Lacks(d, r), Lacks(e, r)
  PROVE  LET u == d \o e
         IN  u \in Seq(Tasks) /\ Distinct(u) /\ Apart(q, u) /\ Lacks(u, r)
<1> DEFINE u == d \o e
<1>1. /\ u \in Seq(Tasks) /\ Len(u) = Len(d) + Len(e) /\ Len(d) \in Nat /\ Len(e) \in Nat
      /\ \A i \in 1..Len(d) : u[i] = d[i]
      /\ \A i \in 1..Len(u) : i \notin 1..Len(d) => i - Len(d) \in 1..Len(e) /\ u[i] = e[i - Len(d)]
  OBVIOUS
<1> HIDE DEF u
<1>2. Distinct(u)
  <2> SUFFICES ASSUME NEW i \in 1..Len(u), NEW j \in 1..Len(u), u[i] = u[j] PROVE i = j
    BY DEF Distinct
  <2>1. CASE i \in 1..Len(d) /\ j \in 1..Len(d)
    BY <1>1, <2>1 DEF Distinct
  <2>2. CASE i \notin 1..Len(d) /\ j \notin 1..Len(d)
    <3>1. i - Len(d) = j - Len(d)
      BY <1>1, <2>2 DEF Distinct
    <3> QED BY <1>1, <3>1
  <2>3. CASE i \in 1..Len(d) /\ j \notin 1..Len(d)
    BY <1>1, <2>3 DEF Apart
  <2>4. CASE i \notin 1..Len(d) /\ j \in 1..Len(d)
    BY <1>1, <2>4 DEF Apart
  <2> QED BY <2>1, <2>2, <2>3, <2>4
<1>3. Apart(q, u)
  BY <1>1 DEF Apart
<1>4. Lacks(u, r)
  BY <1>1 DEF Lacks
<1> QED BY <1>1, <1>2, <1>3, <1>4 DEF u

\* The lists of the scheduler are apart.
LEMMA ListsApart ==
  ASSUME SchedInv
  PROVE  /\ m_tasks \in Seq(Tasks) /\ deferred \in Seq(Tasks) /\ m_paused \in Nat
         /\ m_running_task \in Tasks \cup {NoTask}
         /\ DOMAIN m_tasks = 1..Len(m_tasks) /\ DOMAIN deferred = 1..Len(deferred)
         /\ Distinct(m_tasks) /\ Distinct(deferred) /\ Apart(m_tasks, deferred)
         /\ Lacks(m_tasks, m_running_task) /\ Lacks(deferred, m_running_task)
         /\ Lacks(m_tasks, NoTask) /\ Lacks(deferred, NoTask)
<1>1. SchedTypeOK
  BY DEF SchedInv
<1>2. Lacks(m_tasks, NoTask) /\ Lacks(deferred, NoTask)
  BY <1>1, TasksAssumption DEF SchedTypeOK, Lacks
<1>3. DOMAIN m_tasks = 1..Len(m_tasks) /\ DOMAIN deferred = 1..Len(deferred)
  BY <1>1 DEF SchedTypeOK
<1> QED BY <1>1, <1>2, <1>3, HeldOnceOfLists DEF SchedInv, SchedTypeOK

\* A deletion that is not forced.
LEMMA DeletionKeeps ==
  ASSUME SchedInv, deleteTasks(FALSE)
  PROVE  SchedInv'
<1> DEFINE kept == {i \in DOMAIN m_tasks : Kept(m_tasks[i])}
           moved == {i \in DOMAIN m_tasks : Rescheduled(m_tasks[i])}
           q == AtPositions(m_tasks, kept)
           e == AtPositions(m_tasks, moved)
           r == IF m_running_task # NoTask /\ Cancelled(m_running_task)
                THEN NoTask ELSE m_running_task
<1>1. deferred' = deferred \o e /\ maybeRunTask(q, r, m_paused) /\ m_paused' = m_paused
  BY DEF deleteTasks
<1>2. /\ m_tasks \in Seq(Tasks) /\ deferred \in Seq(Tasks) /\ m_paused \in Nat
      /\ DOMAIN m_tasks = 1..Len(m_tasks) /\ Distinct(m_tasks) /\ Distinct(deferred)
      /\ Apart(m_tasks, deferred)
      /\ Lacks(m_tasks, r) /\ Lacks(deferred, r) /\ r \in Tasks \cup {NoTask}
  BY ListsApart
<1>3. kept \subseteq 1..Len(m_tasks) /\ moved \subseteq 1..Len(m_tasks)
  BY <1>2
<1>4. \A i \in kept, j \in moved : m_tasks[i] # m_tasks[j]
  BY DEF Kept, Rescheduled
<1> HIDE DEF kept, moved, r
<1>5. /\ q \in Seq(Tasks) /\ Distinct(q)
      /\ \A k \in 1..Len(q) : \E i \in kept : q[k] = m_tasks[i]
  <2>1. m_tasks \in Seq(Tasks) /\ Distinct(m_tasks) /\ kept \subseteq 1..Len(m_tasks)
    BY <1>2, <1>3
  <2> QED BY <2>1, PartOfQueue DEF Distinct
<1>6. /\ e \in Seq(Tasks) /\ Distinct(e)
      /\ \A k \in 1..Len(e) : \E i \in moved : e[k] = m_tasks[i]
  <2>1. m_tasks \in Seq(Tasks) /\ Distinct(m_tasks) /\ moved \subseteq 1..Len(m_tasks)
    BY <1>2, <1>3
  <2> QED BY <2>1, PartOfQueue DEF Distinct
<1> HIDE DEF q, e
<1>7. Apart(q, deferred) /\ Apart(q, e) /\ Apart(deferred, e) /\ Lacks(q, r) /\ Lacks(e, r)
  BY <1>2, <1>3, <1>4, <1>5, <1>6 DEF Apart, Lacks
<1>8. /\ deferred \o e \in Seq(Tasks) /\ Distinct(deferred \o e) /\ Apart(q, deferred \o e)
      /\ Lacks(deferred \o e, r)
  BY <1>2, <1>5, <1>6, <1>7, DeferKeeps
<1> QED BY <1>1, <1>2, <1>5, <1>7, <1>8, MaybeRunKeeps

\* Every step of the scheduler.
LEMMA SchedKeeps ==
  ASSUME SchedInv, SchedNext
  PROVE  SchedInv'
<1>1. /\ m_tasks \in Seq(Tasks) /\ deferred \in Seq(Tasks) /\ m_paused \in Nat
      /\ m_running_task \in Tasks \cup {NoTask}
      /\ DOMAIN m_tasks = 1..Len(m_tasks) /\ DOMAIN deferred = 1..Len(deferred)
      /\ Distinct(m_tasks) /\ Distinct(deferred) /\ Apart(m_tasks, deferred)
      /\ Lacks(m_tasks, m_running_task) /\ Lacks(deferred, m_running_task)
      /\ Lacks(m_tasks, NoTask) /\ Lacks(deferred, NoTask)
  BY ListsApart
<1>2. CASE runTask \/ pause
  <2>1. UNCHANGED <<m_tasks, m_running_task, deferred>>
    BY <1>2 DEF runTask, pause
  <2>2. m_paused' \in Nat /\ m_paused' >= m_paused
    BY <1>1, <1>2 DEF runTask, pause
  <2>3. starting' \in BOOLEAN
    BY <1>2 DEF runTask, pause, SchedInv, SchedTypeOK
  <2>4. SchedTypeOK'
    BY <2>1, <2>2, <2>3 DEF SchedInv, SchedTypeOK
  <2>5. NoStall'
    BY <1>1, <2>1, <2>2 DEF SchedInv, NoStall
  <2>6. HeldOnce'
    BY <2>1 DEF SchedInv, HeldOnce
  <2> QED BY <2>4, <2>5, <2>6 DEF SchedInv
<1>3. CASE taskCompleted
  BY <1>1, <1>3, MaybeRunKeeps DEF taskCompleted
<1>4. CASE resume
  <2>1. m_paused - 1 \in Nat
    BY <1>1, <1>4 DEF resume
  <2> QED BY <1>1, <1>4, <2>1, MaybeRunKeeps DEF resume
<1>5. ASSUME NEW t \in Tasks, scheduleTask(t) PROVE SchedInv'
  <2>1. t # m_running_task /\ Lacks(m_tasks, t) /\ Lacks(deferred, t)
    BY <1>1, <1>5 DEF scheduleTask, Held, Lacks
  <2>2. /\ Append(m_tasks, t) \in Seq(Tasks) /\ Distinct(Append(m_tasks, t))
        /\ Apart(Append(m_tasks, t), deferred) /\ Lacks(Append(m_tasks, t), m_running_task)
    BY <1>1, <2>1, AppendKeeps
  <2> QED BY <1>1, <1>5, <2>2, MaybeRunKeeps DEF scheduleTask
<1>6. CASE rescheduled
  <2> DEFINE t == Head(deferred)
             d == Tail(deferred)
             q == Append(m_tasks, t)
  <2>1. deferred # <<>> /\ deferred' = d /\ m_paused' = m_paused
        /\ maybeRunTask(q, m_running_task, m_paused)
    BY <1>6 DEF rescheduled
  <2>2. /\ t = deferred[1] /\ t \in Tasks /\ 1 \in 1..Len(deferred) /\ d \in Seq(Tasks)
        /\ Len(deferred) \in Nat /\ Len(d) = Len(deferred) - 1
        /\ \A i \in 1..Len(d) : d[i] = deferred[i + 1] /\ i + 1 \in 1..Len(deferred) /\ i + 1 # 1
    BY <1>1, <2>1
  <2> HIDE DEF t, d
  <2>3. /\ t # m_running_task /\ Lacks(m_tasks, t) /\ Lacks(d, t) /\ Apart(m_tasks, d)
        /\ Lacks(d, m_running_task)
    BY <1>1, <2>2 DEF Lacks, Distinct, Apart
  <2>4. Distinct(d)
    <3> SUFFICES ASSUME NEW i \in 1..Len(d), NEW j \in 1..Len(d), d[i] = d[j] PROVE i = j
      BY DEF Distinct
    <3>1. i + 1 = j + 1
      BY <1>1, <2>2 DEF Distinct
    <3> QED BY <2>2, <3>1
  <2>5. q \in Seq(Tasks) /\ Distinct(q) /\ Apart(q, d) /\ Lacks(q, m_running_task)
    BY <1>1, <2>2, <2>3, AppendKeeps
  <2> HIDE DEF q
  <2> QED BY <1>1, <2>1, <2>2, <2>3, <2>4, <2>5, MaybeRunKeeps
<1>7. CASE deleteTasks(FALSE)
  BY <1>7, DeletionKeeps
<1>8. CASE deleteTasks(TRUE)
  <2>1. deferred' = deferred /\ maybeRunTask(<<>>, NoTask, m_paused) /\ m_paused' = m_paused
    BY <1>8 DEF deleteTasks
  <2>2. /\ <<>> \in Seq(Tasks) /\ Distinct(<<>>) /\ Apart(<<>>, deferred)
        /\ Lacks(<<>>, NoTask)
    BY DEF Distinct, Apart, Lacks
  <2> QED BY <1>1, <2>1, <2>2, MaybeRunKeeps
<1> QED BY <1>2, <1>3, <1>4, <1>5, <1>6, <1>7, <1>8, SchedulerBounds DEF SchedNext

\* The steps of the two action properties.
InOrder ==
  \A t, u \in Tasks :
    /\ Before(t, u)
    /\ Policy[t] = "NonDeletable"
    /\ Policy[u] = "NonDeletable"
    /\ m_running_task' = u
    => m_running_task = u

ToRun ==
  \A t \in NonDeletable : Queued(t) /\ ~Queued(t)' =>
     m_running_task' = t \/ (m_running_task' = NoTask /\ m_tasks' = <<>>)

\* maybeRunTask() takes the first task and leaves the others.
LEMMA MaybeRunTakes ==
  ASSUME NEW q \in Seq(Tasks), NEW r, NEW p, maybeRunTask(q, r, p)
  PROVE  /\ m_running_task' = r \/ (q # <<>> /\ m_running_task' = q[1])
         /\ \A i \in 1..Len(q) : m_running_task' = q[i] \/ \E k \in DOMAIN m_tasks' : m_tasks'[k] = q[i]
<1>1. CASE r = NoTask /\ q # <<>> /\ p = 0
  <2>1. m_tasks' = Tail(q) /\ m_running_task' = q[1]
    BY <1>1 DEF maybeRunTask
  <2>2. ASSUME NEW i \in 1..Len(q), i # 1 PROVE i - 1 \in DOMAIN Tail(q) /\ Tail(q)[i - 1] = q[i]
    BY <1>1, <2>2
  <2> QED BY <1>1, <2>1, <2>2
<1>2. CASE ~(r = NoTask /\ q # <<>> /\ p = 0)
  <2>1. m_tasks' = q /\ m_running_task' = r /\ DOMAIN q = 1..Len(q)
    BY <1>2 DEF maybeRunTask
  <2> QED BY <2>1
<1> QED BY <1>1, <1>2

\* A step that looks at the queue with at most one task put at its end.
LEMMA OrderOfQueue ==
  ASSUME SchedInv, NEW q \in Seq(Tasks), NEW p, NEW r \in {m_running_task, NoTask},
         Len(m_tasks) <= Len(q), \A i \in 1..Len(m_tasks) : q[i] = m_tasks[i],
         maybeRunTask(q, r, p)
  PROVE  InOrder /\ ToRun
<1>1. /\ m_tasks \in Seq(Tasks) /\ DOMAIN m_tasks = 1..Len(m_tasks) /\ Distinct(m_tasks)
      /\ Len(m_tasks) \in Nat /\ Len(q) \in Nat
  BY ListsApart
<1>2. m_running_task' = r \/ (q # <<>> /\ m_running_task' = q[1])
  BY MaybeRunTakes
<1>3. \A i \in 1..Len(q) : m_running_task' = q[i] \/ \E k \in DOMAIN m_tasks' : m_tasks'[k] = q[i]
  BY MaybeRunTakes
<1>4. InOrder
  <2> SUFFICES ASSUME NEW t \in Tasks, NEW u \in Tasks, Before(t, u), m_running_task' = u
               PROVE  m_running_task = u
    BY DEF InOrder
  <2>1. PICK i, j \in DOMAIN m_tasks : i < j /\ m_tasks[i] = t /\ m_tasks[j] = u
    BY DEF Before
  <2>2. 1 \in 1..Len(m_tasks) /\ j # 1
    BY <1>1, <2>1
  <2>3. q[1] # u
    BY <1>1, <2>1, <2>2 DEF Distinct
  <2>4. u # NoTask
    BY TasksAssumption
  <2> QED BY <1>2, <2>3, <2>4
<1>5. ToRun
  <2> SUFFICES ASSUME NEW t \in NonDeletable, Queued(t), ~Queued(t)' PROVE m_running_task' = t
    BY DEF ToRun
  <2>1. PICK i \in DOMAIN m_tasks : m_tasks[i] = t
    BY DEF Queued
  <2>2. i \in 1..Len(q) /\ q[i] = t
    BY <1>1, <2>1
  <2>3. ~\E k \in DOMAIN m_tasks' : m_tasks'[k] = t
    BY DEF Queued
  <2> QED BY <1>3, <2>2, <2>3
<1> QED BY <1>4, <1>5

\* A deletion that is not forced.
LEMMA OrderOfDeletion ==
  ASSUME SchedInv, deleteTasks(FALSE)
  PROVE  InOrder /\ ToRun
<1> DEFINE kept == {i \in DOMAIN m_tasks : Kept(m_tasks[i])}
           q == AtPositions(m_tasks, kept)
           r == IF m_running_task # NoTask /\ Cancelled(m_running_task)
                THEN NoTask ELSE m_running_task
<1>1. maybeRunTask(q, r, m_paused)
  BY DEF deleteTasks
<1>2. r \in {m_running_task, NoTask}
  OBVIOUS
<1>3. m_tasks \in Seq(Tasks) /\ Distinct(m_tasks) /\ DOMAIN m_tasks = 1..Len(m_tasks)
  BY ListsApart
<1>4. kept \subseteq 1..Len(m_tasks)
  BY <1>3
<1>5. \A i \in DOMAIN m_tasks : Policy[m_tasks[i]] = "NonDeletable" => i \in kept
  BY DEF Kept
<1> HIDE DEF kept, r
<1>6. /\ q \in Seq(Tasks)
      /\ \A i \in kept : \E k \in 1..Len(q) : q[k] = m_tasks[i]
      /\ \A i, j \in kept : i < j => q[1] # m_tasks[j]
  BY <1>3, <1>4, PartOfQueue DEF Distinct
<1> HIDE DEF q
<1>7. m_running_task' = r \/ (q # <<>> /\ m_running_task' = q[1])
  BY <1>1, <1>6, MaybeRunTakes
<1>8. \A i \in 1..Len(q) : m_running_task' = q[i] \/ \E k \in DOMAIN m_tasks' : m_tasks'[k] = q[i]
  BY <1>1, <1>6, MaybeRunTakes
<1>9. InOrder
  <2> SUFFICES ASSUME NEW t \in Tasks, NEW u \in Tasks, Before(t, u), m_running_task' = u,
                      Policy[t] = "NonDeletable", Policy[u] = "NonDeletable"
               PROVE  m_running_task = u
    BY DEF InOrder
  <2>1. PICK i, j \in DOMAIN m_tasks : i < j /\ m_tasks[i] = t /\ m_tasks[j] = u
    BY DEF Before
  <2>2. i \in kept /\ j \in kept
    BY <1>5, <2>1
  <2>3. q[1] # u
    BY <1>6, <2>1, <2>2
  <2>4. u # NoTask
    BY TasksAssumption
  <2> QED BY <1>2, <1>7, <2>3, <2>4
<1>10. ToRun
  <2> SUFFICES ASSUME NEW t \in NonDeletable, Queued(t), ~Queued(t)' PROVE m_running_task' = t
    BY DEF ToRun
  <2>1. PICK i \in DOMAIN m_tasks : m_tasks[i] = t
    BY DEF Queued
  <2>2. i \in kept
    BY <1>5, <2>1 DEF NonDeletable
  <2>3. PICK k \in 1..Len(q) : q[k] = t
    BY <1>6, <2>1, <2>2
  <2>4. ~\E l \in DOMAIN m_tasks' : m_tasks'[l] = t
    BY DEF Queued
  <2> QED BY <1>8, <2>3, <2>4
<1> QED BY <1>9, <1>10

\* Every step of the scheduler.
LEMMA OrderOfSteps ==
  ASSUME SchedInv, SchedNext
  PROVE  InOrder /\ ToRun
<1>1. m_tasks \in Seq(Tasks) /\ deferred \in Seq(Tasks) /\ Len(m_tasks) \in Nat
  BY ListsApart
<1>2. CASE runTask \/ pause
  <2>1. m_tasks' = m_tasks /\ m_running_task' = m_running_task
    BY <1>2 DEF runTask, pause
  <2> QED BY <2>1 DEF InOrder, ToRun, Queued
<1>3. CASE taskCompleted \/ resume
  <2>1. \E p, r : r \in {m_running_task, NoTask} /\ maybeRunTask(m_tasks, r, p)
    BY <1>3 DEF taskCompleted, resume
  <2> QED BY <1>1, <2>1, OrderOfQueue
<1>4. CASE rescheduled \/ \E t \in Tasks : scheduleTask(t)
  <2>1. PICK t \in Tasks : maybeRunTask(Append(m_tasks, t), m_running_task, m_paused)
    <3>1. deferred # <<>> => Head(deferred) \in Tasks
      BY <1>1
    <3> QED BY <1>4, <3>1 DEF rescheduled, scheduleTask
  <2> DEFINE q == Append(m_tasks, t)
  <2>2. /\ q \in Seq(Tasks) /\ Len(m_tasks) <= Len(q)
        /\ \A i \in 1..Len(m_tasks) : q[i] = m_tasks[i]
    BY <1>1
  <2> HIDE DEF q
  <2>3. maybeRunTask(q, m_running_task, m_paused)
    BY <2>1 DEF q
  <2> QED BY <2>2, <2>3, OrderOfQueue
<1>5. CASE deleteTasks(FALSE)
  BY <1>5, OrderOfDeletion
<1>6. CASE deleteTasks(TRUE)
  <2>1. m_running_task' = NoTask /\ m_tasks' = <<>>
    BY <1>6 DEF deleteTasks, maybeRunTask
  <2> QED BY <2>1, TasksAssumption DEF InOrder, ToRun
<1> QED BY <1>2, <1>3, <1>4, <1>5, <1>6, SchedulerBounds DEF SchedNext

(***************************************************************************)
(* However tasks are scheduled, completed, deleted, rescheduled and paused *)
(* (taskscheduler.cpp), the queue moves, no task is in it twice, and tasks *)
(* that must not be deleted are run, in their order.                       *)
(***************************************************************************)
THEOREM QueueIsKept == SchedSpec => []SchedTypeOK /\ TasksInOrder
<1>1. SchedInit => SchedInv
  <2>1. <<>> \in Seq(Tasks) /\ DOMAIN <<>> = {}
    OBVIOUS
  <2>2. SchedInit => SchedTypeOK
    <3>1. SchedInit => starting \in BOOLEAN
      BY DEF SchedInit
    <3>2. SchedInit => /\ {m_tasks, deferred} \subseteq Seq(Tasks) /\ m_paused \in Nat
                       /\ m_running_task \in Tasks \cup {NoTask}
      BY <2>1 DEF SchedInit
    <3> QED BY <3>1, <3>2 DEF SchedTypeOK
  <2>3. SchedInit => NoStall /\ HeldOnce
    BY <2>1 DEF SchedInit, NoStall, HeldOnce
  <2> QED BY <2>2, <2>3 DEF SchedInv
<1>2. SchedInv /\ [SchedNext]_schedVars =>
        SchedInv' /\ [InOrder]_schedVars /\ [ToRun]_schedVars
  <2> SUFFICES ASSUME SchedInv, [SchedNext]_schedVars
               PROVE  SchedInv' /\ [InOrder]_schedVars /\ [ToRun]_schedVars
    OBVIOUS
  <2>1. CASE SchedNext
    BY <2>1, SchedKeeps, OrderOfSteps
  <2>2. CASE UNCHANGED schedVars
    BY <2>2 DEF schedVars, SchedInv, SchedTypeOK, NoStall, HeldOnce
  <2> QED BY <2>1, <2>2
<1>3. SchedInv => SchedTypeOK /\ NoStall /\ HeldOnce
  BY DEF SchedInv
<1>4. SchedSpec => []SchedInv /\ [][InOrder]_schedVars /\ [][ToRun]_schedVars
  BY <1>1, <1>2, PTL DEF SchedSpec
<1>5. SchedSpec => []SchedTypeOK /\ []NoStall /\ []HeldOnce
  BY <1>3, <1>4, PTL
<1> QED BY <1>4, <1>5 DEF TasksInOrder, OrderKept, LeavesToRun, InOrder, ToRun

-----------------------------------------------------------------------------

(***************************************************************************)
(* The settings file.  What a process writes with is known to the file or  *)
(* on its way to it; no file of an old key can come back, as a new key has *)
(* a new salt.                                                             *)
(***************************************************************************)

\* The members of XdgCryptoSettings.
CryptMembers ==
  [token : Secrets \cup {0}, salt : 0 .. MaxSalts, key : Secrets \cup {0},
   nonce : 0 .. NonceLimit - 1, ver : {"plain", "v2"}, reply : Secrets \cup {0},
   touched : BOOLEAN]

\* A key goes with a salt that was made, and with the token in use, one that is
\* on its way, or one that did not arrive.
KeyKnown(c, made, untold) ==
  /\ c.key = 0 <=> c.salt = 0
  /\ c.salt <= made
  /\ c.token # 0 => c.reply = 0
  /\ c.key # 0 /\ c.reply # 0 => c.reply = c.key
  /\ IF secretPerToken
       THEN c.key = 0 \/ c.key = c.token \/ (c.token = 0 /\ (c.reply = c.key \/ untold))
       ELSE c.reply = 0 /\ c.key \in {0, 1}

\* An encrypted file was written with a salt that was made.
FileMade(f, made) ==
  f \in Encrypted /\ f.salt \in 1..made /\ f.key[2] = f.salt /\ f.nonce < NonceLimit

\* A process with the key of the file is not behind its nonce.
NonceAhead(c, f) == f.ver = "v2" /\ f.key = <<c.key, c.salt>> => c.nonce >= f.nonce

Untold == "untold" \in mishaps

\* The invariant of the settings.
CryptoInv ==
  /\ CryptoTypeOK
  /\ KeyKnown(crypt, saltsMade, Untold)
  /\ sfile.ver = "v2" => FileMade(sfile, saltsMade)
  /\ NonceAhead(crypt, sfile)
  /\ ~clientRuns => crypt = NewCrypt
  /\ clientRuns /\ "unread" \notin mishaps => loaded = Content(sfile)
  /\ FileOpens
  /\ EditsKept

\* The numbers of secrets.
LEMMA SecretsAreNumbers == Secrets \subseteq Nat \ {0}
<1>1. DOMAIN TokenLength = 1..Len(TokenLength) /\ Len(TokenLength) \in Nat
  BY CryptoAssumption
<1> QED BY <1>1 DEF Secrets

\* The secret that the portal answers with, and the token that follows it.
SecretOf(token) ==
  IF ~secretPerToken THEN 1 ELSE IF token # 0 THEN token ELSE secretsIssued + 1
ReplyOf(token) == IF secretPerToken /\ token = 0 THEN SecretOf(token) ELSE 0

\* The members when the secret was not read, and when it was.
Unread(c, token) == [c EXCEPT !.reply = ReplyOf(token)]
Keyed(c, salt, token) ==
  [c EXCEPT !.key = SecretOf(token), !.salt = salt, !.token = token, !.reply = ReplyOf(token)]

\* It failed, or the secret was not read, or it was.
Answer(o, c, salt, token) ==
  \/ o.ok = FALSE /\ o.c = c
  \/ SecretOf(token) \in Secrets /\ o.ok = FALSE /\ o.c = Unread(c, token)
  \/ /\ SecretOf(token) \in Secrets /\ salt <= o.salts
     /\ o.ok = TRUE /\ o.c = Keyed(c, salt, token)

\* The members with a key are members.
LEMMA KeyedMembers ==
  ASSUME NEW c \in CryptMembers, NEW s \in 0..MaxSalts, NEW t \in Secrets \cup {0},
         SecretOf(t) \in Secrets
  PROVE  LET d == Keyed(c, s, t)
         IN  /\ d \in CryptMembers
             /\ d.key = SecretOf(t) /\ d.salt = s /\ d.token = t /\ d.reply = ReplyOf(t)
             /\ d.ver = c.ver /\ d.nonce = c.nonce /\ d.touched = c.touched
<1> DEFINE d == Keyed(c, s, t)
           k == SecretOf(t)
           y == ReplyOf(t)
<1>1. k \in Secrets /\ y \in Secrets \cup {0}
  BY DEF ReplyOf
<1>2. d = [c EXCEPT !.key = k, !.salt = s, !.token = t, !.reply = y]
  BY DEF Keyed
<1> HIDE DEF d, k, y
<1>3. /\ d.key = k /\ d.salt = s /\ d.token = t /\ d.reply = y
      /\ d.ver = c.ver /\ d.nonce = c.nonce /\ d.touched = c.touched
  BY <1>2 DEF CryptMembers
<1>4. d = [token |-> t, salt |-> s, key |-> k, nonce |-> c.nonce, ver |-> c.ver,
           reply |-> y, touched |-> c.touched]
  BY <1>2 DEF CryptMembers
<1>5. c.nonce \in 0 .. NonceLimit - 1 /\ c.ver \in {"plain", "v2"} /\ c.touched \in BOOLEAN
  BY DEF CryptMembers
<1>6. d \in CryptMembers
  BY <1>1, <1>4, <1>5 DEF CryptMembers
<1> QED BY <1>3, <1>6 DEF d, k, y

\* What a request for a secret may bring.
LEMMA AnswerGiven ==
  ASSUME NEW c \in CryptMembers, NEW salt \in Nat \ {0}, NEW token \in Secrets \cup {0},
         NEW o \in Outcomes(c, salt, token),
         secretsIssued \in Secrets \cup {0}, saltsMade \in 0..MaxSalts
  PROVE  /\ o.issued \in Secrets \cup {0} /\ o.salts \in saltsMade..MaxSalts
         /\ o = Outcome(o.ok, o.c, o.issued, o.salts)
         /\ Answer(o, c, salt, token)
<1> DEFINE secret == SecretOf(token)
           reply == ReplyOf(token)
           kept == [c EXCEPT !.key = secret, !.salt = salt, !.token = token, !.reply = reply]
           issued == IF secret > secretsIssued THEN secret ELSE secretsIssued
           salts == IF salt > saltsMade THEN salt ELSE saltsMade
<1>1. kept.reply = reply
  BY DEF CryptMembers
<1>2. \/ o = Outcome(FALSE, c, secretsIssued, saltsMade)
      \/ /\ secret \in Secrets /\ salt <= MaxSalts
         /\ \/ o = Outcome(FALSE, [c EXCEPT !.reply = reply], issued, saltsMade)
            \/ o = Outcome(TRUE, kept, issued, salts)
  BY <1>1 DEF Outcomes, SecretOf, ReplyOf
<1>3. MaxSalts \in Nat /\ Secrets \subseteq Nat \ {0}
  BY CryptoAssumption, SecretsAreNumbers
<1> HIDE DEF secret, reply
<1>4. CASE o = Outcome(FALSE, c, secretsIssued, saltsMade)
  BY <1>3, <1>4 DEF Outcome, Answer
<1>5. CASE /\ secret \in Secrets /\ salt <= MaxSalts
           /\ o = Outcome(FALSE, [c EXCEPT !.reply = reply], issued, saltsMade)
  BY <1>3, <1>5 DEF Outcome, Answer, Unread, Keyed, secret, reply
<1>6. CASE /\ secret \in Secrets /\ salt <= MaxSalts
           /\ o = Outcome(TRUE, kept, issued, salts)
  <2>1. issued \in Secrets \cup {0} /\ salts \in saltsMade..MaxSalts /\ salt <= salts
    BY <1>3, <1>6
  <2> HIDE DEF issued, salts
  <2> QED BY <1>3, <1>6, <2>1 DEF Outcome, Answer, Unread, Keyed, secret, reply
<1> QED BY <1>2, <1>4, <1>5, <1>6

\* What getKey() leaves: members as sound as before, and a key that is the one in
\* use, or one of the salt that was asked for, or one of a new salt.
KeyGot(o, c, salt, untold) ==
  /\ o.c \in CryptMembers /\ KeyKnown(o.c, o.salts, untold)
  /\ o.issued \in Secrets \cup {0} /\ o.salts \in saltsMade..MaxSalts
  /\ o.c.ver = c.ver /\ o.c.nonce = c.nonce /\ o.c.touched = c.touched
  /\ c.reply # 0 => o.c.reply # 0
  /\ o = Outcome(o.ok, o.c, o.issued, o.salts)
  /\ o.ok \in BOOLEAN /\ (o.ok = TRUE <=> o.c.key # 0)
  /\ o.c.key # 0 => \/ c.key # 0 /\ o.c = c
                    \/ o.c.salt = IF salt # 0 THEN salt ELSE saltsMade + 1

\* getKey() leaves that.
LEMMA GotKey ==
  ASSUME NEW c \in CryptMembers, NEW salt \in 0..saltsMade, NEW token \in Secrets \cup {0},
         secretsIssued \in Secrets \cup {0}, saltsMade \in 0..MaxSalts,
         NEW untold, KeyKnown(c, saltsMade, untold),
         token # 0 => c.reply = 0,
         NEW o \in GetKey(c, salt, token)
  PROVE  KeyGot(o, c, salt, untold)
<1>1. /\ MaxSalts \in Nat /\ Secrets \subseteq Nat \ {0} /\ NonceLimit \in Nat
      /\ saltsMade \in Nat
  BY CryptoAssumption, SecretsAreNumbers
<1>2. CASE c.key # 0
  <2>1. o = Outcome(TRUE, c, secretsIssued, saltsMade)
    BY <1>2 DEF GetKey
  <2> QED BY <1>1, <1>2, <2>1 DEF Outcome, KeyGot
<1>3. CASE c.key = 0
  <2> DEFINE s == IF salt # 0 THEN salt ELSE saltsMade + 1
             t == IF token # 0 THEN token ELSE c.token
  <2>1. c.salt = 0 /\ c.token \in Secrets \cup {0}
    BY <1>3 DEF KeyKnown, CryptMembers
  <2>2. o \in Outcomes(c, s, t)
    BY <1>3, <2>1 DEF GetKey, SaltInUse
  <2>3. s \in Nat \ {0} /\ t \in Secrets \cup {0}
    BY <1>1, <2>1
  <2>4. (t # 0 => c.reply = 0) /\ (t = 0 => c.token = 0)
    BY <1>1 DEF KeyKnown
  <2> HIDE DEF s, t
  <2>5. /\ o.issued \in Secrets \cup {0} /\ o.salts \in saltsMade..MaxSalts
        /\ o = Outcome(o.ok, o.c, o.issued, o.salts)
    BY <2>2, <2>3, AnswerGiven
  <2>6. Answer(o, c, s, t)
    BY <2>2, <2>3, AnswerGiven
  <2>7. o.salts \in Nat /\ saltsMade <= o.salts /\ o.salts <= MaxSalts
    BY <1>1, <2>5
  <2>8. SecretOf(t) \in Secrets => ReplyOf(t) \in Secrets \cup {0}
    BY DEF ReplyOf
  <2>9. CASE o.ok = FALSE /\ o.c = c
    <3>1. KeyKnown(o.c, o.salts, untold)
      BY <1>1, <2>1, <2>7, <2>9 DEF KeyKnown
    <3> QED BY <1>3, <2>5, <2>9, <3>1 DEF KeyGot
  <2>10. CASE SecretOf(t) \in Secrets /\ o.ok = FALSE /\ o.c = Unread(c, t)
    <3>1. /\ o.c \in CryptMembers /\ o.c.reply = ReplyOf(t) /\ o.c.key = 0 /\ o.c.salt = 0
          /\ o.c.token = c.token /\ o.c.ver = c.ver /\ o.c.nonce = c.nonce
          /\ o.c.touched = c.touched
      BY <1>3, <2>1, <2>8, <2>10 DEF CryptMembers, Unread
    <3>2. c.token # 0 => ReplyOf(t) = 0
      BY <2>4 DEF ReplyOf
    <3>3. ~secretPerToken => ReplyOf(t) = 0
      BY DEF ReplyOf
    <3>4. c.reply # 0 => ReplyOf(t) # 0
      BY <1>1, <2>4, <2>10 DEF KeyKnown, ReplyOf
    <3>5. KeyKnown(o.c, o.salts, untold)
      BY <2>7, <3>1, <3>2, <3>3 DEF KeyKnown
    <3> QED BY <2>5, <2>10, <3>1, <3>4, <3>5 DEF KeyGot
  <2>11. CASE /\ SecretOf(t) \in Secrets /\ s <= o.salts /\ o.ok = TRUE
              /\ o.c = Keyed(c, s, t)
    <3>1. s \in 0..MaxSalts /\ s # 0 /\ SecretOf(t) # 0
      BY <1>1, <2>3, <2>7, <2>11
    <3>2. /\ o.c \in CryptMembers /\ o.c.reply = ReplyOf(t) /\ o.c.key = SecretOf(t)
          /\ o.c.salt = s /\ o.c.token = t /\ o.c.ver = c.ver /\ o.c.nonce = c.nonce
          /\ o.c.touched = c.touched
      BY <2>3, <2>11, <3>1, KeyedMembers
    <3>3. /\ t # 0 => ReplyOf(t) = 0
          /\ ReplyOf(t) \in {0, SecretOf(t)}
          /\ ~secretPerToken => ReplyOf(t) = 0 /\ SecretOf(t) = 1
          /\ secretPerToken => SecretOf(t) = t \/ (t = 0 /\ ReplyOf(t) = SecretOf(t))
      BY DEF ReplyOf, SecretOf
    <3>4. c.reply # 0 => ReplyOf(t) # 0
      BY <2>4, <3>1 DEF KeyKnown, ReplyOf
    <3>5. KeyKnown(o.c, o.salts, untold)
      BY <2>11, <3>1, <3>2, <3>3 DEF KeyKnown
    <3> QED BY <2>5, <2>11, <3>1, <3>2, <3>4, <3>5 DEF s, KeyGot
  <2> QED BY <2>6, <2>9, <2>10, <2>11 DEF Answer
<1> QED BY <1>1, <1>2, <1>3 DEF CryptMembers

\* A file that was read or could not be leaves a process that is not behind it.
LEMMA ReadLeaves ==
  ASSUME NEW c, NEW ver \in {"plain", "v2"}, c = [NewCrypt EXCEPT !.ver = ver],
         NEW o \in readFile(sfile, c), CryptoInv
  PROVE  /\ o.c \in CryptMembers /\ KeyKnown(o.c, o.salts, Untold)
         /\ o.issued \in Secrets \cup {0} /\ o.salts \in saltsMade..MaxSalts
         /\ NonceAhead(o.c, sfile)
<1>1. /\ MaxSalts \in Nat /\ Secrets \subseteq Nat \ {0} /\ NonceLimit \in Nat \ {0}
      /\ saltsMade \in 0..MaxSalts /\ secretsIssued \in Secrets \cup {0} /\ saltsMade \in Nat
  BY CryptoAssumption, SecretsAreNumbers DEF CryptoInv, CryptoTypeOK
<1>2. /\ c \in CryptMembers /\ c.key = 0 /\ c.salt = 0 /\ c.token = 0 /\ c.reply = 0
      /\ c.nonce = 0
  <2>1. c = [token |-> 0, salt |-> 0, key |-> 0, nonce |-> 0, ver |-> ver,
             reply |-> 0, touched |-> FALSE]
    BY DEF NewCrypt
  <2>2. 0 \in 0..MaxSalts /\ 0 \in 0 .. NonceLimit - 1 /\ FALSE \in BOOLEAN
    BY <1>1
  <2>3. c.key = 0 /\ c.salt = 0 /\ c.token = 0 /\ c.reply = 0 /\ c.nonce = 0
    BY <2>1
  <2>4. c \in CryptMembers
    BY ONLY <2>1, <2>2, ver \in {"plain", "v2"} DEF CryptMembers
  <2> QED BY <2>3, <2>4
<1>3. KeyKnown(c, saltsMade, Untold)
  BY <1>1, <1>2 DEF KeyKnown
<1>4. CASE o = Outcome(FALSE, c, secretsIssued, saltsMade) \/ o = Outcome(TRUE, c, secretsIssued, saltsMade)
  <2>1. o.c = c /\ o.issued = secretsIssued /\ o.salts = saltsMade
    BY <1>4 DEF Outcome
  <2>2. NonceAhead(c, sfile)
    BY <1>1, <1>2 DEF NonceAhead, CryptoInv, FileMade, Encrypted
  <2> QED BY <1>1, <1>2, <1>3, <2>1, <2>2
<1>5. ASSUME sfile.ver = "v2", NEW salt \in 0..saltsMade, NEW token \in Secrets \cup {0},
             salt = IF Narrow(sfile) THEN sfile.salt ELSE 0,
             NEW g \in GetKey(c, salt, token),
             o = IF g.ok /\ Narrow(sfile) /\ Opens(sfile, g.c)
                   THEN [g EXCEPT !.c.nonce = sfile.nonce] ELSE [g EXCEPT !.ok = FALSE]
      PROVE  /\ o.c \in CryptMembers /\ KeyKnown(o.c, o.salts, Untold)
             /\ o.issued \in Secrets \cup {0} /\ o.salts \in saltsMade..MaxSalts
             /\ NonceAhead(o.c, sfile)
  <2>1. KeyGot(g, c, salt, Untold)
    BY <1>1, <1>2, <1>3, <1>5, GotKey
  <2>2. FileMade(sfile, saltsMade) /\ sfile.nonce \in 0 .. NonceLimit - 1
        /\ sfile.salt \in 1..saltsMade
    BY <1>1, <1>5 DEF CryptoInv, FileMade, Encrypted
  <2>3. CASE g.ok /\ Narrow(sfile) /\ Opens(sfile, g.c)
    <3>1. o = Outcome(g.ok, [g.c EXCEPT !.nonce = sfile.nonce], g.issued, g.salts)
      BY <1>5, <2>1, <2>3 DEF KeyGot, Outcome
    <3>2. o.c = [g.c EXCEPT !.nonce = sfile.nonce] /\ o.issued = g.issued /\ o.salts = g.salts
      BY <3>1 DEF Outcome
    <3>3. /\ o.c \in CryptMembers /\ o.c.nonce = sfile.nonce /\ o.c.key = g.c.key
          /\ o.c.salt = g.c.salt /\ o.c.token = g.c.token /\ o.c.reply = g.c.reply
      BY <2>1, <2>2, <3>2 DEF KeyGot, CryptMembers
    <3>4. KeyKnown(o.c, o.salts, Untold)
      BY <2>1, <3>2, <3>3 DEF KeyGot, KeyKnown
    <3>5. NonceAhead(o.c, sfile)
      BY <2>2, <3>3 DEF NonceAhead
    <3> QED BY <2>1, <3>2, <3>3, <3>4, <3>5 DEF KeyGot
  <2>4. CASE ~(g.ok /\ Narrow(sfile) /\ Opens(sfile, g.c))
    <3>1. o = Outcome(FALSE, g.c, g.issued, g.salts)
      BY <1>5, <2>1, <2>4 DEF KeyGot, Outcome
    <3>2. o.c = g.c /\ o.issued = g.issued /\ o.salts = g.salts
      BY <3>1 DEF Outcome
    <3>3. sfile.key # <<g.c.key, g.c.salt>>
      <4> SUFFICES ASSUME sfile.key = <<g.c.key, g.c.salt>> PROVE FALSE
        OBVIOUS
      <4>1. g.c.key # 0 /\ g.c.salt = sfile.salt
        BY <1>1, <2>2 DEF FileMade, Encrypted
      <4>2. g.ok /\ Opens(sfile, g.c)
        BY <2>1, <4>1 DEF KeyGot, Opens
      <4>3. ~Narrow(sfile)
        BY <2>4, <4>2
      <4>4. g.c.salt = saltsMade + 1
        BY <1>2, <1>5, <2>1, <4>1, <4>3 DEF KeyGot
      <4> QED BY <1>1, <2>2, <4>1, <4>4
    <3> QED BY <2>1, <3>2, <3>3 DEF KeyGot, NonceAhead
  <2> QED BY <2>3, <2>4
<1>6. CASE sfile.ver # "v2"
  BY <1>4, <1>6 DEF readFile
<1>7. CASE sfile.ver = "v2" /\ Narrow(sfile)
  <2>1. sfile.salt \in 0..saltsMade /\ sfile.token \in Secrets \cup {0}
    BY <1>1, <1>7 DEF CryptoInv, FileMade, Encrypted
  <2>2. \E g \in GetKey(c, sfile.salt, sfile.token) :
           o = IF g.ok /\ Narrow(sfile) /\ Opens(sfile, g.c)
                 THEN [g EXCEPT !.c.nonce = sfile.nonce] ELSE [g EXCEPT !.ok = FALSE]
    BY <1>7 DEF readFile, readEncrypted
  <2> QED BY <1>5, <1>7, <2>1, <2>2
<1>8. CASE sfile.ver = "v2" /\ ~Narrow(sfile)
  <2>1. CASE o = Outcome(FALSE, c, secretsIssued, saltsMade)
    BY <1>4, <2>1
  <2>2. CASE \E g \in GetKey(c, 0, 0) :
           o = IF g.ok /\ Narrow(sfile) /\ Opens(sfile, g.c)
                 THEN [g EXCEPT !.c.nonce = sfile.nonce] ELSE [g EXCEPT !.ok = FALSE]
    <3>1. 0 \in 0..saltsMade /\ 0 \in Secrets \cup {0}
      BY <1>1
    <3> QED BY <1>5, <1>8, <2>2, <3>1
  <2>3. \/ o = Outcome(FALSE, c, secretsIssued, saltsMade)
        \/ \E g \in GetKey(c, 0, 0) :
             o = IF g.ok /\ Narrow(sfile) /\ Opens(sfile, g.c)
                   THEN [g EXCEPT !.c.nonce = sfile.nonce] ELSE [g EXCEPT !.ok = FALSE]
    BY <1>8 DEF readFile, readEncrypted
  <2> QED BY <2>1, <2>2, <2>3
<1> QED BY <1>6, <1>7, <1>8

\* The key that a file is written with: with the key of the file that is there,
\* the nonce is greater.
LEMMA NextKeyLeaves ==
  ASSUME CryptoInv, NEW o \in NextKey(crypt)
  PROVE  /\ o.c \in CryptMembers /\ KeyKnown(o.c, o.salts, Untold)
         /\ o.issued \in Secrets \cup {0} /\ o.salts \in saltsMade..MaxSalts
         /\ o.c.touched = crypt.touched
         /\ crypt.reply # 0 => o.c.reply # 0
         /\ o.ok = TRUE => o.c.key # 0
         /\ sfile.ver = "v2" /\ sfile.key = <<o.c.key, o.c.salt>> => o.c.nonce > sfile.nonce
<1>1. /\ MaxSalts \in Nat /\ Secrets \subseteq Nat \ {0} /\ NonceLimit \in Nat \ {0}
      /\ saltsMade \in 0..MaxSalts /\ secretsIssued \in Secrets \cup {0} /\ saltsMade \in Nat
      /\ 0 \in 0..saltsMade
  BY CryptoAssumption, SecretsAreNumbers DEF CryptoInv, CryptoTypeOK
<1>2. crypt \in CryptMembers /\ KeyKnown(crypt, saltsMade, Untold)
  BY DEF CryptoInv, CryptoTypeOK, CryptMembers
<1> DEFINE c == IF crypt.nonce + 1 = NonceLimit THEN resetKey(crypt)
                ELSE [crypt EXCEPT !.nonce = @ + 1]
<1>3. /\ c \in CryptMembers /\ KeyKnown(c, saltsMade, Untold)
      /\ c.touched = crypt.touched /\ c.reply = crypt.reply
      /\ c.key # 0 => c.key = crypt.key /\ c.salt = crypt.salt /\ c.nonce = crypt.nonce + 1
  <2>1. CASE crypt.nonce + 1 = NonceLimit
    <3>1. c = [crypt EXCEPT !.token = 0, !.salt = 0, !.key = 0, !.nonce = 0]
      BY <2>1 DEF resetKey
    <3> HIDE DEF c
    <3>2. /\ c.token = 0 /\ c.salt = 0 /\ c.key = 0 /\ c.nonce = 0 /\ c.ver = crypt.ver
          /\ c.reply = crypt.reply /\ c.touched = crypt.touched
      BY <1>2, <3>1 DEF CryptMembers
    <3>3. c = [token |-> 0, salt |-> 0, key |-> 0, nonce |-> 0, ver |-> crypt.ver,
               reply |-> crypt.reply, touched |-> crypt.touched]
      BY <1>2, <3>1 DEF CryptMembers
    <3>4. /\ 0 \in 0..MaxSalts /\ 0 \in 0 .. NonceLimit - 1 /\ crypt.ver \in {"plain", "v2"}
          /\ crypt.reply \in Secrets \cup {0} /\ crypt.touched \in BOOLEAN
      BY <1>1, <1>2 DEF CryptMembers
    <3>5. c \in CryptMembers
      BY ONLY <3>3, <3>4 DEF CryptMembers
    <3>6. KeyKnown(c, saltsMade, Untold)
      BY <1>1, <1>2, <3>2 DEF KeyKnown
    <3> QED BY <3>2, <3>5, <3>6
  <2>2. CASE crypt.nonce + 1 # NonceLimit
    <3>1. c = [crypt EXCEPT !.nonce = crypt.nonce + 1]
      BY <2>2
    <3>2. crypt.nonce + 1 \in 0 .. NonceLimit - 1
      BY <1>1, <1>2, <2>2 DEF CryptMembers
    <3> HIDE DEF c
    <3>3. /\ c \in CryptMembers
          /\ c.token = crypt.token /\ c.salt = crypt.salt /\ c.key = crypt.key
          /\ c.nonce = crypt.nonce + 1 /\ c.reply = crypt.reply /\ c.touched = crypt.touched
      BY <1>2, <3>1, <3>2 DEF CryptMembers
    <3>4. KeyKnown(c, saltsMade, Untold)
      BY <1>2, <3>3 DEF KeyKnown
    <3> QED BY <3>3, <3>4
  <2> QED BY <2>1, <2>2
<1>4. o \in GetKey(c, 0, 0)
  BY DEF NextKey
<1> HIDE DEF c
<1>5. KeyGot(o, c, 0, Untold)
  BY <1>1, <1>3, <1>4, GotKey
<1>6. ASSUME sfile.ver = "v2", sfile.key = <<o.c.key, o.c.salt>> PROVE o.c.nonce > sfile.nonce
  <2>1. sfile.key \in Secrets \X (0..MaxSalts) /\ sfile.key[2] = sfile.salt
        /\ sfile.salt \in 1..saltsMade /\ sfile.nonce \in Nat
    BY <1>1, <1>6 DEF CryptoInv, FileMade, Encrypted
  <2>2. o.c.key # 0 /\ o.c.salt = sfile.salt
    BY <1>1, <1>6, <2>1
  <2>3. o.c.salt # saltsMade + 1
    BY <1>1, <2>1, <2>2
  <2>4. c.key # 0 /\ o.c = c
    BY <1>5, <2>2, <2>3 DEF KeyGot
  <2>5. sfile.key = <<crypt.key, crypt.salt>>
    BY <1>3, <1>6, <2>4
  <2>6. crypt.nonce >= sfile.nonce /\ crypt.nonce \in Nat
    BY <1>2, <1>6, <2>5 DEF CryptoInv, NonceAhead, CryptMembers
  <2> QED BY <1>3, <2>1, <2>4, <2>6
<1> QED BY <1>3, <1>5, <1>6 DEF KeyGot

\* A file that was written.
LEMMA WrittenFile ==
  ASSUME NEW c \in CryptMembers, c.key # 0, NEW made \in 0..MaxSalts,
         NEW untold, KeyKnown(c, made, untold), NEW content \in SUBSET Edits
  PROVE  LET f == FileOf(c, content)
         IN  /\ f \in Encrypted /\ FileMade(f, made) /\ f.ver = "v2" /\ f.nonce = c.nonce
             /\ f.key = <<c.key, c.salt>> /\ f.salt = c.salt /\ f.token = c.token
             /\ f.content = content /\ f # NoFile
<1> DEFINE f == FileOf(c, content)
<1>1. MaxSalts \in Nat /\ Secrets \subseteq Nat \ {0} /\ NonceLimit \in Nat \ {0} /\ made \in Nat
  BY CryptoAssumption, SecretsAreNumbers
<1>2. f = [ver |-> "v2", salt |-> c.salt, token |-> c.token, nonce |-> c.nonce,
           key |-> <<c.key, c.salt>>, content |-> content]
  BY DEF FileOf
<1> HIDE DEF f
<1>3. /\ c.salt \in 0..MaxSalts /\ c.token \in Secrets \cup {0} /\ c.nonce \in 0 .. NonceLimit - 1
      /\ c.key \in Secrets
  BY DEF CryptMembers
<1>4. c.nonce \in 0..NonceLimit /\ <<c.key, c.salt>> \in Secrets \X (0..MaxSalts)
      /\ c.nonce < NonceLimit
  BY <1>1, <1>3
<1>5. f \in Encrypted
  BY <1>2, <1>3, <1>4 DEF Encrypted
<1>6. /\ f.ver = "v2" /\ f.nonce = c.nonce /\ f.key = <<c.key, c.salt>> /\ f.salt = c.salt
      /\ f.token = c.token /\ f.content = content
  BY <1>2
<1>7. c.salt \in 1..made
  BY <1>1, <1>3 DEF KeyKnown
<1>8. f # NoFile
  BY <1>6 DEF NoFile
<1> QED BY <1>4, <1>5, <1>6, <1>7, <1>8 DEF FileMade, f

\* The step of NoncesRise.
NonceRises ==
  sfile.ver = "v2" /\ sfile'.ver = "v2" /\ sfile' # sfile /\ sfile'.key = sfile.key
    => sfile'.nonce > sfile.nonce

\* The invariant, from what a step leaves of it.
LEMMA CryptoInvOf ==
  ASSUME CryptoInv, crypt' \in CryptMembers, UNCHANGED <<secretPerToken>>,
         loaded' \subseteq Edits, edited' \subseteq Edits, saved' \subseteq Edits,
         clientRuns' \in BOOLEAN, secretPortal' \in BOOLEAN,
         secretsIssued' \in Secrets \cup {0}, saltsMade' \in 0..MaxSalts,
         mishaps' \subseteq {"unread", "untold"},
         sfile' \in {NoFile} \cup Plain \cup Encrypted,
         KeyKnown(crypt', saltsMade', "untold" \in mishaps'),
         sfile'.ver = "v2" => FileMade(sfile', saltsMade'),
         NonceAhead(crypt', sfile'),
         clientRuns' = FALSE => crypt' = NewCrypt,
         clientRuns' = TRUE /\ "unread" \notin mishaps' => loaded' = Content(sfile'),
         FileOpens', EditsKept'
  PROVE  CryptoInv'
<1>1. CryptoTypeOK'
  <2>1. secretPerToken' \in BOOLEAN
    BY DEF CryptoInv, CryptoTypeOK
  <2> QED BY <2>1 DEF CryptoTypeOK, CryptMembers
<1>2. KeyKnown(crypt, saltsMade, Untold)'
  BY DEF KeyKnown, Untold
<1> QED BY <1>1, <1>2 DEF CryptoInv

\* The types, from the invariant.
LEMMA CryptoTypes ==
  ASSUME CryptoInv
  PROVE  /\ crypt \in CryptMembers /\ KeyKnown(crypt, saltsMade, Untold)
         /\ loaded \subseteq Edits /\ edited \subseteq Edits /\ saved \subseteq Edits
         /\ clientRuns \in BOOLEAN /\ secretPortal \in BOOLEAN /\ secretPerToken \in BOOLEAN
         /\ secretsIssued \in Secrets \cup {0} /\ saltsMade \in 0..MaxSalts
         /\ mishaps \subseteq {"unread", "untold"}
         /\ sfile \in {NoFile} \cup Plain \cup Encrypted
         /\ sfile.ver = "v2" => FileMade(sfile, saltsMade)
         /\ Content(sfile) \subseteq Edits
         /\ MaxSalts \in Nat /\ saltsMade \in Nat /\ Secrets \subseteq Nat \ {0}
<1>1. Content(sfile) \subseteq Edits
  BY DEF CryptoInv, CryptoTypeOK, Content, Plain, Encrypted
<1>2. MaxSalts \in Nat /\ saltsMade \in Nat /\ Secrets \subseteq Nat \ {0}
  BY CryptoAssumption, SecretsAreNumbers DEF CryptoInv, CryptoTypeOK
<1>3. crypt \in CryptMembers
  BY DEF CryptoInv, CryptoTypeOK, CryptMembers
<1>4. clientRuns \in BOOLEAN /\ secretPortal \in BOOLEAN /\ secretPerToken \in BOOLEAN
  BY DEF CryptoInv, CryptoTypeOK
<1> QED BY <1>1, <1>2, <1>3, <1>4 DEF CryptoInv, CryptoTypeOK

\* More salts do no harm to a file.
LEMMA MoreSalts ==
  ASSUME NEW made \in Nat, NEW more \in Nat, made <= more
  PROVE  \A f : FileMade(f, made) => FileMade(f, more)
<1> SUFFICES ASSUME NEW f, FileMade(f, made) PROVE FileMade(f, more)
  OBVIOUS
<1>1. f.salt \in 1..more
  BY DEF FileMade
<1> QED BY <1>1 DEF FileMade

\* A process is started.
LEMMA CreatedKeeps ==
  ASSUME CryptoInv, settingsCreated
  PROVE  CryptoInv' /\ NonceRises
<1> DEFINE ver == IF secretPortal THEN "v2" ELSE "plain"
           c == [NewCrypt EXCEPT !.ver = ver]
<1>1. PICK o \in readFile(sfile, c) :
         /\ crypt' = o.c /\ secretsIssued' = o.issued /\ saltsMade' = o.salts
         /\ loaded' = IF o.ok THEN Content(sfile) ELSE {}
         /\ mishaps' = IF o.ok THEN mishaps ELSE mishaps \cup {"unread"}
  BY DEF settingsCreated
<1>2. /\ clientRuns' = TRUE /\ edited' = {}
      /\ UNCHANGED <<sfile, secretPortal, secretPerToken, saved>>
      /\ clientRuns = FALSE
  BY CryptoTypes DEF settingsCreated
<1>3. ver \in {"plain", "v2"}
  OBVIOUS
<1> HIDE DEF ver
<1>4. /\ o.c \in CryptMembers /\ KeyKnown(o.c, o.salts, Untold)
      /\ o.issued \in Secrets \cup {0} /\ o.salts \in saltsMade..MaxSalts
      /\ NonceAhead(o.c, sfile)
  BY <1>1, <1>3, ReadLeaves
<1>5. /\ saltsMade' \in 0..MaxSalts /\ saltsMade' \in Nat /\ saltsMade <= saltsMade'
      /\ loaded' \subseteq Edits /\ mishaps' \subseteq {"unread", "untold"}
  BY <1>1, <1>4, CryptoTypes
<1>6. ("untold" \in mishaps') = Untold
  BY <1>1 DEF Untold
<1>7. sfile'.ver = "v2" => FileMade(sfile', saltsMade')
  BY <1>2, <1>5, CryptoTypes, MoreSalts
<1>8. "unread" \notin mishaps' => "unread" \notin mishaps /\ loaded' = Content(sfile)
  BY <1>1
<1>9. FileOpens'
  <2>1. crypt.reply = 0 /\ crypt.touched = FALSE
    BY <1>2 DEF CryptoInv, NewCrypt
  <2>2. FileOpens
    BY DEF CryptoInv
  <2>3. "untold" \in mishaps => "untold" \in mishaps'
    BY <1>1
  <2> QED BY <1>2, <2>1, <2>2, <2>3 DEF FileOpens, SecretFor
<1>10. EditsKept'
  BY <1>2, <1>8 DEF CryptoInv, EditsKept
<1>11. CryptoInv'
  BY <1>1, <1>2, <1>4, <1>5, <1>6, <1>7, <1>8, <1>9, <1>10, CryptoTypes, CryptoInvOf
<1> QED BY <1>2, <1>11 DEF NonceRises

\* The settings are written, or are not.
LEMMA SyncKeeps ==
  ASSUME CryptoInv, cryptoSync
  PROVE  CryptoInv' /\ NonceRises
<1> DEFINE content == loaded \cup edited
<1>0. content \in SUBSET Edits
  BY CryptoTypes
<1>1. /\ clientRuns = TRUE
      /\ UNCHANGED <<clientRuns, secretPortal, secretPerToken, mishaps>>
  BY CryptoTypes DEF cryptoSync
<1>2. CASE /\ Written([ver |-> "plain", content |-> content], crypt)
           /\ UNCHANGED <<secretsIssued, saltsMade>>
  <2> DEFINE f == [ver |-> "plain", content |-> content]
  <2>1. /\ f \in Plain /\ f.ver = "plain" /\ f.content = content /\ f # NoFile
    BY <1>0 DEF Plain, NoFile
  <2>2. /\ sfile' = f /\ crypt' = [crypt EXCEPT !.touched = FALSE]
        /\ loaded' = content /\ edited' = {} /\ saved' = saved \cup edited
    BY <1>2, <2>1 DEF Written
  <2> HIDE DEF f
  <2>3. /\ crypt' \in CryptMembers /\ crypt'.key = crypt.key /\ crypt'.salt = crypt.salt
        /\ crypt'.token = crypt.token /\ crypt'.reply = crypt.reply
    BY <2>2, CryptoTypes DEF CryptMembers
  <2>4. KeyKnown(crypt', saltsMade', "untold" \in mishaps')
    BY <1>1, <1>2, <2>3, CryptoTypes DEF KeyKnown, Untold
  <2>5. Content(sfile') = content
    BY <2>1, <2>2 DEF Content
  <2>6. FileOpens' /\ NonceAhead(crypt', sfile')
    BY <2>1, <2>2 DEF FileOpens, NonceAhead
  <2>7. EditsKept'
    BY <1>1, <2>2, <2>5 DEF EditsKept, CryptoInv
  <2>8. CryptoInv'
    <3>1. saved' \subseteq Edits /\ loaded' \subseteq Edits /\ edited' \subseteq Edits
      BY <1>0, <2>2, CryptoTypes
    <3> QED BY <1>1, <1>2, <2>1, <2>2, <2>3, <2>4, <2>5, <2>6, <2>7, <3>1, CryptoTypes, CryptoInvOf
  <2> QED BY <2>1, <2>2, <2>8 DEF NonceRises
<1>3. ASSUME NEW o \in NextKey(crypt), secretsIssued' = o.issued, saltsMade' = o.salts,
             \/ o.ok /\ Written(FileOf(o.c, content), o.c)
             \/ crypt' = o.c /\ UNCHANGED <<sfile, loaded, edited, saved>>
      PROVE  CryptoInv' /\ NonceRises
  <2>1. /\ o.c \in CryptMembers /\ KeyKnown(o.c, o.salts, Untold)
        /\ o.issued \in Secrets \cup {0} /\ o.salts \in saltsMade..MaxSalts
        /\ o.c.touched = crypt.touched
        /\ crypt.reply # 0 => o.c.reply # 0
        /\ o.ok = TRUE => o.c.key # 0
    BY NextKeyLeaves
  <2>2. sfile.ver = "v2" /\ sfile.key = <<o.c.key, o.c.salt>> => o.c.nonce > sfile.nonce
    BY NextKeyLeaves
  <2>3. o.salts \in 0..MaxSalts /\ o.salts \in Nat /\ saltsMade <= o.salts
    BY <2>1, CryptoTypes
  <2>4. CASE o.ok /\ Written(FileOf(o.c, content), o.c)
    <3> DEFINE f == FileOf(o.c, content)
    <3>1. o.c.key # 0
      BY <2>1, <2>4
    <3>2. /\ f \in Encrypted /\ FileMade(f, o.salts) /\ f.ver = "v2" /\ f.nonce = o.c.nonce
          /\ f.key = <<o.c.key, o.c.salt>> /\ f.salt = o.c.salt /\ f.token = o.c.token
          /\ f.content = content /\ f # NoFile
      BY <1>0, <2>1, <2>3, <3>1, WrittenFile
    <3>3. /\ sfile' = f /\ crypt' = [o.c EXCEPT !.touched = FALSE]
          /\ loaded' = content /\ edited' = {} /\ saved' = saved \cup edited
      BY <2>4, <3>2 DEF Written
    <3> HIDE DEF f
    <3>4. /\ crypt' \in CryptMembers /\ crypt'.key = o.c.key /\ crypt'.salt = o.c.salt
          /\ crypt'.token = o.c.token /\ crypt'.reply = o.c.reply /\ crypt'.nonce = o.c.nonce
          /\ o.c.nonce \in Nat
      <4> DEFINE d == o.c
      <4>1. d \in CryptMembers /\ crypt' = [d EXCEPT !.touched = FALSE]
        BY <2>1, <3>3
      <4> HIDE DEF d
      <4>2. crypt' \in CryptMembers
        BY <4>1 DEF CryptMembers
      <4>3. /\ crypt'.key = d.key /\ crypt'.salt = d.salt /\ crypt'.token = d.token
            /\ crypt'.reply = d.reply /\ crypt'.nonce = d.nonce
        BY <4>1 DEF CryptMembers
      <4>4. d.nonce \in 0 .. NonceLimit - 1
        BY <4>1 DEF CryptMembers
      <4> QED BY <4>2, <4>3, <4>4, CryptoAssumption DEF d
    <3>5. KeyKnown(crypt', saltsMade', "untold" \in mishaps')
      BY <1>1, <1>3, <2>1, <3>4 DEF KeyKnown, Untold
    <3>6. Content(sfile') = content
      BY <3>2, <3>3 DEF Content
    <3>7. NonceAhead(crypt', sfile')
      BY <3>2, <3>3, <3>4 DEF NonceAhead
    <3>8. FileOpens'
      <4>1. IF secretPerToken
              THEN o.c.key = o.c.token
                     \/ (o.c.token = 0 /\ (o.c.reply = o.c.key \/ "untold" \in mishaps))
              ELSE o.c.key = 1
        BY <2>1, <3>1 DEF KeyKnown, Untold
      <4> QED BY <1>1, <3>1, <3>2, <3>3, <3>4, <4>1 DEF FileOpens, SecretFor
    <3>9. EditsKept'
      BY <1>1, <3>3, <3>6 DEF EditsKept, CryptoInv
    <3>10. CryptoInv'
      <4>1. saved' \subseteq Edits /\ loaded' \subseteq Edits /\ edited' \subseteq Edits
        BY <1>0, <3>3, CryptoTypes
      <4> QED BY <1>1, <1>3, <2>1, <2>3, <3>2, <3>3, <3>4, <3>5, <3>6, <3>7, <3>8, <3>9, <4>1,
                 CryptoTypes, CryptoInvOf
    <3> QED BY <2>2, <3>2, <3>3, <3>10 DEF NonceRises
  <2>5. CASE crypt' = o.c /\ UNCHANGED <<sfile, loaded, edited, saved>>
    <3>1. sfile'.ver = "v2" => FileMade(sfile', saltsMade')
      BY <1>3, <2>3, <2>5, CryptoTypes, MoreSalts
    <3>2. KeyKnown(crypt', saltsMade', "untold" \in mishaps')
      BY <1>1, <1>3, <2>1, <2>5 DEF Untold
    <3>3. NonceAhead(crypt', sfile')
      <4>1. sfile.ver = "v2" => sfile.nonce \in Nat
        BY CryptoTypes, CryptoAssumption DEF FileMade, Encrypted
      <4>2. o.c.nonce \in Nat
        BY <2>1 DEF CryptMembers
      <4> QED BY <2>2, <2>5, <4>1, <4>2 DEF NonceAhead
    <3>4. FileOpens'
      BY <1>1, <2>1, <2>5 DEF FileOpens, SecretFor, CryptoInv
    <3>5. EditsKept'
      BY <1>1, <2>5 DEF EditsKept, CryptoInv
    <3>6. clientRuns' = TRUE /\ "unread" \notin mishaps' => loaded' = Content(sfile')
      BY <1>1, <2>5 DEF CryptoInv
    <3>7. CryptoInv'
      BY <1>1, <1>3, <2>1, <2>3, <2>5, <3>1, <3>2, <3>3, <3>4, <3>5, <3>6, CryptoTypes, CryptoInvOf
    <3> QED BY <2>5, <3>7 DEF NonceRises
  <2> QED BY <1>3, <2>4, <2>5
<1> QED BY <1>2, <1>3 DEF cryptoSync

\* The portal's response, with a token or without.
LEMMA ResponseKeeps ==
  ASSUME CryptoInv, handleResponse \/ handleResponseNothing
  PROVE  CryptoInv' /\ NonceRises
<1>1. /\ clientRuns = TRUE /\ crypt.reply # 0
      /\ UNCHANGED <<sfile, loaded, edited, clientRuns, secretPortal, secretPerToken,
                     secretsIssued, saltsMade, saved>>
  BY CryptoTypes DEF handleResponse, handleResponseNothing
<1>2. mishaps \subseteq mishaps' /\ mishaps' \subseteq {"unread", "untold"}
      /\ ("unread" \in mishaps' => "unread" \in mishaps)
  BY CryptoTypes DEF handleResponse, handleResponseNothing
<1>3. /\ crypt' \in CryptMembers /\ crypt'.key = crypt.key /\ crypt'.salt = crypt.salt
      /\ crypt'.nonce = crypt.nonce /\ crypt'.reply = 0
      /\ \/ crypt'.token = crypt.reply /\ crypt'.touched = TRUE
         \/ crypt'.token = crypt.token /\ "untold" \in mishaps'
  <2>1. CASE handleResponse
    <3>1. crypt \in CryptMembers /\ crypt.reply \in Secrets \cup {0}
          /\ crypt' = [crypt EXCEPT !.token = crypt.reply, !.reply = 0, !.touched = TRUE]
      BY <2>1, CryptoTypes DEF handleResponse, CryptMembers
    <3>2. crypt' \in CryptMembers
      BY <3>1 DEF CryptMembers
    <3>3. /\ crypt'.key = crypt.key /\ crypt'.salt = crypt.salt /\ crypt'.nonce = crypt.nonce
          /\ crypt'.reply = 0 /\ crypt'.token = crypt.reply /\ crypt'.touched = TRUE
      BY <3>1 DEF CryptMembers
    <3> QED BY <3>2, <3>3
  <2>2. CASE handleResponseNothing
    <3>1. crypt \in CryptMembers /\ crypt' = [crypt EXCEPT !.reply = 0]
          /\ "untold" \in mishaps'
      BY <2>2, CryptoTypes DEF handleResponseNothing
    <3> QED BY <3>1 DEF CryptMembers
  <2> QED BY <2>1, <2>2
<1>4. KeyKnown(crypt', saltsMade', "untold" \in mishaps')
  BY <1>1, <1>2, <1>3, CryptoTypes DEF KeyKnown, Untold
<1>5. FileOpens'
  BY <1>1, <1>2, <1>3 DEF FileOpens, SecretFor, CryptoInv
<1>6. EditsKept'
  BY <1>1, <1>2 DEF EditsKept, CryptoInv
<1>7. NonceAhead(crypt', sfile')
  BY <1>1, <1>3 DEF NonceAhead, CryptoInv
<1>8. clientRuns' = TRUE /\ "unread" \notin mishaps' => loaded' = Content(sfile')
  BY <1>1, <1>2 DEF CryptoInv
<1>9. CryptoInv'
  BY <1>1, <1>2, <1>3, <1>4, <1>5, <1>6, <1>7, <1>8, CryptoTypes, CryptoInvOf
<1> QED BY <1>1, <1>9 DEF NonceRises

\* The process ends.
LEMMA LostKeeps ==
  ASSUME CryptoInv, settingsLost
  PROVE  CryptoInv' /\ NonceRises
<1>1. /\ clientRuns' = FALSE /\ crypt' = NewCrypt /\ loaded' = {} /\ edited' = {}
      /\ UNCHANGED <<sfile, secretPortal, secretPerToken, secretsIssued, saltsMade, saved>>
      /\ mishaps \subseteq mishaps' /\ mishaps' \subseteq {"unread", "untold"}
      /\ ("unread" \in mishaps' => "unread" \in mishaps)
      /\ crypt.reply # 0 \/ crypt.touched => "untold" \in mishaps'
  BY CryptoTypes DEF settingsLost
<1>2. NewCrypt \in CryptMembers
  <2>1. 0 \in 0..MaxSalts /\ 0 \in 0 .. NonceLimit - 1
    BY CryptoAssumption
  <2> QED BY <2>1 DEF NewCrypt, CryptMembers
<1>3. KeyKnown(crypt', saltsMade', "untold" \in mishaps') /\ NewCrypt.key = 0
  BY <1>1, CryptoTypes DEF NewCrypt, KeyKnown
<1>4. FileOpens'
  BY <1>1 DEF FileOpens, SecretFor, CryptoInv
<1>5. EditsKept'
  BY <1>1 DEF EditsKept, CryptoInv
<1>6. NonceAhead(crypt', sfile')
  BY <1>1, <1>3, CryptoTypes DEF NonceAhead, FileMade, Encrypted
<1>7. CryptoInv'
  BY <1>1, <1>2, <1>3, <1>4, <1>5, <1>6, CryptoTypes, CryptoInvOf
<1> QED BY <1>1, <1>7 DEF NonceRises

\* Steps that leave the file and the members alone.
LEMMA EditedKeeps ==
  ASSUME CryptoInv, edited' \subseteq Edits, secretPortal' \in BOOLEAN,
         UNCHANGED <<sfile, crypt, loaded, clientRuns, secretPerToken, secretsIssued,
                     saltsMade, saved, mishaps>>
  PROVE  CryptoInv' /\ NonceRises
<1>1. KeyKnown(crypt', saltsMade', "untold" \in mishaps')
  BY CryptoTypes DEF Untold
<1>2. FileOpens' /\ EditsKept' /\ NonceAhead(crypt', sfile')
  BY DEF FileOpens, SecretFor, EditsKept, CryptoInv
<1>3. /\ clientRuns' = FALSE => crypt' = NewCrypt
      /\ clientRuns' = TRUE /\ "unread" \notin mishaps' => loaded' = Content(sfile')
  BY DEF CryptoInv
<1>4. CryptoInv'
  BY <1>1, <1>2, <1>3, CryptoTypes, CryptoInvOf
<1> QED BY <1>4 DEF NonceRises

\* Before the first process there is no file, or a plain one.
LEMMA CryptoInvInit ==
  ASSUME CryptoInit
  PROVE  CryptoInv
<1>1. sfile \in {NoFile} \cup Plain /\ sfile.ver # "v2"
  BY DEF CryptoInit, NoFile, Plain
<1>2. NewCrypt \in CryptMembers
  <2>1. 0 \in 0..MaxSalts /\ 0 \in 0 .. NonceLimit - 1
    BY CryptoAssumption
  <2> QED BY <2>1 DEF NewCrypt, CryptMembers
<1>3. CryptoTypeOK
  <2>1. {clientRuns, secretPortal, secretPerToken} \subseteq BOOLEAN
    BY DEF CryptoInit
  <2>2. saltsMade \in 0..MaxSalts
    BY CryptoAssumption DEF CryptoInit
  <2>3. /\ loaded \subseteq Edits /\ edited \subseteq Edits /\ saved \subseteq Edits
        /\ secretsIssued \in Secrets \cup {0} /\ mishaps \subseteq {"unread", "untold"}
        /\ crypt \in CryptMembers
    BY <1>2 DEF CryptoInit
  <2> QED BY <1>1, <2>1, <2>2, <2>3 DEF CryptoTypeOK, CryptMembers
<1>4. KeyKnown(crypt, saltsMade, Untold)
  BY DEF CryptoInit, NewCrypt, KeyKnown
<1>5. FileOpens /\ EditsKept /\ NonceAhead(crypt, sfile)
  BY <1>1 DEF CryptoInit, FileOpens, EditsKept, NonceAhead
<1> QED BY <1>1, <1>3, <1>4, <1>5 DEF CryptoInv, CryptoInit

(***************************************************************************)
(* Whatever the portal answers, whenever the client is ended, and for any  *)
(* number of nonces, salts and secrets (cryptosettings.cpp and             *)
(* xdgcryptosettings.cpp): the settings file can be opened by the next     *)
(* process, edits that were written are kept, and under one key the nonces *)
(* only rise.                                                              *)
(***************************************************************************)
THEOREM SettingsAreKept == CryptoSpec => []CryptoTypeOK /\ SettingsKept
<1>1. CryptoInit => CryptoInv
  BY CryptoInvInit
<1>2. CryptoInv /\ [CryptoNext]_cryptoVars => CryptoInv' /\ [NonceRises]_cryptoVars
  <2> SUFFICES ASSUME CryptoInv, [CryptoNext]_cryptoVars
               PROVE  CryptoInv' /\ [NonceRises]_cryptoVars
    OBVIOUS
  <2>1. CASE settingsCreated
    BY <2>1, CreatedKeeps
  <2>2. CASE cryptoSync
    BY <2>2, SyncKeeps
  <2>3. CASE handleResponse \/ handleResponseNothing
    BY <2>3, ResponseKeeps
  <2>4. CASE settingsLost
    BY <2>4, LostKeeps
  <2>5. CASE portalChanges \/ \E e \in Edits : settingEdited(e)
    <3>1. secretPortal' \in BOOLEAN /\ edited' \subseteq Edits
      BY <2>5, CryptoTypes DEF portalChanges, settingEdited
    <3>2. UNCHANGED <<sfile, crypt, loaded, clientRuns, secretPerToken, secretsIssued,
                      saltsMade, saved, mishaps>>
      BY <2>5 DEF portalChanges, settingEdited
    <3> QED BY <3>1, <3>2, EditedKeeps
  <2>6. CASE UNCHANGED cryptoVars
    <3>1. CryptoInv'
      BY <2>6, CryptoTypes, EditedKeeps DEF cryptoVars
    <3> QED BY <2>6, <3>1
  <2> QED BY <2>1, <2>2, <2>3, <2>4, <2>5, <2>6 DEF CryptoNext
<1>3. CryptoInv => CryptoTypeOK /\ FileOpens /\ EditsKept
  BY DEF CryptoInv
<1>4. CryptoSpec => []CryptoInv /\ [][NonceRises]_cryptoVars
  BY <1>1, <1>2, PTL DEF CryptoSpec
<1>5. CryptoSpec => []CryptoTypeOK /\ [](FileOpens /\ EditsKept)
  BY <1>3, <1>4, PTL
<1> QED BY <1>4, <1>5 DEF SettingsKept, NoncesRise, NonceRises

(***************************************************************************)
(* The local socket.  What the controller will have been told once all     *)
(* lines are read is decided by the last of them that is about the tunnel, *)
(* or by the status that the client waits for.                             *)
(***************************************************************************)

Tunnels == {"none", "pending", "up"}
SocketLines == [type : {"status", "connected", "disconnected", "logs"}, tunnel : Tunnels]

\* Lines that tell of the tunnel, and the tunnels they can be the last news of.
IsNews(line) == line.type \in {"connected", "disconnected"}
NewsFits(line, t) ==
  /\ line.type = "connected" => t \in {"up", "pending"}
  /\ line.type = "disconnected" => t \in {"none", "pending"}

\* What the controller was told agrees with the tunnel.
ToldFits(t, tell) == (t = "up" => tell = "on") /\ (t = "none" => tell # "on")

NoNewsFrom(q, n) == \A i \in n .. Len(q) : ~IsNews(q[i])

\* The lines under way fit the tunnel: the last news, and a status without news
\* after it.
LinesFit(q, t) ==
  \A i \in 1 .. Len(q) :
    NoNewsFrom(q, i + 1) =>
      /\ NewsFits(q[i], t)
      /\ q[i].type = "status" => t \in {q[i].tunnel, "pending"}

SocketInv ==
  /\ fromDaemon \in Seq(SocketLines) /\ tunnel \in Tunnels
  /\ m_daemonState \in {"Unknown", "Initializing", "Ready"}
  /\ toDaemon \in Seq({"activate", "deactivate", "status", "logs", "cleanlogs"})
  /\ link = "open" => m_daemonState # "Unknown" /\ LinesFit(fromDaemon, tunnel)
  /\ link = "open" /\ m_daemonState = "Ready" =>
       /\ ~stub
       /\ ~m_initializingTimer /\ NoNewsFrom(fromDaemon, 1) => ToldFits(tunnel, told)

\* The lines that an answer of the daemon adds.
LEMMA LinesAdded ==
  ASSUME NEW q \in Seq(SocketLines), NEW t \in Tunnels, NEW u \in Tunnels, LinesFit(q, t),
         NEW line \in SocketLines, NewsFits(line, u),
         line.type = "status" => u = line.tunnel,
         IsNews(line) \/ u = t
  PROVE  /\ q \o <<line>> \in Seq(SocketLines) /\ LinesFit(q \o <<line>>, u)
         /\ NoNewsFrom(q \o <<line>>, 1) => NoNewsFrom(q, 1) /\ u = t
<1> DEFINE r == q \o <<line>>
<1>1. <<line>> \in Seq(SocketLines) /\ Len(<<line>>) = 1 /\ <<line>>[1] = line
  OBVIOUS
<1>2. /\ r \in Seq(SocketLines) /\ Len(q) \in Nat /\ Len(r) = Len(q) + 1
      /\ \A i \in 1 .. Len(q) : r[i] = q[i]
      /\ r[Len(q) + 1] = line
  <2>1. /\ r \in Seq(SocketLines) /\ Len(r) = Len(q) + Len(<<line>>)
        /\ \A i \in 1 .. Len(q) + Len(<<line>>) :
             r[i] = IF i <= Len(q) THEN q[i] ELSE <<line>>[i - Len(q)]
    BY <1>1, ConcatProperties
  <2>2. Len(q) \in Nat /\ Len(q) + 1 \in 1 .. Len(q) + Len(<<line>>) /\ (Len(q) + 1) - Len(q) = 1
    BY <1>1
  <2> QED BY <1>1, <2>1, <2>2
<1> HIDE DEF r
<1>3. ASSUME NEW i \in 1 .. Len(r), NoNewsFrom(r, i + 1)
      PROVE  NewsFits(r[i], u) /\ (r[i].type = "status" => u \in {r[i].tunnel, "pending"})
  <2>1. CASE i = Len(q) + 1
    BY <2>1, <1>2
  <2>2. CASE i \in 1 .. Len(q)
    <3>1. ~IsNews(line) /\ u = t
      BY <1>2, <1>3, <2>2 DEF NoNewsFrom
    <3>2. NoNewsFrom(q, i + 1)
      BY <1>2, <1>3, <2>2 DEF NoNewsFrom
    <3> QED BY <1>2, <2>2, <3>1, <3>2 DEF LinesFit
  <2> QED BY <1>2, <2>1, <2>2
<1>4. NoNewsFrom(r, 1) => NoNewsFrom(q, 1) /\ u = t
  BY <1>2 DEF NoNewsFrom
<1> QED BY <1>2, <1>3, <1>4 DEF LinesFit, r

\* The daemon says a line, or nothing, and the tunnel changes with it.
LEMMA TellKeeps ==
  ASSUME SocketInv, NEW u \in Tunnels,
         UNCHANGED <<retryVars, link, stub, toldVars>>,
         toDaemon' \in Seq({"activate", "deactivate", "status", "logs", "cleanlogs"}),
         \/ Tell(<<>>, u) /\ u \in {tunnel, "pending"}
         \/ \E line \in SocketLines :
              /\ Tell(<<line>>, u) /\ NewsFits(line, u)
              /\ line.type = "status" => u = line.tunnel
              /\ IsNews(line) \/ u = tunnel
  PROVE  SocketInv'
<1>1. /\ UNCHANGED <<m_daemonState, m_initializingTimer, link, stub, told>> /\ tunnel' = u
      /\ link # "open" => UNCHANGED fromDaemon
      /\ fromDaemon \in Seq(SocketLines) /\ tunnel \in Tunnels
  BY DEF retryVars, toldVars, Tell, SocketInv
<1>2. CASE link # "open"
  BY <1>1, <1>2 DEF SocketInv
<1>3. CASE link = "open" /\ Tell(<<>>, u) /\ u \in {tunnel, "pending"}
  <2>1. fromDaemon' = fromDaemon \o <<>> /\ fromDaemon \o <<>> = fromDaemon
    BY <1>1, <1>3, ConcatEmptySeq DEF Tell
  <2>2. LinesFit(fromDaemon, u)
    BY <1>3 DEF SocketInv, LinesFit, NewsFits
  <2>3. \A t : ToldFits(tunnel, t) => ToldFits(u, t)
    BY <1>3 DEF ToldFits
  <2> QED BY <1>1, <2>1, <2>2, <2>3 DEF SocketInv
<1>4. ASSUME link = "open", NEW line \in SocketLines, Tell(<<line>>, u), NewsFits(line, u),
             line.type = "status" => u = line.tunnel, IsNews(line) \/ u = tunnel
      PROVE  SocketInv'
  <2>1. fromDaemon' = fromDaemon \o <<line>> /\ LinesFit(fromDaemon, tunnel)
    BY <1>4 DEF Tell, SocketInv
  <2>2. /\ fromDaemon \o <<line>> \in Seq(SocketLines) /\ LinesFit(fromDaemon \o <<line>>, u)
        /\ NoNewsFrom(fromDaemon \o <<line>>, 1) => NoNewsFrom(fromDaemon, 1) /\ u = tunnel
    BY <1>1, <1>4, <2>1, LinesAdded
  <2> QED BY <1>1, <2>1, <2>2 DEF SocketInv
<1> QED BY <1>2, <1>3, <1>4

\* The daemon handles a request.
LEMMA CommandKeeps ==
  ASSUME SocketInv, daemonReads
  PROVE  SocketInv'
<1> DEFINE cmd == Head(toDaemon)
           status == [type |-> "status", tunnel |-> tunnel]
<1>1. /\ toDaemon # <<>> /\ toDaemon' = Tail(toDaemon) /\ parseCommand(cmd)
      /\ UNCHANGED <<retryVars, link, stub, toldVars>>
      /\ tunnel \in Tunnels
  BY DEF daemonReads, SocketInv
<1>2. /\ cmd \in {"activate", "deactivate", "status", "logs", "cleanlogs"}
      /\ toDaemon' \in Seq({"activate", "deactivate", "status", "logs", "cleanlogs"})
  BY <1>1, HeadTailProperties DEF SocketInv
<1> HIDE DEF cmd
<1>3. /\ Line("disconnected") \in SocketLines /\ Line("disconnected").type = "disconnected"
      /\ Line("logs") \in SocketLines /\ Line("logs").type = "logs"
      /\ status \in SocketLines /\ status.type = "status" /\ status.tunnel = tunnel
  BY <1>1 DEF Line, SocketLines, Tunnels
<1>4. \/ Tell(<<>>, "pending")
      \/ Tell(<<Line("disconnected")>>, "none")
      \/ Tell(<<status>>, tunnel)
      \/ Tell(<<Line("logs")>>, tunnel)
      \/ Tell(<<>>, tunnel)
  BY <1>1, <1>2 DEF parseCommand
<1> HIDE DEF status
<1>5. CASE Tell(<<>>, "pending")
  BY <1>1, <1>2, <1>5, TellKeeps DEF Tunnels
<1>6. CASE Tell(<<Line("disconnected")>>, "none")
  BY <1>1, <1>2, <1>3, <1>6, TellKeeps DEF Tunnels, IsNews, NewsFits
<1>7. CASE Tell(<<status>>, tunnel)
  BY <1>1, <1>2, <1>3, <1>7, TellKeeps DEF NewsFits
<1>8. CASE Tell(<<Line("logs")>>, tunnel)
  BY <1>1, <1>2, <1>3, <1>8, TellKeeps DEF NewsFits
<1>9. CASE Tell(<<>>, tunnel)
  BY <1>1, <1>2, <1>9, TellKeeps
<1> QED BY <1>4, <1>5, <1>6, <1>7, <1>8, <1>9

\* A handshake makes the tunnel one that is up.
LEMMA HandshakeLineKeeps ==
  ASSUME SocketInv, daemonHandshake
  PROVE  SocketInv'
<1>1. Line("connected") \in SocketLines /\ Line("connected").type = "connected"
  BY DEF Line, SocketLines, Tunnels
<1>2. /\ Tell(<<Line("connected")>>, "up") /\ UNCHANGED <<retryVars, link, stub, toldVars>>
      /\ toDaemon' \in Seq({"activate", "deactivate", "status", "logs", "cleanlogs"})
  BY DEF daemonHandshake, SocketInv
<1> QED BY <1>1, <1>2, TellKeeps DEF Tunnels, IsNews, NewsFits

\* A line is read.
LEMMA ReadKeeps ==
  ASSUME SocketInv, readData
  PROVE  SocketInv'
<1> DEFINE line == Head(fromDaemon)
<1>1. /\ fromDaemon \in Seq(SocketLines) /\ tunnel \in Tunnels /\ link = "open"
      /\ fromDaemon # <<>> /\ fromDaemon' = Tail(fromDaemon) /\ stub' = FALSE
      /\ UNCHANGED <<link, toDaemon, tunnel>>
      /\ m_daemonState \in {"Initializing", "Ready"}
      /\ LinesFit(fromDaemon, tunnel)
  BY DEF readData, SocketInv, daemonSideVars
<1>2. /\ line \in SocketLines /\ line = fromDaemon[1] /\ Len(fromDaemon) \in Nat /\ Len(fromDaemon) > 0
      /\ fromDaemon' \in Seq(SocketLines) /\ Len(fromDaemon') = Len(fromDaemon) - 1
      /\ \A i \in 1 .. Len(fromDaemon') : fromDaemon'[i] = fromDaemon[i + 1]
  BY <1>1, HeadTailProperties
<1>3. \A i \in 2 .. Len(fromDaemon) : i - 1 \in 1 .. Len(fromDaemon') /\ fromDaemon[i] = fromDaemon'[i - 1]
  BY <1>2
<1>4. \/ stub /\ UNCHANGED <<m_daemonState, m_initializingTimer, told>>
      \/ ~stub /\ line.type = "status" /\ parseStatus(line.tunnel)
      \/ ~stub /\ line.type # "status" /\ parseOther(line.type)
  BY DEF readData, toldVars
<1> HIDE DEF line
<1>5. LinesFit(fromDaemon', tunnel)
  <2> SUFFICES ASSUME NEW i \in 1 .. Len(fromDaemon'), NoNewsFrom(fromDaemon', i + 1)
               PROVE  /\ NewsFits(fromDaemon'[i], tunnel)
                      /\ fromDaemon'[i].type = "status" => tunnel \in {fromDaemon'[i].tunnel, "pending"}
    BY DEF LinesFit
  <2>1. i + 1 \in 1 .. Len(fromDaemon) /\ NoNewsFrom(fromDaemon, (i + 1) + 1)
    BY <1>2, <1>3 DEF NoNewsFrom
  <2> QED BY <1>1, <1>2, <2>1 DEF LinesFit
<1>6. NoNewsFrom(fromDaemon', 1) => NoNewsFrom(fromDaemon, 1 + 1) /\ (~IsNews(line) => NoNewsFrom(fromDaemon, 1))
  BY <1>2, <1>3 DEF NoNewsFrom
<1>7. NoNewsFrom(fromDaemon', 1) =>
        NewsFits(line, tunnel) /\ (line.type = "status" => tunnel \in {line.tunnel, "pending"})
  BY <1>1, <1>2, <1>6 DEF LinesFit
<1>8. m_daemonState' \in {"Initializing", "Ready"}
  BY <1>1, <1>4 DEF parseStatus, parseOther
<1>9. ASSUME m_daemonState' = "Ready", ~m_initializingTimer', NoNewsFrom(fromDaemon', 1)
      PROVE  ToldFits(tunnel, told')
  <2>1. CASE stub /\ UNCHANGED <<m_daemonState, m_initializingTimer, told>>
    BY <2>1, <1>1, <1>9 DEF SocketInv
  <2>2. CASE line.type = "status" /\ parseStatus(line.tunnel)
    <3>1. ~IsNews(line) /\ NoNewsFrom(fromDaemon, 1) /\ ~m_initializingTimer
      BY <1>6, <1>9, <2>2 DEF IsNews, parseStatus
    <3>2. CASE m_daemonState = "Initializing"
      <4>1. initialized(line.tunnel)
        BY <2>2, <3>2 DEF parseStatus
      <4> QED BY <4>1, <1>1, <1>7, <1>9, <2>2 DEF initialized, ToldFits, Tunnels
    <3>3. CASE m_daemonState = "Ready"
      BY <2>2, <3>1, <3>3, <1>1 DEF parseStatus, toldVars, SocketInv
    <3> QED BY <3>2, <3>3, <1>1
  <2>3. CASE line.type # "status" /\ parseOther(line.type)
    <3>1. m_daemonState = "Ready"
      BY <2>3, <1>9 DEF parseOther
    <3>2. CASE line.type = "disconnected"
      BY <2>3, <3>1, <3>2, <1>7, <1>9 DEF parseOther, NewsFits, ToldFits
    <3>3. CASE line.type = "connected"
      BY <2>3, <3>1, <3>3, <1>7, <1>9 DEF parseOther, NewsFits, ToldFits
    <3>4. CASE line.type \notin {"connected", "disconnected"}
      <4>1. ~m_initializingTimer /\ told' = told /\ NoNewsFrom(fromDaemon, 1)
        BY <2>3, <3>1, <3>4, <1>6, <1>9 DEF parseOther, IsNews, toldVars
      <4> QED BY <4>1, <3>1, <1>1 DEF SocketInv
    <3> QED BY <3>2, <3>3, <3>4
  <2> QED BY <2>1, <2>2, <2>3, <1>4
<1> QED BY <1>1, <1>2, <1>5, <1>8, <1>9 DEF SocketInv

\* The client looks for the daemon.
LEMMA InitializeKeeps ==
  ASSUME SocketInv, lsInitialize \/ initializingTimeout
  PROVE  SocketInv'
<1>1. /\ m_daemonState' = "Initializing" /\ fromDaemon' = <<>> /\ tunnel' = tunnel
      /\ toDaemon' \in {<<"status">>, <<>>}
  BY DEF lsInitialize, initializingTimeout, initializeInternal, daemonSideVars
<1>2. fromDaemon' \in Seq(SocketLines) /\ Len(fromDaemon') = 0
  BY <1>1
<1>3. /\ <<"status">> \in Seq({"activate", "deactivate", "status", "logs", "cleanlogs"})
      /\ <<>> \in Seq({"activate", "deactivate", "status", "logs", "cleanlogs"})
  OBVIOUS
<1>4. LinesFit(fromDaemon', tunnel)
  BY <1>2 DEF LinesFit
<1> QED BY <1>1, <1>2, <1>3, <1>4 DEF SocketInv

\* A request is sent or is lost.
LEMMA AskKeeps ==
  ASSUME SocketInv, NEW line \in {"activate", "deactivate", "status", "logs", "cleanlogs"},
         Asks(line), UNCHANGED told
  PROVE  SocketInv'
<1>1. /\ UNCHANGED <<m_daemonState, m_initializingTimer, link, stub, fromDaemon, tunnel>>
      /\ toDaemon' = toDaemon \/ toDaemon' = Append(toDaemon, line)
  BY DEF Asks, write, retryVars, daemonSideVars
<1>2. toDaemon' \in Seq({"activate", "deactivate", "status", "logs", "cleanlogs"})
  BY <1>1, AppendProperties DEF SocketInv
<1> QED BY <1>1, <1>2 DEF SocketInv

\* The connection breaks, an answer fails to come, or there is no daemon to ask.
LEMMA FailureKeeps ==
  ASSUME SocketInv, socketDisconnected \/ responseTimeout \/ deactivateNotReady
  PROVE  SocketInv'
<1>1. CASE socketDisconnected
  <2>1. link' = "closed" /\ toDaemon' = <<>> /\ fromDaemon' = <<>> /\ UNCHANGED <<m_daemonState, tunnel>>
    BY <1>1 DEF socketDisconnected, daemonSideVars
  <2> QED BY <2>1 DEF SocketInv
<1>2. CASE responseTimeout
  <2>1. /\ UNCHANGED <<m_daemonState, link, stub, toDaemon, fromDaemon, tunnel>>
        /\ m_initializingTimer' = TRUE
    BY <1>2 DEF responseTimeout, errorOccurred, daemonSideVars
  <2> QED BY <2>1 DEF SocketInv
<1>3. CASE deactivateNotReady
  <2>1. /\ UNCHANGED <<m_daemonState, link, stub, toDaemon, fromDaemon, tunnel>>
        /\ m_daemonState # "Ready"
    BY <1>3 DEF deactivateNotReady, retryVars, daemonSideVars
  <2> QED BY <2>1 DEF SocketInv
<1> QED BY <1>1, <1>2, <1>3

\* The daemon dies or is started.
LEMMA DaemonRunKeeps ==
  ASSUME SocketInv, daemonCrash \/ daemonStart
  PROVE  SocketInv'
<1>1. CASE daemonCrash
  <2>1. /\ link' # "open" /\ toDaemon' = <<>> /\ fromDaemon' = <<>> /\ tunnel' = "none"
        /\ UNCHANGED m_daemonState
    BY <1>1 DEF daemonCrash, retryVars
  <2> QED BY <2>1 DEF SocketInv, Tunnels
<1>2. CASE daemonStart
  <2>1. UNCHANGED <<m_daemonState, m_initializingTimer, link, stub, toDaemon, fromDaemon, tunnel, told>>
    BY <1>2 DEF daemonStart, retryVars, toldVars
  <2> QED BY <2>1 DEF SocketInv
<1> QED BY <1>1, <1>2

\* ControllerKnows, for any number of lines under way and with answers that are
\* late: with nothing left to read, the controller was told of a tunnel that is
\* up and of the end of one that is gone, however often the daemon crashed and
\* the client gave connections up in between.
THEOREM SocketTells == SocketSpec => []ControllerKnows
<1>1. SocketInit => SocketInv
  BY DEF SocketInit, SocketInv, Tunnels
<1>2. ASSUME SocketInv, [SocketNext]_socketVars PROVE SocketInv'
  <2>1. CASE lsActivate \/ deactivateReady \/ lsCheckStatus \/ getBackendLogs \/ cleanupBackendLogs
    BY <1>2, <2>1, AskKeeps DEF lsActivate, deactivateReady, lsCheckStatus, getBackendLogs,
       cleanupBackendLogs, toldVars
  <2>2. CASE UNCHANGED socketVars
    <3>1. UNCHANGED <<m_daemonState, m_initializingTimer, link, stub, toDaemon, fromDaemon, tunnel, told>>
      BY <2>2 DEF socketVars
    <3> QED BY <1>2, <3>1 DEF SocketInv
  <2> QED BY <1>2, <2>1, <2>2, InitializeKeeps, FailureKeeps, ReadKeeps, CommandKeeps,
             HandshakeLineKeeps, DaemonRunKeeps DEF SocketNext, ClientSideNext
<1>3. SocketInv => ControllerKnows
  <2> SUFFICES ASSUME SocketInv, fromDaemon = <<>> PROVE ControllerKnows
    BY DEF ControllerKnows
  <2>1. NoNewsFrom(fromDaemon, 1)
    BY DEF NoNewsFrom
  <2> QED BY <2>1 DEF SocketInv, ControllerKnows, ToldFits
<1> QED BY <1>1, <1>2, <1>3, PTL DEF SocketSpec

(***************************************************************************)
(* The connection's health: pings are sent only while connected, so a      *)
(* check that goes on without a tunnel is due to an answer handled since.  *)
(***************************************************************************)

HealthInv == ChecksNeedTunnel /\ (pinging => hctl = "On")

\* ChecksNeedTunnel, for any window, limits and number of queries: no status,
\* however late, starts a check of a connection that is gone.
THEOREM ChecksFollowTunnel == HealthSpec => []ChecksNeedTunnel
<1>1. HealthInit => HealthInv
  BY DEF HealthInit, HealthInv, ChecksNeedTunnel
<1>2. ASSUME HealthInv, [HealthNext]_healthVars PROVE HealthInv'
  <2>1. ASSUME NEW s \in {"Initializing", "Off", "Busy", "On"}, NEW cleared \in BOOLEAN,
               controllerChanges(s, cleared)
        PROVE  HealthInv'
    <3>1. CASE s = "On"
      <4>1. hctl' = "On" /\ UNCHANGED <<pinging, m_healthCheckTimer, lateAnswer>>
        BY <2>1, <3>1 DEF controllerChanges, ringVars, checkVars
      <4> QED BY <4>1, <1>2 DEF HealthInv, ChecksNeedTunnel
    <3>2. CASE s # "On"
      <4>1. pinging' = FALSE /\ m_healthCheckTimer' = FALSE
        BY <2>1, <3>2 DEF controllerChanges, startIdle, stopAll, pingStop, stopChecks
      <4> QED BY <4>1 DEF HealthInv, ChecksNeedTunnel
    <3> QED BY <3>1, <3>2
  <2>2. CASE statusUpdated
    <3>1. UNCHANGED hctl /\ (startActive \/ UNCHANGED <<pinging, m_healthCheckTimer, lateAnswer>>)
      BY <2>2 DEF statusUpdated, ringVars, checkVars
    <3>2. hctl = "On" \/ UNCHANGED <<pinging, m_healthCheckTimer, lateAnswer>>
      BY <3>1 DEF startActive, ringVars, checkVars
    <3> QED BY <3>1, <3>2, <1>2 DEF HealthInv, ChecksNeedTunnel
  <2>3. ASSUME NEW q \in pongs, pingReceived(q) PROVE HealthInv'
    <3>1. /\ UNCHANGED <<hctl, pinging>>
          /\ \/ lateAnswer' = (lateAnswer \/ ~pinging)
             \/ UNCHANGED <<m_healthCheckTimer, lateAnswer>>
      BY <2>3 DEF pingReceived, queryVars, checkVars
    <3>2. CASE lateAnswer' = (lateAnswer \/ ~pinging)
      BY <3>1, <3>2, <1>2 DEF HealthInv, ChecksNeedTunnel
    <3>3. CASE UNCHANGED <<m_healthCheckTimer, lateAnswer>>
      BY <3>1, <3>3, <1>2 DEF HealthInv, ChecksNeedTunnel
    <3> QED BY <3>1, <3>2, <3>3
  <2>4. CASE \/ statusFails \/ nextPing \/ healthCheckTimeout \/ dnsPingReceived \/ criticalPingError
             \/ netChanges \/ second \/ UNCHANGED healthVars
             \/ \E q \in flying, again \in BOOLEAN : pongArrives(q, again)
    <3>1. UNCHANGED <<hctl, pinging, m_healthCheckTimer, lateAnswer>>
      BY <2>4 DEF statusFails, nextPing, healthCheckTimeout, dnsPingReceived, criticalPingError,
         netChanges, second, pongArrives, healthVars, ringVars, checkVars, queryVars
    <3> QED BY <3>1, <1>2 DEF HealthInv, ChecksNeedTunnel
  <2> QED BY <1>2, <2>1, <2>2, <2>3, <2>4 DEF HealthNext
<1>3. HealthInv => ChecksNeedTunnel
  BY DEF HealthInv
<1> QED BY <1>1, <1>2, <1>3, PTL DEF HealthSpec

(***************************************************************************)
(* The detection of captive portals.  The object listens to one task as    *)
(* long as that task is in the queue, and to none that was deleted.        *)
(***************************************************************************)

\* The tasks that somebody listens to.
HeardIn(q) == {i \in 1 .. Len(q) : q[i]}

\* At most one task is listened to, the one of the detection there is.
Listens(q, has, lost) ==
  /\ \A i, j \in HeardIn(q) : i = j
  /\ has <=> HeardIn(q) # {} \/ lost
  /\ lost => HeardIn(q) = {}

\* The requests belong to the first task of the queue.
AskingFits(a, q) ==
  /\ a \in [running : Nat, success : Nat, retry : BOOLEAN, on : BOOLEAN]
  /\ a.running + a.success <= Addresses
  /\ a.running > 0 \/ a.retry => a.on
  /\ a.on => q # <<>>

PortalInv ==
  /\ portalCtl \in {"Off", "Connecting", "On", "Other"}
  /\ {unstable, m_active, m_shouldRun, detecting, behindPortal, deleted, round} \subseteq BOOLEAN
  /\ detections \in Seq(BOOLEAN) /\ Len(detections) <= MaxDetections
  /\ AskingFits(asking, detections)
  /\ Listens(detections, detecting, deleted)

\* Nobody listens any more.
LEMMA UnheardHas ==
  ASSUME detections \in Seq(BOOLEAN)
  PROVE  /\ Unheard \in Seq(BOOLEAN) /\ Len(Unheard) = Len(detections) /\ HeardIn(Unheard) = {}
         /\ Append(Unheard, TRUE) \in Seq(BOOLEAN) /\ Append(Unheard, TRUE) # <<>>
         /\ Len(Append(Unheard, TRUE)) = Len(detections) + 1
         /\ HeardIn(Append(Unheard, TRUE)) = {Len(detections) + 1}
<1> DEFINE u == Unheard
           n == Len(detections)
           r == Append(u, TRUE)
<1>1. n \in Nat /\ DOMAIN detections = 1 .. n
  OBVIOUS
<1>2. u = [i \in 1 .. n |-> FALSE]
  BY <1>1 DEF Unheard
<1>3. FALSE \in BOOLEAN /\ TRUE \in BOOLEAN
  OBVIOUS
<1> HIDE DEF u, n
<1>4. u \in Seq(BOOLEAN) /\ Len(u) = n /\ \A i \in 1 .. n : u[i] = FALSE
  BY <1>1, <1>2, <1>3
<1>5. HeardIn(u) = {}
  BY <1>4 DEF HeardIn
<1>6. /\ r \in Seq(BOOLEAN) /\ r # <<>> /\ Len(r) = n + 1
      /\ \A i \in 1 .. n : r[i] = u[i]
      /\ r[n + 1] = TRUE
  <2>1. /\ r \in Seq(BOOLEAN) /\ r # <<>> /\ Len(r) = Len(u) + 1
        /\ \A i \in 1 .. Len(u) : r[i] = u[i]
        /\ r[Len(u) + 1] = TRUE
    <3>1. \A S : \A q \in Seq(S) : \A e \in S :
            /\ Append(q, e) \in Seq(S) /\ Append(q, e) # <<>> /\ Len(Append(q, e)) = Len(q) + 1
            /\ \A i \in 1 .. Len(q) : Append(q, e)[i] = q[i]
            /\ Append(q, e)[Len(q) + 1] = e
      BY AppendProperties
    <3> QED BY <1>3, <1>4, <3>1, Zenon
  <2> QED BY <1>4, <2>1, Zenon
<1> HIDE DEF r
<1>7. HeardIn(r) = {n + 1}
  <2>1. n + 1 \in 1 .. Len(r)
    BY <1>1, <1>6
  <2>2. \A i \in 1 .. Len(r) : i \in 1 .. n \/ i = n + 1
    BY <1>1, <1>6
  <2>3. \A i \in 1 .. n : r[i] = FALSE
    BY <1>4, <1>6
  <2> QED BY <2>1, <2>2, <2>3, <1>6 DEF HeardIn
<1> QED BY <1>4, <1>5, <1>6, <1>7 DEF u, n, r

\* What the slots of the detection do to the queue.
LEMMA DetectionKeeps ==
  ASSUME PortalInv, NEW st, dropDetection \/ detectCaptivePortal(st) \/ UNCHANGED detectionVars,
         UNCHANGED asking
  PROVE  /\ {detecting', deleted', round'} \subseteq BOOLEAN
         /\ detections' \in Seq(BOOLEAN) /\ Len(detections') <= MaxDetections
         /\ AskingFits(asking', detections') /\ Listens(detections', detecting', deleted')
<1>1. detections \in Seq(BOOLEAN) /\ Len(detections) \in Nat
      /\ Len(detections) <= MaxDetections /\ MaxDetections \in Nat
      /\ AskingFits(asking, detections)
      /\ (detections # <<>> <=> Len(detections) > 0)
      /\ round \in BOOLEAN /\ deleted \in BOOLEAN /\ detecting \in BOOLEAN
  BY PortalAssumption, EmptySeq DEF PortalInv
<1>2. CASE dropDetection
  <2>1. detecting' = FALSE /\ detections' = Unheard /\ deleted' = FALSE /\ round' = round
    BY <1>2 DEF dropDetection
  <2>2. /\ Unheard \in Seq(BOOLEAN) /\ Len(Unheard) = Len(detections) /\ HeardIn(Unheard) = {}
    BY <1>1, UnheardHas
  <2>3. Unheard # <<>> <=> detections # <<>>
    BY <1>1, <2>2, EmptySeq
  <2>4. AskingFits(asking', detections')
    BY <1>1, <2>1, <2>3 DEF AskingFits
  <2>5. Listens(detections', detecting', deleted')
    BY <2>1, <2>2 DEF Listens
  <2> QED BY <1>1, <2>1, <2>2, <2>4, <2>5
<1>3. CASE detectCaptivePortal(st) /\ ~UNCHANGED detectionVars
  <2>1. /\ Len(detections) < MaxDetections /\ detecting' = TRUE
        /\ detections' = Append(Unheard, TRUE) /\ deleted' = FALSE /\ round' = ~round
    BY <1>3 DEF detectCaptivePortal
  <2>2. /\ Append(Unheard, TRUE) \in Seq(BOOLEAN) /\ Append(Unheard, TRUE) # <<>>
        /\ Len(Append(Unheard, TRUE)) = Len(detections) + 1
        /\ HeardIn(Append(Unheard, TRUE)) = {Len(detections) + 1}
    BY <1>1, UnheardHas
  <2>3. AskingFits(asking', detections')
    BY <1>1, <2>1, <2>2 DEF AskingFits
  <2>4. Listens(detections', detecting', deleted')
    BY <2>1, <2>2 DEF Listens
  <2>5. Len(detections') <= MaxDetections
    BY <1>1, <2>1, <2>2
  <2>6. {detecting', deleted', round'} \subseteq BOOLEAN
    BY <2>1
  <2> QED BY <2>1, <2>2, <2>3, <2>4, <2>5, <2>6
<1>4. CASE UNCHANGED detectionVars
  BY <1>4 DEF detectionVars, PortalInv
<1> QED BY <1>2, <1>3, <1>4

\* A task is done.
LEMMA CompletionKeeps ==
  ASSUME PortalInv, detections # <<>>, NEW portal \in BOOLEAN, Completed(portal)
  PROVE  PortalInv'
<1> DEFINE t == Tail(detections)
<1>1. detections \in Seq(BOOLEAN) /\ Listens(detections, detecting, deleted)
      /\ Len(detections) <= MaxDetections /\ MaxDetections \in Nat /\ Addresses \in Nat
      /\ detecting \in BOOLEAN /\ behindPortal \in BOOLEAN /\ m_active \in BOOLEAN
      /\ m_shouldRun \in BOOLEAN /\ deleted \in BOOLEAN
  BY PortalAssumption DEF PortalInv
<1>2. /\ t \in Seq(BOOLEAN) /\ Len(t) = Len(detections) - 1 /\ Len(detections) \in Nat
      /\ Len(detections) > 0 /\ Head(detections) = detections[1] /\ detections[1] \in BOOLEAN
      /\ \A i \in 1 .. Len(t) : t[i] = detections[i + 1]
  BY <1>1, HeadTailProperties
<1>3. detections' = t /\ asking' = NotAsking
      /\ UNCHANGED <<portalCtl, unstable, m_active, deleted, round>>
  BY DEF Completed
<1>4. AskingFits(asking', detections')
  BY <1>1, <1>3 DEF AskingFits, NotAsking
<1> HIDE DEF t
<1>5. \A i \in 1 .. Len(t) : i + 1 \in 1 .. Len(detections)
  BY <1>2
<1>6. \A i \in HeardIn(t) : i + 1 \in HeardIn(detections) /\ i \in Nat
  BY <1>2, <1>5 DEF HeardIn
<1>7. \A i \in HeardIn(detections) : i = 1 \/ i - 1 \in HeardIn(t)
  <2>1. \A i \in 1 .. Len(detections) : i = 1 \/ (i - 1 \in 1 .. Len(t) /\ t[i - 1] = detections[i])
    BY <1>2
  <2> QED BY <2>1 DEF HeardIn
<1>8. CASE Head(detections)
  <2>1. detecting' = FALSE /\ m_shouldRun' = FALSE /\ behindPortal' = (behindPortal \/ (portal /\ m_active))
    BY <1>8 DEF Completed
  <2>2. 1 \in HeardIn(detections)
    <3>1. 1 \in 1 .. Len(detections)
      BY <1>2
    <3>2. detections[1]
      BY <1>2, <1>8, Zenon
    <3> QED BY <3>1, <3>2 DEF HeardIn
  <2>3. HeardIn(t) = {}
    <3>1. ASSUME NEW i \in HeardIn(t) PROVE FALSE
      <4>1. i + 1 = 1 /\ i \in Nat /\ i \in 1 .. Len(t)
        BY <1>1, <1>6, <2>2 DEF Listens, HeardIn
      <4> QED BY <4>1, <1>2
    <3> QED BY <3>1
  <2>4. deleted = FALSE
    BY <1>1, <2>2 DEF Listens
  <2>5. Listens(detections', detecting', deleted')
    BY <1>3, <2>1, <2>3, <2>4 DEF Listens
  <2>6. {detecting', m_shouldRun', behindPortal'} \subseteq BOOLEAN
    BY <2>1
  <2>7. Len(detections') <= MaxDetections
    BY <1>1, <1>2, <1>3
  <2> QED BY <1>2, <1>3, <1>4, <2>5, <2>6, <2>7 DEF PortalInv
<1>9. CASE ~Head(detections)
  <2>1. UNCHANGED <<detecting, m_shouldRun, behindPortal>>
    BY <1>9 DEF Completed
  <2>2. 1 \notin HeardIn(detections)
    BY <1>2, <1>9 DEF HeardIn
  <2>3. HeardIn(t) = {} <=> HeardIn(detections) = {}
    BY <1>6, <1>7, <2>2
  <2>4. ASSUME NEW i \in HeardIn(t), NEW j \in HeardIn(t) PROVE i = j
    <3>1. i + 1 = j + 1 /\ i \in Nat /\ j \in Nat
      BY <1>1, <1>6 DEF Listens
    <3> QED BY <3>1
  <2>5. Listens(detections', detecting', deleted')
    BY <1>1, <1>3, <2>1, <2>3, <2>4 DEF Listens
  <2>7. Len(detections') <= MaxDetections
    BY <1>1, <1>2, <1>3
  <2> QED BY <1>2, <1>3, <1>4, <2>1, <2>5, <2>7 DEF PortalInv
<1> QED BY <1>8, <1>9

\* The requests of the first task change.
LEMMA AskingKeeps ==
  ASSUME PortalInv, AskingFits(asking', detections),
         UNCHANGED <<portalCtl, unstable, m_active, m_shouldRun, detectionVars, behindPortal>>
  PROVE  PortalInv'
BY DEF PortalInv, detectionVars

\* An answer to a request.
LEMMA AnswerKeeps ==
  ASSUME PortalInv, NEW result \in {"NoPortal", "PortalDetected", "Failure"}, requestAnswered(result)
  PROVE  PortalInv'
<1> DEFINE left == [asking EXCEPT
                !.running = @ - 1, !.success = IF result = "NoPortal" THEN @ + 1 ELSE @]
<1>1. /\ asking \in [running : Nat, success : Nat, retry : BOOLEAN, on : BOOLEAN]
      /\ asking.running > 0 /\ asking.running + asking.success <= Addresses
      /\ asking.on /\ detections # <<>> /\ Addresses \in Nat
  BY PortalAssumption DEF PortalInv, AskingFits, requestAnswered
<1>2. \/ \E portal \in BOOLEAN : Completed(portal)
      \/ /\ asking' = [left EXCEPT !.retry = left.running = 0]
         /\ UNCHANGED <<portalCtl, unstable, m_active, m_shouldRun, detectionVars, behindPortal>>
  BY DEF requestAnswered
<1>3. /\ left \in [running : Nat, success : Nat, retry : BOOLEAN, on : BOOLEAN]
      /\ left.running + left.success <= Addresses /\ left.on = asking.on
  <2>1. asking.running - 1 \in Nat /\ asking.success + 1 \in Nat
    BY <1>1
  <2>2. /\ left.running = asking.running - 1 /\ left.on = asking.on
        /\ left.success \in {asking.success, asking.success + 1}
    BY <1>1
  <2>3. left \in [running : Nat, success : Nat, retry : BOOLEAN, on : BOOLEAN]
    BY <1>1, <2>1
  <2> HIDE DEF left
  <2> QED BY <1>1, <2>2, <2>3
<1> HIDE DEF left
<1>4. CASE asking' = [left EXCEPT !.retry = left.running = 0]
    /\ UNCHANGED <<portalCtl, unstable, m_active, m_shouldRun, detectionVars, behindPortal>>
  <2>1. (left.running = 0) \in BOOLEAN
    OBVIOUS
  <2>2. /\ asking' \in [running : Nat, success : Nat, retry : BOOLEAN, on : BOOLEAN]
        /\ asking'.running = left.running /\ asking'.success = left.success /\ asking'.on = left.on
    BY <1>3, <1>4, <2>1
  <2>3. AskingFits(asking', detections)
    BY <1>1, <1>3, <2>2 DEF AskingFits
  <2> QED BY <1>4, <2>3, AskingKeeps
<1> QED BY <1>1, <1>2, <1>4, CompletionKeeps

\* A new try starts with all requests.
LEMMA AskingStarts == \A q : q # <<>> => AskingFits(Asking, q)
<1>1. Addresses \in Nat
  BY PortalAssumption
<1>2. /\ Asking.running = Addresses /\ Asking.success = 0 /\ Asking.on = TRUE
      /\ Asking \in [running : Nat, success : Nat, retry : BOOLEAN, on : BOOLEAN]
  BY <1>1 DEF Asking, NotAsking
<1> QED BY <1>1, <1>2 DEF AskingFits

\* OneVerdict, for any number of addresses and of tasks in the queue: at most one
\* task is listened to, and there is a detection just when there is such a task
\* or it was deleted.
THEOREM PortalHasOneVerdict == PortalSpec => [](PortalTypeOK /\ OneVerdict)
<1>1. PortalInit => PortalInv
  <2> SUFFICES ASSUME PortalInit PROVE PortalInv
    OBVIOUS
  <2>1. detections = <<>> /\ Len(<<>>) = 0 /\ <<>> \in Seq(BOOLEAN) /\ 0 <= MaxDetections
    BY PortalAssumption DEF PortalInit
  <2>2. Listens(detections, detecting, deleted)
    BY <2>1 DEF PortalInit, Listens, HeardIn
  <2>3. AskingFits(asking, detections)
    BY PortalAssumption DEF PortalInit, AskingFits, NotAsking
  <2>4. {unstable, m_active, m_shouldRun, detecting, behindPortal, deleted, round} \subseteq BOOLEAN
    BY DEF PortalInit
  <2> QED BY <2>1, <2>2, <2>3, <2>4 DEF PortalInit, PortalInv
<1>2. ASSUME PortalInv, [PortalNext]_portalVars PROVE PortalInv'
  <2>1. ASSUME NEW state \in {"Off", "Connecting", "On", "Other"}, NEW shaky \in BOOLEAN,
               somethingChanges(state, shaky)
        PROVE  PortalInv'
    <3>1. /\ portalCtl' = state /\ unstable' = shaky /\ behindPortal' \in {FALSE, behindPortal}
          /\ UNCHANGED <<m_active, asking>> /\ m_shouldRun' \in {m_shouldRun, TRUE}
          /\ dropDetection \/ detectCaptivePortal(state) \/ UNCHANGED detectionVars
      BY <2>1 DEF somethingChanges, portalStateChanged
    <3>2. /\ {detecting', deleted', round'} \subseteq BOOLEAN
          /\ detections' \in Seq(BOOLEAN) /\ Len(detections') <= MaxDetections
          /\ AskingFits(asking', detections') /\ Listens(detections', detecting', deleted')
      BY <1>2, <3>1, DetectionKeeps
    <3> QED BY <1>2, <2>1, <3>1, <3>2 DEF PortalInv
  <2>2. CASE networkChanged \/ settingsChanged
    <3>1. /\ UNCHANGED <<portalCtl, unstable, m_shouldRun, asking, behindPortal>>
          /\ m_active' \in {m_active, ~m_active}
          /\ dropDetection \/ detectCaptivePortal(portalCtl) \/ UNCHANGED detectionVars
      BY <2>2 DEF networkChanged, settingsChanged
    <3>2. /\ {detecting', deleted', round'} \subseteq BOOLEAN
          /\ detections' \in Seq(BOOLEAN) /\ Len(detections') <= MaxDetections
          /\ AskingFits(asking', detections') /\ Listens(detections', detecting', deleted')
      BY <1>2, <3>1, DetectionKeeps
    <3> QED BY <1>2, <3>1, <3>2 DEF PortalInv
  <2>3. CASE runDetection
    <3>1. detections # <<>> /\ (Completed(FALSE) \/
            (asking' = Asking /\ UNCHANGED <<portalCtl, unstable, m_active, m_shouldRun, detectionVars, behindPortal>>))
      BY <2>3 DEF runDetection
    <3> QED BY <1>2, <3>1, CompletionKeeps, AskingStarts, AskingKeeps
  <2>4. CASE retryTimeout
    <3>1. detections # <<>> /\ asking' = Asking
          /\ UNCHANGED <<portalCtl, unstable, m_active, m_shouldRun, detectionVars, behindPortal>>
      BY <1>2, <2>4 DEF retryTimeout, PortalInv, AskingFits
    <3> QED BY <1>2, <3>1, AskingStarts, AskingKeeps
  <2>5. CASE detectionTimeout
    <3>1. detections # <<>> /\ Completed(FALSE)
      BY <1>2, <2>5 DEF detectionTimeout, PortalInv, AskingFits
    <3> QED BY <1>2, <3>1, CompletionKeeps
  <2>6. CASE tasksDeleted
    <3>1. /\ detections' = <<>> /\ asking' = NotAsking
          /\ deleted' = (deleted \/ TRUE \in Range(detections))
          /\ UNCHANGED <<portalCtl, unstable, m_active, m_shouldRun, detecting, behindPortal, round>>
      BY <2>6 DEF tasksDeleted
    <3>2. detections \in Seq(BOOLEAN) /\ DOMAIN detections = 1 .. Len(detections)
          /\ \A i \in 1 .. Len(detections) : detections[i] \in BOOLEAN
      BY <1>2 DEF PortalInv
    <3>3. TRUE \in Range(detections) <=> HeardIn(detections) # {}
      BY <3>2 DEF Range, HeardIn
    <3>4. Len(<<>>) = 0 /\ <<>> \in Seq(BOOLEAN) /\ 0 <= MaxDetections
      BY PortalAssumption
    <3>5. Listens(detections', detecting', deleted')
      <4>1. HeardIn(detections') = {}
        BY <3>1, <3>4 DEF HeardIn
      <4>2. detecting' <=> deleted'
        BY <1>2, <3>1, <3>3 DEF PortalInv, Listens
      <4> QED BY <4>1, <4>2 DEF Listens
    <3>6. AskingFits(asking', detections')
      BY <3>1, PortalAssumption DEF AskingFits, NotAsking
    <3>7. deleted' \in BOOLEAN
      BY <3>1
    <3> QED BY <1>2, <3>1, <3>4, <3>5, <3>6, <3>7 DEF PortalInv
  <2>7. CASE UNCHANGED portalVars
    BY <1>2, <2>7 DEF portalVars, detectionVars, PortalInv
  <2> QED BY <1>2, <2>1, <2>2, <2>3, <2>4, <2>5, <2>6, <2>7, AnswerKeeps DEF PortalNext
<1>3. PortalInv => PortalTypeOK /\ OneVerdict
  <2> SUFFICES ASSUME PortalInv PROVE PortalTypeOK /\ OneVerdict
    OBVIOUS
  <2>1. asking \in [running : 0 .. Addresses, success : 0 .. Addresses, retry : BOOLEAN, on : BOOLEAN]
    BY PortalAssumption DEF PortalInv, AskingFits
  <2>2. DOMAIN detections = 1 .. Len(detections)
    BY DEF PortalInv
  <2>3. OneVerdict
    BY <2>2 DEF OneVerdict, PortalInv, Listens, HeardIn
  <2>4. PortalTypeOK
    BY <2>1 DEF PortalInv, PortalTypeOK, AskingFits
  <2> QED BY <2>3, <2>4
<1> QED BY <1>1, <1>2, <1>3, PTL DEF PortalSpec

(***************************************************************************)
(* The servers' latency.  A list of pings is looked at from its head, so   *)
(* it must be in the order of their ages: what is sent, again or for the   *)
(* first time, has age 0 and goes to the end.                              *)
(***************************************************************************)

\* A list of pings in the order in which they time out.
InOrderOfAge(list) ==
  /\ list \in Seq(PingRecord)
  /\ \A i, j \in 1 .. Len(list) : i < j => list[i].age >= list[j].age

\* Pings that have just been sent, or are about to be.
JustSent(list) ==
  /\ list \in Seq(PingRecord)
  /\ \A i \in 1 .. Len(list) : list[i].age = 0

\* The constants.
LEMMA LatencyConstants ==
  /\ MAX_PARALLEL \in Nat /\ MAX_PARALLEL > 0 /\ LATENCY_TIMEOUT \in Nat /\ LATENCY_TIMEOUT > 0
  /\ COOLDOWN \in Nat /\ COOLDOWN > 0 /\ LatSeqTurn \in Nat /\ LatSeqTurn > 0
  /\ MAX_RETRIES \in Nat
  /\ ByDistance \in Seq(Servers) /\ ByDistance # <<>>
<1>1. {MAX_PARALLEL, LATENCY_TIMEOUT, COOLDOWN, LatSeqTurn} \subseteq Nat \ {0} /\ MAX_RETRIES \in Nat
  BY LatencyAssumption
<1>2. ByDistance \in Seq(Servers) /\ ByDistance # <<>>
  BY LatencyAssumption DEF Servers
<1> QED BY <1>1, <1>2

\* A set of positions has a first one, which is its Min.
LEMMA LeastOf ==
  ASSUME NEW T, T \subseteq Nat, T # {}
  PROVE  Min(T) \in T
<1>1. \E x \in T : \A y \in T : ~(<<y, x>> \in OpToRel(<, Nat))
  BY NatLessThanWellFounded, WFMin
<1>2. PICK x \in T : \A y \in T : ~(<<y, x>> \in OpToRel(<, Nat))
  BY <1>1
<1>3. \A y, z \in Nat : <<y, z>> \in OpToRel(<, Nat) <=> y < z
  BY DEF OpToRel
<1>4. ASSUME NEW y \in T PROVE x <= y
  <2>1. x \in Nat /\ y \in Nat
    OBVIOUS
  <2>2. ~(y < x)
    BY <2>1, <1>2, <1>3
  <2> QED BY <2>1, <2>2
<1>5. \E m \in T : \A y \in T : m <= y
  BY <1>4
<1> QED BY <1>5 DEF Min

\* The first position that passes a test, or 0.
LEMMA FirstOrNone ==
  ASSUME NEW n \in Nat, NEW I, I \subseteq 1 .. n,
         NEW p, p = IF I # {} THEN Min(I) ELSE 0
  PROVE  p \in 0 .. n
<1>1. I \subseteq Nat
  OBVIOUS
<1>2. I # {} => Min(I) \in I
  BY <1>1, LeastOf
<1>3. CASE I = {}
  BY <1>3
<1>4. CASE I # {}
  <2>1. p \in I
    BY <1>2, <1>4
  <2> QED BY <2>1
<1> QED BY <1>3, <1>4

\* Part of a list.
LEMMA SliceOf ==
  ASSUME NEW S, NEW q \in Seq(S), NEW m \in Nat, NEW n \in Nat, m >= 1, n <= Len(q), m <= n + 1
  PROVE  /\ SubSeq(q, m, n) \in Seq(S) /\ Len(SubSeq(q, m, n)) = (n + 1) - m
         /\ \A i \in 1 .. Len(SubSeq(q, m, n)) : SubSeq(q, m, n)[i] = q[m + i - 1]
OBVIOUS

\* The timed-out pings are no more than the list has.
LEMMA ExpiredIs ==
  ASSUME NEW list \in Seq(PingRecord)
  PROVE  /\ Expired(list) \in Seq(PingRecord) /\ Len(Expired(list)) \in Nat
         /\ Len(Expired(list)) <= Len(list)
<1> DEFINE I == {i \in 1 .. Len(list) : list[i].age < LATENCY_TIMEOUT}
<1>1. Len(list) \in Nat /\ I \subseteq 1 .. Len(list)
  OBVIOUS
<1>0. PICK young : young = IF I # {} THEN Min(I) ELSE 0
  OBVIOUS
<1>3. Expired(list) = IF young = 0 THEN list ELSE SubSeq(list, 1, young - 1)
  BY <1>0 DEF Expired, SelectInSeq
<1> HIDE DEF I
<1>2. young \in 0 .. Len(list)
  BY <1>0, <1>1, FirstOrNone
<1>4. CASE young = 0
  BY <1>1, <1>3, <1>4
<1>5. CASE young # 0
  <2>1. young - 1 \in Nat /\ young - 1 <= Len(list) /\ 1 \in Nat /\ 1 <= (young - 1) + 1
    BY <1>1, <1>2, <1>5
  <2>2. SubSeq(list, 1, young - 1) \in Seq(PingRecord) /\ Len(SubSeq(list, 1, young - 1)) = ((young - 1) + 1) - 1
    BY <2>1, SliceOf
  <2> QED BY <1>1, <1>2, <1>3, <1>5, <2>1, <2>2
<1> QED BY <1>4, <1>5

\* The chosen ones of a list of pings are of it.
LEMMA ChosenPings ==
  ASSUME NEW q \in Seq(PingRecord), NEW S, S \subseteq 1 .. Len(q), NEW r, r = AtPositions(q, S)
  PROVE  /\ r \in Seq(PingRecord) /\ Len(r) <= Len(q)
         /\ \A k \in 1 .. Len(r) : r[k] \in {q[i] : i \in S}
<1> DEFINE n == Len(q)
           c == Cardinality(S)
           at(k) == CHOOSE i \in S : Cardinality(S \cap 1..i) = k
<1>1. r \in Seq(PingRecord) /\ Len(r) <= Len(q)
  BY AtPositionsHolds
<1>2. r = [k \in 1 .. c |-> q[at(k)]]
  BY DEF AtPositions
<1>3. n \in Nat /\ S \subseteq 1 .. n
  OBVIOUS
<1> HIDE DEF n
<1>4. c \in Nat
  BY <1>3, UpToCounts
<1>5. ASSUME NEW k \in 1 .. c PROVE at(k) \in S
  <2>1. \E i \in S : UpTo(S, i) = k
    BY <1>3, MemberAt
  <2> QED BY <2>1 DEF UpTo
<1> HIDE DEF at, c
<1>8. DOMAIN r = 1 .. c
  BY <1>2
<1>6. DOMAIN r = 1 .. Len(r) /\ DOMAIN r = 1 .. c
  BY <1>1, <1>8
<1>7. \A k \in 1 .. Len(r) : \E i \in S : r[k] = q[i]
  BY <1>2, <1>5, <1>6
<1>9. \A k \in 1 .. Len(r) : r[k] \in {q[i] : i \in S}
  BY <1>7
<1> QED BY <1>1, <1>9

\* What is sent again is new, and no more than timed out.
LEMMA RetriesAre ==
  ASSUME NEW expired \in Seq(PingRecord)
  PROVE  JustSent(Retries(expired)) /\ Len(Retries(expired)) <= Len(expired)
<1> DEFINE S == {i \in DOMAIN expired : expired[i].retries < MAX_RETRIES}
           r == Retries(expired)
<1>0. Len(expired) \in Nat /\ DOMAIN expired = 1 .. Len(expired) /\ S \subseteq 1 .. Len(expired)
  OBVIOUS
<1>1. PICK again : again = AtPositions(expired, S)
  OBVIOUS
<1>2. r = [i \in DOMAIN again |-> [again[i] EXCEPT !.retries = @ + 1, !.age = 0]]
  BY <1>1 DEF Retries
<1>5. \A i \in S : expired[i].retries < MAX_RETRIES
  OBVIOUS
<1> HIDE DEF S, r
<1>3. /\ again \in Seq(PingRecord) /\ Len(again) <= Len(expired)
      /\ \A k \in 1 .. Len(again) : \E i \in S : again[k] = expired[i]
  <2>1. S \subseteq 1 .. Len(expired)
    BY <1>0
  <2>2. again \in Seq(PingRecord) /\ Len(again) <= Len(expired)
    BY <1>1, <2>1, ChosenPings
  <2>3. \A k \in 1 .. Len(again) : again[k] \in {expired[i] : i \in S}
    BY <1>1, <2>1, ChosenPings
  <2> QED BY <2>2, <2>3
<1>4. ASSUME NEW k \in 1 .. Len(again)
      PROVE  /\ [again[k] EXCEPT !.retries = @ + 1, !.age = 0] \in PingRecord
             /\ [again[k] EXCEPT !.retries = @ + 1, !.age = 0].age = 0
  <2>1. again[k] \in PingRecord /\ again[k].retries < MAX_RETRIES
    BY <1>3, <1>5
  <2>2. again[k].retries \in 0 .. MAX_RETRIES /\ again[k].retries + 1 \in 0 .. MAX_RETRIES
    BY <2>1, LatencyConstants DEF PingRecord
  <2>3. 0 \in 0 .. LATENCY_TIMEOUT
    BY LatencyConstants
  <2> QED BY <2>1, <2>2, <2>3 DEF PingRecord
<1>6. DOMAIN again = 1 .. Len(again) /\ Len(again) \in Nat
  BY <1>3
<1>7. r \in Seq(PingRecord) /\ Len(r) = Len(again) /\ \A k \in 1 .. Len(again) : r[k].age = 0
  <2>1. r \in [1 .. Len(again) -> PingRecord]
    BY <1>2, <1>4, <1>6
  <2>2. \A k \in 1 .. Len(again) : r[k].age = 0
    BY <1>2, <1>4, <1>6
  <2> QED BY <2>1, <2>2, <1>6
<1> QED BY <1>3, <1>7 DEF JustSent, r

\* Two lists of new pings are one.
LEMMA JustSentTogether ==
  ASSUME NEW a, NEW b, JustSent(a), JustSent(b)
  PROVE  JustSent(a \o b) /\ Len(a \o b) = Len(a) + Len(b)
<1>1. a \in Seq(PingRecord) /\ b \in Seq(PingRecord)
  BY DEF JustSent
<1>2. /\ a \o b \in Seq(PingRecord) /\ Len(a \o b) = Len(a) + Len(b)
      /\ \A i \in 1 .. Len(a) + Len(b) : (a \o b)[i] = IF i <= Len(a) THEN a[i] ELSE b[i - Len(a)]
  BY <1>1, ConcatProperties
<1>3. ASSUME NEW i \in 1 .. Len(a \o b) PROVE (a \o b)[i].age = 0
  <2>1. Len(a) \in Nat /\ Len(b) \in Nat /\ i \in 1 .. Len(a) + Len(b)
    BY <1>1, <1>2
  <2>2. CASE i <= Len(a)
    BY <1>2, <2>1, <2>2 DEF JustSent
  <2>3. CASE i > Len(a)
    <3>1. i - Len(a) \in 1 .. Len(b) /\ (a \o b)[i] = b[i - Len(a)]
      BY <1>2, <2>1, <2>3
    <3> QED BY <3>1 DEF JustSent
  <2> QED BY <2>1, <2>2, <2>3
<1> QED BY <1>2, <1>3 DEF JustSent

\* What is sent is new, takes as much of the queue as there is room for, and no more.
LEMMA ToSendIs ==
  ASSUME NEW queue \in Seq(Servers), NEW retries, JustSent(retries),
         NEW underWay \in Nat, underWay + Len(retries) <= MAX_PARALLEL
  PROVE  /\ JustSent(ToSend(queue, retries, underWay))
         /\ Len(ToSend(queue, retries, underWay)) \in Len(retries) .. Len(retries) + Len(queue)
         /\ underWay + Len(ToSend(queue, retries, underWay)) <= MAX_PARALLEL
<1> DEFINE room == MAX_PARALLEL - underWay - Len(retries)
           Ping(s) == [key |-> s, seq |-> 0, age |-> 0, retries |-> 0]
<1>1. PICK next : next = IF room < Len(queue) THEN SubSeq(queue, 1, room) ELSE queue
  OBVIOUS
<1>2. PICK new : new = [i \in DOMAIN next |-> Ping(next[i])]
  OBVIOUS
<1>3. ToSend(queue, retries, underWay) = retries \o new
  BY <1>1, <1>2 DEF ToSend
<1>4. Len(retries) \in Nat /\ Len(queue) \in Nat /\ room \in Nat
  BY LatencyConstants DEF JustSent
<1>5. next \in Seq(Servers) /\ Len(next) \in Nat /\ Len(next) <= Len(queue) /\ Len(next) <= room
  <2>1. CASE room < Len(queue)
    <3>1. SubSeq(queue, 1, room) \in Seq(Servers) /\ Len(SubSeq(queue, 1, room)) = (room + 1) - 1
      BY <1>4, <2>1, SliceOf
    <3> QED BY <1>1, <1>4, <2>1, <3>1
  <2>2. CASE ~(room < Len(queue))
    BY <1>1, <1>4, <2>2
  <2> QED BY <2>1, <2>2
<1>6. \A s \in Servers : Ping(s) \in PingRecord /\ Ping(s).age = 0
  <2>1. 0 \in 0 .. LatSeqTurn - 1 /\ 0 \in 0 .. LATENCY_TIMEOUT /\ 0 \in 0 .. MAX_RETRIES
    BY LatencyConstants
  <2> QED BY <2>1 DEF PingRecord
<1> HIDE DEF Ping
<1>7. JustSent(new) /\ Len(new) = Len(next)
  <2>1. DOMAIN next = 1 .. Len(next) /\ \A i \in 1 .. Len(next) : next[i] \in Servers
    BY <1>5
  <2>2. new \in [1 .. Len(next) -> PingRecord] /\ \A i \in 1 .. Len(next) : new[i].age = 0
    BY <1>2, <1>6, <2>1
  <2>3. new \in Seq(PingRecord) /\ Len(new) = Len(next)
    BY <1>5, <2>2
  <2> QED BY <2>2, <2>3 DEF JustSent
<1>8. JustSent(retries \o new) /\ Len(retries \o new) = Len(retries) + Len(next)
  BY <1>7, JustSentTogether
<1>9. Len(retries) + Len(next) \in Len(retries) .. Len(retries) + Len(queue)
  BY <1>4, <1>5
<1>10. underWay + (Len(retries) + Len(next)) <= MAX_PARALLEL
  BY <1>4, <1>5, LatencyConstants
<1> QED BY <1>3, <1>8, <1>9, <1>10

\* Numbering the pings changes neither their number nor their age.
LEMMA NumberedAre ==
  ASSUME NEW pings, JustSent(pings), NEW seq \in Nat
  PROVE  JustSent(Numbered(pings, seq)) /\ Len(Numbered(pings, seq)) = Len(pings)
<1> DEFINE r == Numbered(pings, seq)
<1>1. Len(pings) \in Nat /\ DOMAIN pings = 1 .. Len(pings) /\ \A i \in 1 .. Len(pings) : pings[i] \in PingRecord
  BY DEF JustSent
<1>2. ASSUME NEW i \in 1 .. Len(pings)
      PROVE  r[i] \in PingRecord /\ r[i].age = 0
  <2>1. pings[i] \in PingRecord /\ pings[i].age = 0 /\ i \in DOMAIN pings
    BY <1>1 DEF JustSent
  <2>2. PICK n : n = (seq + i - 1) % LatSeqTurn
    OBVIOUS
  <2>3. n \in 0 .. LatSeqTurn - 1
    <3>1. seq + i - 1 \in Nat /\ LatSeqTurn \in Nat \ {0}
      BY LatencyConstants
    <3> QED BY <3>1, <2>2
  <2>4. r[i] = [pings[i] EXCEPT !.seq = n]
    BY <2>1, <2>2 DEF Numbered
  <2> QED BY <2>1, <2>3, <2>4 DEF PingRecord
<1>3. r \in [1 .. Len(pings) -> PingRecord]
  <2>1. DOMAIN r = 1 .. Len(pings) /\ r = [i \in DOMAIN r |-> r[i]]
    BY <1>1 DEF Numbered
  <2> HIDE DEF r
  <2> QED BY <2>1, <1>2
<1> HIDE DEF r
<1>4. r \in Seq(PingRecord) /\ Len(r) = Len(pings)
  BY <1>1, <1>3
<1>5. JustSent(r) /\ Len(r) = Len(pings)
  BY <1>2, <1>4 DEF JustSent
<1> QED BY <1>5 DEF r

\* The rest of a list is in order.
LEMMA RestInOrder ==
  ASSUME NEW list, InOrderOfAge(list), NEW n \in Nat, n <= Len(list)
  PROVE  /\ InOrderOfAge(SubSeq(list, n + 1, Len(list)))
         /\ Len(SubSeq(list, n + 1, Len(list))) = Len(list) - n
<1>1. list \in Seq(PingRecord) /\ Len(list) \in Nat
  BY DEF InOrderOfAge
<1>2. PICK r : r = SubSeq(list, n + 1, Len(list))
  OBVIOUS
<1>3. n + 1 \in Nat /\ n + 1 >= 1 /\ Len(list) <= Len(list) /\ n + 1 <= Len(list) + 1
  BY <1>1
<1>4. /\ r \in Seq(PingRecord) /\ Len(r) = (Len(list) + 1) - (n + 1)
      /\ \A i \in 1 .. Len(r) : r[i] = list[(n + 1) + i - 1]
  BY <1>1, <1>2, <1>3, SliceOf
<1>5. ASSUME NEW i \in 1 .. Len(r), NEW j \in 1 .. Len(r), i < j PROVE r[i].age >= r[j].age
  <2>1. /\ (n + 1) + i - 1 \in 1 .. Len(list) /\ (n + 1) + j - 1 \in 1 .. Len(list)
        /\ (n + 1) + i - 1 < (n + 1) + j - 1
    BY <1>1, <1>4, <1>5
  <2>2. list[(n + 1) + i - 1].age >= list[(n + 1) + j - 1].age
    BY <2>1 DEF InOrderOfAge
  <2> QED BY <1>4, <2>2
<1>6. Len(r) = Len(list) - n
  BY <1>1, <1>4
<1>7. InOrderOfAge(r)
  BY <1>4, <1>5 DEF InOrderOfAge
<1> QED BY <1>2, <1>6, <1>7

\* A list in order stays so when new pings go to its end.
LEMMA ListedInOrder ==
  ASSUME NEW w, NEW s, InOrderOfAge(w), JustSent(s)
  PROVE  InOrderOfAge(Listed(w, s)) /\ Len(Listed(w, s)) = Len(w) + Len(s)
<1>1. w \in Seq(PingRecord) /\ s \in Seq(PingRecord) /\ Len(w) \in Nat /\ Len(s) \in Nat
  BY DEF InOrderOfAge, JustSent
<1>2. PICK all : all = w \o s
  OBVIOUS
<1>3. /\ all \in Seq(PingRecord) /\ Len(all) = Len(w) + Len(s)
      /\ \A i \in 1 .. Len(w) + Len(s) : all[i] = IF i <= Len(w) THEN w[i] ELSE s[i - Len(w)]
  BY <1>1, <1>2, ConcatProperties
<1>4. ASSUME NEW i \in 1 .. Len(all), NEW j \in 1 .. Len(all), i < j PROVE all[i].age >= all[j].age
  <2>1. i \in 1 .. Len(w) + Len(s) /\ j \in 1 .. Len(w) + Len(s)
    BY <1>3
  <2>2. CASE j <= Len(w)
    <3>1. i \in 1 .. Len(w) /\ j \in 1 .. Len(w) /\ all[i] = w[i] /\ all[j] = w[j]
      BY <1>1, <1>3, <1>4, <2>1, <2>2
    <3> QED BY <1>4, <3>1 DEF InOrderOfAge
  <2>3. CASE ~(j <= Len(w))
    <3>1. j - Len(w) \in 1 .. Len(s) /\ all[j] = s[j - Len(w)]
      BY <1>1, <1>3, <2>1, <2>3
    <3>2. all[j].age = 0
      BY <3>1 DEF JustSent
    <3>3. all[i] \in PingRecord
      BY <1>3
    <3>4. all[i].age \in Nat
      BY <3>3 DEF PingRecord
    <3> QED BY <3>2, <3>4
  <2> QED BY <2>2, <2>3
<1>5. InOrderOfAge(all)
  BY <1>3, <1>4 DEF InOrderOfAge
<1> QED BY <1>2, <1>3, <1>5 DEF Listed

\* One answered ping leaves the others in order.
LEMMA RemovedInOrder ==
  ASSUME NEW list, InOrderOfAge(list), NEW k \in 1 .. Len(list)
  PROVE  InOrderOfAge(RemoveAt(list, k)) /\ Len(RemoveAt(list, k)) <= Len(list)
<1>1. list \in Seq(PingRecord) /\ Len(list) \in Nat
  BY DEF InOrderOfAge
<1>2. PICK a : a = SubSeq(list, 1, k - 1)
  OBVIOUS
<1>3. PICK b : b = SubSeq(list, k + 1, Len(list))
  OBVIOUS
<1>4. a \in Seq(PingRecord) /\ Len(a) = k - 1 /\ \A i \in 1 .. Len(a) : a[i] = list[i]
  <2>1. k - 1 \in Nat /\ k - 1 <= Len(list) /\ 1 \in Nat /\ 1 >= 1 /\ 1 <= (k - 1) + 1
    BY <1>1
  <2>2. /\ a \in Seq(PingRecord) /\ Len(a) = ((k - 1) + 1) - 1
        /\ \A i \in 1 .. Len(a) : a[i] = list[1 + i - 1]
    BY <1>1, <1>2, <2>1, SliceOf
  <2>3. Len(a) \in Nat
    BY <2>2
  <2>4. \A i \in 1 .. Len(a) : 1 + i - 1 = i
    BY <2>3
  <2> QED BY <2>2, <2>4
<1>5. b \in Seq(PingRecord) /\ Len(b) = Len(list) - k /\ \A i \in 1 .. Len(b) : b[i] = list[k + i]
  <2>1. k + 1 \in Nat /\ k + 1 >= 1 /\ Len(list) <= Len(list) /\ k + 1 <= Len(list) + 1
    BY <1>1
  <2>2. /\ b \in Seq(PingRecord) /\ Len(b) = (Len(list) + 1) - (k + 1)
        /\ \A i \in 1 .. Len(b) : b[i] = list[(k + 1) + i - 1]
    BY <1>1, <1>3, <2>1, SliceOf
  <2>3. \A i \in 1 .. Len(b) : (k + 1) + i - 1 = k + i
    BY <2>2
  <2> QED BY <1>1, <2>2, <2>3
<1>6. PICK r : r = a \o b
  OBVIOUS
<1>7. /\ r \in Seq(PingRecord) /\ Len(r) = Len(a) + Len(b)
      /\ \A i \in 1 .. Len(a) + Len(b) : r[i] = IF i <= Len(a) THEN a[i] ELSE b[i - Len(a)]
  BY <1>4, <1>5, <1>6, ConcatProperties
<1>8. Len(r) = Len(list) - 1
  BY <1>1, <1>4, <1>5, <1>7
<1>9. ASSUME NEW i \in 1 .. Len(r)
      PROVE  r[i] = IF i < k THEN list[i] ELSE list[i + 1]
  <2>0. i \in 1 .. Len(a) + Len(b)
    BY <1>7
  <2>1. CASE i < k
    <3>1. i \in 1 .. Len(a) /\ i <= Len(a)
      BY <1>4, <2>1
    <3> QED BY <1>4, <1>7, <2>0, <2>1, <3>1
  <2>2. CASE ~(i < k)
    <3>1. ~(i <= Len(a)) /\ i - Len(a) \in 1 .. Len(b) /\ k + (i - Len(a)) = i + 1
      BY <1>1, <1>4, <1>5, <2>0, <2>2
    <3>2. r[i] = b[i - Len(a)]
      BY <1>7, <2>0, <3>1
    <3>3. b[i - Len(a)] = list[k + (i - Len(a))]
      BY <1>5, <3>1
    <3> QED BY <2>2, <3>1, <3>2, <3>3
  <2> QED BY <2>1, <2>2
<1>10. ASSUME NEW i \in 1 .. Len(r), NEW j \in 1 .. Len(r), i < j PROVE r[i].age >= r[j].age
  <2>1. PICK x \in 1 .. Len(list) : r[i] = list[x] /\ x = IF i < k THEN i ELSE i + 1
    BY <1>1, <1>8, <1>9
  <2>2. PICK y \in 1 .. Len(list) : r[j] = list[y] /\ y = IF j < k THEN j ELSE j + 1
    BY <1>1, <1>8, <1>9
  <2>3. x < y
    BY <1>10, <2>1, <2>2
  <2>4. list[x].age >= list[y].age
    BY <2>3 DEF InOrderOfAge
  <2> QED BY <2>1, <2>2, <2>4
<1>11. InOrderOfAge(r)
  BY <1>7, <1>10 DEF InOrderOfAge
<1>12. RemoveAt(list, k) = r
  BY <1>2, <1>3, <1>6 DEF RemoveAt
<1> QED BY <1>1, <1>8, <1>11, <1>12

\* maybeSendPings() ends the round, or leaves a list in order whose head the
\* timer is for.
LEMMA PingsSent ==
  ASSUME NEW queue \in Seq(Servers), NEW list, InOrderOfAge(list), Len(list) <= MAX_PARALLEL,
         NEW seq \in Nat, maybeSendPings(queue, list, seq)
  PROVE  \/ latStop
         \/ /\ InOrderOfAge(m_pingReplyList') /\ m_pingReplyList' # <<>>
            /\ Len(m_pingReplyList') <= MAX_PARALLEL
            /\ m_pingTimeout' = LATENCY_TIMEOUT - m_pingReplyList'[1].age
            /\ m_pingSendQueue' \in Seq(Servers)
            /\ latSequence' \in 0 .. LatSeqTurn - 1
            /\ latSender' = TRUE
<1>1. PICK expired : expired = Expired(list)
  OBVIOUS
<1>2. PICK retries : retries = Retries(expired)
  OBVIOUS
<1>3. PICK sending : sending = ToSend(queue, retries, Len(list) - Len(expired))
  OBVIOUS
<1>4. PICK sent : sent = Numbered(sending, seq)
  OBVIOUS
<1>5. PICK waiting : waiting = SubSeq(list, Len(expired) + 1, Len(list))
  OBVIOUS
<1>6. PICK all : all = Listed(waiting, sent)
  OBVIOUS
<1>7. CASE all = <<>>
  BY <1>1, <1>2, <1>3, <1>4, <1>5, <1>6, <1>7 DEF maybeSendPings
<1>8. CASE all # <<>>
  <2>1. /\ m_pingSendQueue' = SubSeq(queue, Len(sent) - Len(retries) + 1, Len(queue))
        /\ m_pingReplyList' = all
        /\ latSequence' = (seq + Len(sent)) % LatSeqTurn
        /\ m_pingTimeout' = LATENCY_TIMEOUT - all[1].age
        /\ latSender' = TRUE
    BY <1>1, <1>2, <1>3, <1>4, <1>5, <1>6, <1>8 DEF maybeSendPings
  <2>2. list \in Seq(PingRecord) /\ Len(list) \in Nat /\ Len(queue) \in Nat
    BY DEF InOrderOfAge
  <2>3. expired \in Seq(PingRecord) /\ Len(expired) \in Nat /\ Len(expired) <= Len(list)
    BY <1>1, <2>2, ExpiredIs
  <2>4. JustSent(retries) /\ Len(retries) <= Len(expired)
    BY <1>2, <2>3, RetriesAre
  <2>5. Len(retries) \in Nat
    BY <2>4 DEF JustSent
  <2>6. Len(list) - Len(expired) \in Nat /\ (Len(list) - Len(expired)) + Len(retries) <= MAX_PARALLEL
    BY <2>2, <2>3, <2>4, <2>5, LatencyConstants
  <2>7. /\ JustSent(sending) /\ Len(sending) \in Len(retries) .. Len(retries) + Len(queue)
        /\ (Len(list) - Len(expired)) + Len(sending) <= MAX_PARALLEL
    BY <1>3, <2>4, <2>6, ToSendIs
  <2>8. JustSent(sent) /\ Len(sent) = Len(sending)
    BY <1>4, <2>7, NumberedAre
  <2>9. InOrderOfAge(waiting) /\ Len(waiting) = Len(list) - Len(expired)
    BY <1>5, <2>3, RestInOrder
  <2>10. InOrderOfAge(all) /\ Len(all) = Len(waiting) + Len(sent)
    BY <1>6, <2>8, <2>9, ListedInOrder
  <2>11. Len(all) <= MAX_PARALLEL
    BY <2>7, <2>8, <2>9, <2>10
  <2>12. SubSeq(queue, Len(sent) - Len(retries) + 1, Len(queue)) \in Seq(Servers)
    <3>1. PICK m : m = Len(sent) - Len(retries) + 1
      OBVIOUS
    <3>2. m \in Nat /\ m >= 1 /\ Len(queue) <= Len(queue) /\ m <= Len(queue) + 1
      BY <2>2, <2>5, <2>7, <2>8, <3>1
    <3>3. SubSeq(queue, m, Len(queue)) \in Seq(Servers)
      BY <2>2, <3>2, SliceOf
    <3> QED BY <3>1, <3>3
  <2>13. (seq + Len(sent)) % LatSeqTurn \in 0 .. LatSeqTurn - 1
    <3>1. seq + Len(sent) \in Nat /\ LatSeqTurn \in Nat \ {0}
      BY <2>5, <2>7, <2>8, LatencyConstants
    <3> QED BY <3>1
  <2> QED BY <1>8, <2>1, <2>10, <2>11, <2>12, <2>13
<1> QED BY <1>7, <1>8

\* A city whose cooling servers have time left is unavailable just when they all cool.
CitiesFit(cooldown, bad) ==
  \A city \in Cities :
    (\A s \in ServersIn(city) \cap DOMAIN cooldown : cooldown[s] > 0) =>
      (city \in bad <=> ServersIn(city) \subseteq DOMAIN cooldown)

\* The pings under way, and the timer that is set for the first of them.
PingsFit ==
  /\ m_pingSendQueue \in Seq(Servers)
  /\ InOrderOfAge(m_pingReplyList) /\ Len(m_pingReplyList) <= MAX_PARALLEL
  /\ latSequence \in 0 .. LatSeqTurn - 1 /\ m_pingTimeout \in 0 .. LATENCY_TIMEOUT
  /\ latSender => /\ m_pingReplyList # <<>>
                  /\ m_pingTimeout = LATENCY_TIMEOUT - m_pingReplyList[1].age

RoundsFit ==
  /\ vpnOff \in BOOLEAN /\ latSender \in BOOLEAN
  /\ m_refreshTimer \in BOOLEAN /\ m_wantRefresh \in BOOLEAN
  /\ RefreshNeverForgotten /\ MeasuresOffline

CooldownsFit ==
  /\ DOMAIN m_cooldown \subseteq Servers
  /\ \A s \in DOMAIN m_cooldown : m_cooldown[s] \in 0 .. COOLDOWN
  /\ m_cooldownTimer \in BOOLEAN
  /\ CitiesFit(m_cooldown, unavailable)

\* The invariant of the servers' latency.
LatInv == PingsFit /\ RoundsFit /\ CooldownsFit

\* Nothing is under way.
LEMMA NoPingsInOrder == InOrderOfAge(<<>>) /\ Len(<<>>) = 0 /\ Len(<<>>) <= MAX_PARALLEL
<1>1. <<>> \in Seq(PingRecord) /\ Len(<<>>) = 0
  OBVIOUS
<1>2. \A i, j \in 1 .. 0 : FALSE
  OBVIOUS
<1> QED BY <1>1, <1>2, LatencyConstants DEF InOrderOfAge

\* A round that is ended leaves no pings.
LEMMA StopFits ==
  ASSUME PingsFit, latStop
  PROVE  PingsFit'
<1>1. /\ m_pingSendQueue' = <<>> /\ m_pingReplyList' = <<>> /\ m_pingTimeout' = 0
      /\ latSequence' = latSequence
  BY DEF latStop
<1>2. m_pingSendQueue' \in Seq(Servers) /\ m_pingTimeout' \in 0 .. LATENCY_TIMEOUT
  BY <1>1, LatencyConstants
<1>3. InOrderOfAge(m_pingReplyList') /\ Len(m_pingReplyList') <= MAX_PARALLEL
  BY <1>1, NoPingsInOrder
<1>4. latSequence' \in 0 .. LatSeqTurn - 1
  BY <1>1 DEF PingsFit
<1>5. ~latSender'
  BY DEF latStop
<1> QED BY <1>2, <1>3, <1>4, <1>5 DEF PingsFit, InOrderOfAge

\* maybeSendPings() leaves pings under way, with the timer for the first, or none.
LEMMA SendFits ==
  ASSUME PingsFit, NEW queue \in Seq(Servers), NEW list, InOrderOfAge(list),
         Len(list) <= MAX_PARALLEL, NEW seq \in Nat, maybeSendPings(queue, list, seq)
  PROVE  PingsFit' /\ (latSender' = TRUE \/ latStop)
<1>1. CASE latStop
  BY <1>1, StopFits
<1>2. CASE ~latStop
  <2>1. /\ InOrderOfAge(m_pingReplyList') /\ m_pingReplyList' # <<>>
        /\ Len(m_pingReplyList') <= MAX_PARALLEL
        /\ m_pingTimeout' = LATENCY_TIMEOUT - m_pingReplyList'[1].age
        /\ m_pingSendQueue' \in Seq(Servers)
        /\ latSequence' \in 0 .. LatSeqTurn - 1
        /\ latSender' = TRUE
    BY <1>2, PingsSent
  <2>2. m_pingReplyList' \in Seq(PingRecord)
    BY <2>1 DEF InOrderOfAge
  <2>3. m_pingReplyList'[1] \in PingRecord
    BY <2>1, <2>2
  <2>4. m_pingReplyList'[1].age \in 0 .. LATENCY_TIMEOUT
    BY <2>3 DEF PingRecord
  <2>5. m_pingTimeout' \in 0 .. LATENCY_TIMEOUT
    BY <2>1, <2>4, LatencyConstants
  <2>6. PingsFit'
    BY <2>1, <2>5 DEF PingsFit, InOrderOfAge
  <2> QED BY <2>1, <2>6
<1> QED BY <1>1, <1>2

\* start() begins a round, leaves the one that runs, or remembers that it is wanted.
LEMMA StartFits ==
  ASSUME PingsFit, RoundsFit, NEW timer \in BOOLEAN, latStart(timer),
         vpnOff' = vpnOff \/ vpnOff' = TRUE
  PROVE  PingsFit' /\ RoundsFit'
<1>0. vpnOff' \in BOOLEAN
  BY Zenon DEF RoundsFit
<1>1. CASE ~vpnOff'
  <2>1. m_wantRefresh' = TRUE /\ m_refreshTimer' = timer /\ UNCHANGED pingListVars
    BY <1>1, Zenon DEF latStart
  <2>2. PingsFit'
    BY <2>1 DEF PingsFit, pingListVars, InOrderOfAge
  <2>3. latSender' = latSender /\ m_pingReplyList' = m_pingReplyList /\ latFlying' = latFlying /\ vpnOff' = vpnOff
    BY <1>1, <2>1 DEF pingListVars
  <2>4. RoundsFit'
    BY <1>0, <1>1, <2>1, <2>3, Zenon DEF RoundsFit, RefreshNeverForgotten, MeasuresOffline
  <2> QED BY <2>2, <2>4
<1>2. CASE vpnOff' /\ latSender
  <2>1. m_refreshTimer' = timer /\ UNCHANGED <<m_wantRefresh, pingListVars>>
    BY <1>2, Zenon DEF latStart
  <2>2. PingsFit'
    BY <2>1 DEF PingsFit, pingListVars, InOrderOfAge
  <2>3. latSender' = latSender /\ m_wantRefresh' = m_wantRefresh
    BY <2>1 DEF pingListVars
  <2>4. RoundsFit'
    BY <1>0, <1>2, <2>1, <2>3, Zenon DEF RoundsFit, RefreshNeverForgotten, MeasuresOffline
  <2> QED BY <2>2, <2>4
<1>3. CASE vpnOff' /\ ~latSender
  <2>1. m_wantRefresh' = FALSE /\ maybeSendPings(ByDistance, <<>>, 0) /\ m_refreshTimer' = FALSE
    BY <1>3, Zenon DEF latStart
  <2>2. ByDistance \in Seq(Servers) /\ 0 \in Nat
    BY LatencyConstants
  <2>3. PingsFit' /\ (latSender' = TRUE \/ latStop)
    BY <2>1, <2>2, NoPingsInOrder, SendFits
  <2>4. ~latStop
    BY <2>1 DEF latStop
  <2>5. RoundsFit'
    BY <1>0, <1>3, <2>1, <2>3, <2>4, Zenon DEF RoundsFit, RefreshNeverForgotten, MeasuresOffline
  <2> QED BY <2>3, <2>5
<1> QED BY <1>0, <1>1, <1>2, <1>3

\* What leaves the cooldowns alone.
LEMMA CooldownsKept ==
  ASSUME CooldownsFit, UNCHANGED cooldownVars
  PROVE  CooldownsFit'
BY DEF CooldownsFit, CitiesFit, cooldownVars

\* What leaves the pings and the rounds alone.
LEMMA PingsKept ==
  ASSUME PingsFit, RoundsFit, UNCHANGED <<vpnOff, pingListVars, latAnswers, m_refreshTimer, m_wantRefresh>>
  PROVE  PingsFit' /\ RoundsFit'
<1>1. PingsFit'
  BY DEF PingsFit, pingListVars, InOrderOfAge
<1>2. RoundsFit'
  BY Zenon DEF RoundsFit, RefreshNeverForgotten, MeasuresOffline, pingListVars
<1> QED BY <1>1, <1>2

\* The state of the client changes.
LEMMA StateChangeFits ==
  ASSUME PingsFit, RoundsFit, vpnStateChanged
  PROVE  PingsFit' /\ RoundsFit'
<1>0. vpnOff' \in BOOLEAN
  BY DEF vpnStateChanged
<1>1. CASE ~vpnOff'
  <2>1. latStop /\ m_wantRefresh' = m_wantRefresh
    BY <1>1, Zenon DEF vpnStateChanged
  <2>2. PingsFit'
    BY <2>1, StopFits
  <2>3. m_pingReplyList' = <<>> /\ latFlying' = {} /\ latSender' = FALSE /\ m_refreshTimer' = TRUE
    BY <2>1 DEF latStop
  <2>4. RoundsFit'
    BY <1>0, <1>1, <2>1, <2>3, Zenon DEF RoundsFit, RefreshNeverForgotten, MeasuresOffline
  <2> QED BY <2>2, <2>4
<1>2. CASE vpnOff' /\ m_wantRefresh
  <2>1. latStart(m_refreshTimer)
    BY <1>2, Zenon DEF vpnStateChanged
  <2>2. vpnOff' = TRUE /\ m_refreshTimer \in BOOLEAN
    BY <1>0, <1>2, Zenon DEF RoundsFit
  <2> QED BY <2>1, <2>2, StartFits
<1>3. CASE vpnOff' /\ ~m_wantRefresh
  <2>1. UNCHANGED <<pingListVars, m_refreshTimer, m_wantRefresh>>
    BY <1>3, Zenon DEF vpnStateChanged
  <2>2. PingsFit'
    BY <2>1 DEF PingsFit, pingListVars, InOrderOfAge
  <2>3. latSender' = latSender /\ m_refreshTimer' = m_refreshTimer /\ m_wantRefresh' = m_wantRefresh
    BY <2>1 DEF pingListVars
  <2>4. RoundsFit'
    BY <1>0, <1>3, <2>3, Zenon DEF RoundsFit, RefreshNeverForgotten, MeasuresOffline
  <2> QED BY <2>2, <2>4
<1> QED BY <1>0, <1>1, <1>2, <1>3

\* More pings are sent, or the round ends, after a timeout or an answer.
LEMMA GoesOn ==
  ASSUME PingsFit, RoundsFit, NEW list, InOrderOfAge(list), Len(list) <= MAX_PARALLEL,
         m_pingReplyList # <<>>,
         maybeSendPings(m_pingSendQueue, list, latSequence),
         IF latSender' THEN UNCHANGED m_refreshTimer ELSE TRUE,
         UNCHANGED <<vpnOff, m_wantRefresh>>
  PROVE  PingsFit' /\ RoundsFit'
<1>1. m_pingSendQueue \in Seq(Servers) /\ latSequence \in Nat
  BY LatencyConstants DEF PingsFit
<1>2. PingsFit' /\ (latSender' = TRUE \/ latStop)
  BY <1>1, SendFits
<1>3. vpnOff' = TRUE /\ m_wantRefresh' \in BOOLEAN
  <2>1. vpnOff' = vpnOff /\ m_wantRefresh' = m_wantRefresh
    OBVIOUS
  <2>2. vpnOff = TRUE /\ m_wantRefresh \in BOOLEAN
    BY Zenon DEF RoundsFit, MeasuresOffline
  <2> QED BY <2>1, <2>2
<1>4. CASE latSender' = TRUE
  <2>1. m_refreshTimer' \in BOOLEAN
    BY <1>4, Zenon DEF RoundsFit
  <2>2. RoundsFit'
    BY <1>3, <1>4, <2>1, Zenon DEF RoundsFit, RefreshNeverForgotten, MeasuresOffline
  <2> QED BY <1>2, <2>2
<1>5. CASE latStop
  <2>1. latSender' = FALSE /\ m_refreshTimer' = TRUE
    BY <1>5 DEF latStop
  <2>2. RoundsFit'
    BY <1>3, <2>1, Zenon DEF RoundsFit, RefreshNeverForgotten, MeasuresOffline
  <2> QED BY <1>2, <2>2
<1> QED BY <1>2, <1>4, <1>5

\* The score of a city counts its servers on cooldown, and leaves other cities alone.
LEMMA RescoredFits ==
  ASSUME NEW cooldown, NEW bad, NEW c, DOMAIN cooldown \subseteq Servers,
         \A s \in DOMAIN cooldown : cooldown[s] \in 0 .. COOLDOWN,
         \A city \in Cities \ {c} :
           (\A s \in ServersIn(city) \cap DOMAIN cooldown : cooldown[s] > 0) =>
             (city \in bad <=> ServersIn(city) \subseteq DOMAIN cooldown)
  PROVE  CitiesFit(cooldown, Rescored(c, cooldown, bad))
<1> SUFFICES ASSUME NEW city \in Cities, \A s \in ServersIn(city) \cap DOMAIN cooldown : cooldown[s] > 0
             PROVE  city \in Rescored(c, cooldown, bad) <=> ServersIn(city) \subseteq DOMAIN cooldown
  BY DEF CitiesFit
<1>1. CASE city = c
  <2>1. (\A s \in ServersIn(c) : CoolingDown(s, cooldown)) <=> ServersIn(c) \subseteq DOMAIN cooldown
    BY <1>1 DEF CoolingDown
  <2>2. c \in Rescored(c, cooldown, bad) <=> \A s \in ServersIn(c) : CoolingDown(s, cooldown)
    BY DEF Rescored
  <2> QED BY <1>1, <2>1, <2>2
<1>2. CASE city # c
  <2>1. city \in Rescored(c, cooldown, bad) <=> city \in bad
    BY <1>2 DEF Rescored
  <2> QED BY <1>2, <2>1
<1> QED BY <1>1, <1>2

\* An answer is received, or one that nobody waits for.
LEMMA ReceivedFits ==
  ASSUME LatInv, NEW q \in latAnswers, recvPing(q)
  PROVE  LatInv'
<1> USE DEF LatInv
<1> DEFINE I == {i \in 1 .. Len(m_pingReplyList) : m_pingReplyList[i].seq = q}
<1>1. PICK k : k = IF I # {} THEN Min(I) ELSE 0
  OBVIOUS
<1>2. k = SelectInSeq(m_pingReplyList, LAMBDA r : r.seq = q)
  BY <1>1 DEF SelectInSeq
<1>3. /\ UNCHANGED <<vpnOff, m_wantRefresh, m_cooldown, m_cooldownTimer>>
      /\ IF k = 0
         THEN UNCHANGED <<pingListVars, m_refreshTimer, m_latency, unavailable>>
         ELSE /\ unavailable' = Rescored(CityOf[m_pingReplyList[k].key], m_cooldown, unavailable)
              /\ maybeSendPings(m_pingSendQueue, RemoveAt(m_pingReplyList, k), latSequence)
              /\ IF latSender' THEN UNCHANGED m_refreshTimer ELSE TRUE
  BY <1>2 DEF recvPing
<1>4. InOrderOfAge(m_pingReplyList) /\ m_pingReplyList \in Seq(PingRecord) /\ Len(m_pingReplyList) \in Nat
  BY DEF PingsFit, InOrderOfAge
<1>5. I \subseteq 1 .. Len(m_pingReplyList)
  OBVIOUS
<1> HIDE DEF I
<1>6. k \in 0 .. Len(m_pingReplyList)
  BY <1>1, <1>4, <1>5, FirstOrNone
<1>7. CASE k = 0
  <2>1. PingsFit'
    BY <1>3, <1>7 DEF PingsFit, pingListVars, InOrderOfAge
  <2>2. /\ vpnOff' = vpnOff /\ m_wantRefresh' = m_wantRefresh /\ latSender' = latSender
        /\ m_refreshTimer' = m_refreshTimer /\ m_pingReplyList' = m_pingReplyList /\ latFlying' = latFlying
    BY <1>3, <1>7 DEF pingListVars
  <2>3. RoundsFit'
    BY <2>2, Zenon DEF RoundsFit, RefreshNeverForgotten, MeasuresOffline
  <2>4. UNCHANGED cooldownVars
    BY <1>3, <1>7 DEF cooldownVars
  <2> QED BY <2>1, <2>3, <2>4, CooldownsKept
<1>8. CASE k # 0
  <2>1. k \in 1 .. Len(m_pingReplyList)
    BY <1>4, <1>6, <1>8
  <2>2. InOrderOfAge(RemoveAt(m_pingReplyList, k)) /\ Len(RemoveAt(m_pingReplyList, k)) <= Len(m_pingReplyList)
    BY <1>4, <2>1, RemovedInOrder
  <2>3. PICK list : list = RemoveAt(m_pingReplyList, k)
    OBVIOUS
  <2>4. InOrderOfAge(list) /\ Len(list) <= MAX_PARALLEL
    <3>1. Len(list) \in Nat /\ Len(list) <= Len(m_pingReplyList) /\ Len(m_pingReplyList) <= MAX_PARALLEL
      BY <2>2, <2>3 DEF InOrderOfAge, PingsFit
    <3> QED BY <1>4, <2>2, <2>3, <3>1, LatencyConstants
  <2>5. m_pingReplyList # <<>>
    BY <1>4, <2>1
  <2>6. /\ maybeSendPings(m_pingSendQueue, list, latSequence)
        /\ IF latSender' THEN UNCHANGED m_refreshTimer ELSE TRUE
        /\ UNCHANGED <<vpnOff, m_wantRefresh>>
        /\ unavailable' = Rescored(CityOf[m_pingReplyList[k].key], m_cooldown, unavailable)
        /\ m_cooldown' = m_cooldown /\ m_cooldownTimer' = m_cooldownTimer
    BY <1>3, <1>8, <2>3
  <2>7. PingsFit' /\ RoundsFit'
    BY <2>4, <2>5, <2>6, GoesOn
  <2>8. CitiesFit(m_cooldown, unavailable')
    <3>1. PICK c : c = CityOf[m_pingReplyList[k].key]
      OBVIOUS
    <3>2. CitiesFit(m_cooldown, Rescored(c, m_cooldown, unavailable))
      BY RescoredFits DEF CooldownsFit, CitiesFit
    <3> QED BY <2>6, <3>1, <3>2
  <2>9. CooldownsFit'
    BY <2>6, <2>8 DEF CooldownsFit, CitiesFit
  <2> QED BY <2>7, <2>9
<1> QED BY <1>7, <1>8

\* No city is that of a server and another one.
LEMMA CitiesApart ==
  ASSUME NEW s \in Servers, NEW city, city # CityOf[s]
  PROVE  s \notin ServersIn(city)
BY DEF ServersIn

\* A server goes on cooldown.
LEMMA SetCooldownFits ==
  ASSUME CooldownsFit, NEW s \in Servers, setCooldown(s)
  PROVE  CooldownsFit'
<1>1. PICK new : new = [t \in DOMAIN m_cooldown \cup {s} |-> IF t = s THEN COOLDOWN ELSE m_cooldown[t]]
  OBVIOUS
<1>2. /\ m_cooldown' = new /\ unavailable' = Rescored(CityOf[s], new, unavailable)
      /\ m_cooldownTimer' = TRUE
  BY <1>1 DEF setCooldown
<1>3. /\ DOMAIN new = DOMAIN m_cooldown \cup {s} /\ new[s] = COOLDOWN
      /\ \A t \in DOMAIN m_cooldown : t # s => new[t] = m_cooldown[t]
  BY <1>1
<1>4. COOLDOWN \in 0 .. COOLDOWN
  BY LatencyConstants
<1>5. DOMAIN new \subseteq Servers /\ \A t \in DOMAIN new : new[t] \in 0 .. COOLDOWN
  BY <1>3, <1>4 DEF CooldownsFit
<1>6. ASSUME NEW city \in Cities \ {CityOf[s]},
             \A t \in ServersIn(city) \cap DOMAIN new : new[t] > 0
      PROVE  city \in unavailable <=> ServersIn(city) \subseteq DOMAIN new
  <2>1. s \notin ServersIn(city)
    BY <1>6, CitiesApart
  <2>2. ServersIn(city) \cap DOMAIN new = ServersIn(city) \cap DOMAIN m_cooldown
    BY <1>3, <2>1
  <2>3. \A t \in ServersIn(city) \cap DOMAIN m_cooldown : m_cooldown[t] > 0
    BY <1>3, <1>6, <2>1, <2>2
  <2>4. city \in unavailable <=> ServersIn(city) \subseteq DOMAIN m_cooldown
    BY <1>6, <2>3 DEF CooldownsFit, CitiesFit
  <2> QED BY <1>3, <2>1, <2>4
<1>7. PICK c : c = CityOf[s]
  OBVIOUS
<1>8. CitiesFit(new, Rescored(c, new, unavailable))
  BY <1>5, <1>6, <1>7, RescoredFits
<1> QED BY <1>2, <1>5, <1>7, <1>8 DEF CooldownsFit, CitiesFit

\* All servers of a city go on cooldown.
LEMMA SetCityCooldownFits ==
  ASSUME CooldownsFit, NEW city \in Cities, setCityCooldown(city)
  PROVE  CooldownsFit'
<1>1. PICK new : new = [t \in DOMAIN m_cooldown \cup ServersIn(city) |->
                          IF t \in ServersIn(city) THEN COOLDOWN ELSE m_cooldown[t]]
  OBVIOUS
<1>2. /\ m_cooldown' = new /\ unavailable' = unavailable \cup {city}
      /\ m_cooldownTimer' = TRUE
  BY <1>1 DEF setCityCooldown
<1>3. /\ DOMAIN new = DOMAIN m_cooldown \cup ServersIn(city)
      /\ \A t \in ServersIn(city) : new[t] = COOLDOWN
      /\ \A t \in DOMAIN m_cooldown : t \notin ServersIn(city) => new[t] = m_cooldown[t]
  BY <1>1
<1>4. COOLDOWN \in 0 .. COOLDOWN /\ ServersIn(city) \subseteq Servers
  BY LatencyConstants DEF ServersIn
<1>5. DOMAIN new \subseteq Servers /\ \A t \in DOMAIN new : new[t] \in 0 .. COOLDOWN
  BY <1>3, <1>4 DEF CooldownsFit
<1>6. ASSUME NEW other \in Cities,
             \A t \in ServersIn(other) \cap DOMAIN new : new[t] > 0
      PROVE  other \in unavailable \cup {city} <=> ServersIn(other) \subseteq DOMAIN new
  <2>1. CASE other = city
    BY <1>3, <2>1
  <2>2. CASE other # city
    <3>1. ServersIn(other) \cap ServersIn(city) = {}
      BY <2>2 DEF ServersIn
    <3>2. \A t \in ServersIn(other) \cap DOMAIN m_cooldown : m_cooldown[t] > 0
      BY <1>3, <1>6, <3>1
    <3>3. other \in unavailable <=> ServersIn(other) \subseteq DOMAIN m_cooldown
      BY <3>2 DEF CooldownsFit, CitiesFit
    <3> QED BY <1>3, <2>2, <3>1, <3>3
  <2> QED BY <2>1, <2>2
<1>7. CitiesFit(new, unavailable \cup {city})
  BY <1>6 DEF CitiesFit
<1> QED BY <1>2, <1>5, <1>7 DEF CooldownsFit, CitiesFit

\* The servers whose cooldown has ended are forgotten.
LEMMA ClearCooldownsFits ==
  ASSUME CooldownsFit, clearCooldowns
  PROVE  CooldownsFit'
<1>0. PICK expired : expired = {s \in DOMAIN m_cooldown : m_cooldown[s] = 0}
  OBVIOUS
<1>1. PICK new : new = [s \in DOMAIN m_cooldown \ expired |-> m_cooldown[s]]
  OBVIOUS
<1>2. /\ m_cooldown' = new /\ unavailable' = unavailable \ {CityOf[s] : s \in expired}
  BY <1>0, <1>1 DEF clearCooldowns
<1>9. m_cooldownTimer' \in BOOLEAN
  BY DEF clearCooldowns
<1>3. /\ DOMAIN new = DOMAIN m_cooldown \ expired
      /\ \A t \in DOMAIN new : new[t] = m_cooldown[t]
  BY <1>1
<1>4. expired \subseteq DOMAIN m_cooldown /\ expired \subseteq Servers
  BY <1>0 DEF CooldownsFit
<1>5. DOMAIN new \subseteq Servers /\ \A t \in DOMAIN new : new[t] \in 0 .. COOLDOWN
  BY <1>3 DEF CooldownsFit
<1>6. ASSUME NEW city \in Cities
      PROVE  city \in unavailable \ {CityOf[s] : s \in expired} <=> ServersIn(city) \subseteq DOMAIN new
  <2>1. CASE \E s \in expired : CityOf[s] = city
    <3>1. PICK s \in expired : CityOf[s] = city
      BY <2>1
    <3>2. s \in ServersIn(city) /\ s \notin DOMAIN new
      BY <1>3, <1>4, <3>1 DEF ServersIn
    <3> QED BY <3>1, <3>2
  <2>2. CASE \A s \in expired : CityOf[s] # city
    <3>1. ServersIn(city) \cap expired = {}
      BY <2>2 DEF ServersIn
    <3>2. ASSUME NEW t \in ServersIn(city) \cap DOMAIN m_cooldown PROVE m_cooldown[t] > 0
      <4>1. m_cooldown[t] # 0 /\ m_cooldown[t] \in 0 .. COOLDOWN
        BY <1>0, <3>1 DEF CooldownsFit
      <4> QED BY <4>1, LatencyConstants
    <3>3. city \in unavailable <=> ServersIn(city) \subseteq DOMAIN m_cooldown
      BY <3>2 DEF CooldownsFit, CitiesFit
    <3> QED BY <1>3, <2>2, <3>1, <3>3
  <2> QED BY <2>1, <2>2
<1>7. CitiesFit(new, unavailable \ {CityOf[s] : s \in expired})
  BY <1>6 DEF CitiesFit
<1> QED BY <1>2, <1>5, <1>7, <1>9 DEF CooldownsFit, CitiesFit

\* Time goes on: the pings age, and the cooldowns run down.
LEMMA TickFits ==
  ASSUME LatInv, latTick
  PROVE  LatInv'
<1> USE DEF LatInv
<1>1. /\ m_pingReplyList \in Seq(PingRecord) /\ Len(m_pingReplyList) \in Nat
      /\ DOMAIN m_pingReplyList = 1 .. Len(m_pingReplyList) /\ Len(m_pingReplyList) <= MAX_PARALLEL
  BY DEF PingsFit, InOrderOfAge
<1>2. PICK list : list = m_pingReplyList
  OBVIOUS
<1>3. PICK older : older = [i \in DOMAIN list |->
                              [list[i] EXCEPT !.age = IF @ < LATENCY_TIMEOUT THEN @ + 1 ELSE @]]
  OBVIOUS
<1>4. m_pingReplyList' = older
  BY <1>2, <1>3 DEF latTick
<1>5. ASSUME NEW i \in 1 .. Len(list)
      PROVE  /\ list[i].age \in 0 .. LATENCY_TIMEOUT /\ older[i] \in PingRecord
             /\ older[i].age = IF list[i].age < LATENCY_TIMEOUT THEN list[i].age + 1 ELSE list[i].age
  <2>1. list[i] \in PingRecord
    BY <1>1, <1>2
  <2>2. PICK a : a = IF list[i].age < LATENCY_TIMEOUT THEN list[i].age + 1 ELSE list[i].age
    OBVIOUS
  <2>3. list[i].age \in 0 .. LATENCY_TIMEOUT
    BY <2>1 DEF PingRecord
  <2>4. a \in 0 .. LATENCY_TIMEOUT
    BY <2>2, <2>3, LatencyConstants
  <2>5. older[i] = [list[i] EXCEPT !.age = a]
    BY <1>1, <1>2, <1>3, <2>2
  <2>6. older[i] \in PingRecord /\ older[i].age = a
    BY <2>1, <2>4, <2>5 DEF PingRecord
  <2> QED BY <2>2, <2>3, <2>6
<1>6. older \in Seq(PingRecord) /\ Len(older) = Len(list)
  <2>1. DOMAIN older = 1 .. Len(list) /\ older = [i \in DOMAIN older |-> older[i]]
    BY <1>1, <1>2, <1>3
  <2>2. older \in [1 .. Len(list) -> PingRecord]
    BY <1>5, <2>1
  <2> QED BY <1>1, <1>2, <2>2
<1>7. ASSUME NEW i \in 1 .. Len(older), NEW j \in 1 .. Len(older), i < j
      PROVE  older[i].age >= older[j].age
  <2>1. i \in 1 .. Len(list) /\ j \in 1 .. Len(list)
    BY <1>6
  <2>2. list[i].age >= list[j].age
    BY <1>2, <1>7, <2>1 DEF PingsFit, InOrderOfAge
  <2>3. /\ list[i].age \in 0 .. LATENCY_TIMEOUT /\ list[j].age \in 0 .. LATENCY_TIMEOUT
        /\ older[i].age = IF list[i].age < LATENCY_TIMEOUT THEN list[i].age + 1 ELSE list[i].age
        /\ older[j].age = IF list[j].age < LATENCY_TIMEOUT THEN list[j].age + 1 ELSE list[j].age
    BY <1>5, <2>1
  <2> QED BY <2>2, <2>3, LatencyConstants
<1>8. InOrderOfAge(older) /\ Len(older) <= MAX_PARALLEL
  BY <1>1, <1>2, <1>6, <1>7 DEF InOrderOfAge
<1>9. latSender' = latSender /\ m_pingSendQueue' = m_pingSendQueue /\ latSequence' = latSequence
  BY DEF latTick
<1>10. ASSUME latSender
       PROVE  /\ older # <<>> /\ m_pingTimeout' \in 0 .. LATENCY_TIMEOUT
              /\ m_pingTimeout' = LATENCY_TIMEOUT - older[1].age
  <2>1. /\ m_pingTimeout > 0 /\ m_pingTimeout' = m_pingTimeout - 1
        /\ m_pingTimeout \in 0 .. LATENCY_TIMEOUT
        /\ list # <<>> /\ m_pingTimeout = LATENCY_TIMEOUT - list[1].age
    BY <1>2, <1>10 DEF latTick, PingsFit
  <2>2. 1 \in 1 .. Len(list)
    BY <1>1, <1>2, <2>1
  <2>3. /\ list[1].age \in 0 .. LATENCY_TIMEOUT
        /\ older[1].age = IF list[1].age < LATENCY_TIMEOUT THEN list[1].age + 1 ELSE list[1].age
    BY <1>5, <2>2
  <2>4. list[1].age < LATENCY_TIMEOUT
    BY <2>1, <2>3, LatencyConstants
  <2>5. m_pingTimeout' \in 0 .. LATENCY_TIMEOUT /\ m_pingTimeout' = LATENCY_TIMEOUT - older[1].age
    BY <2>1, <2>3, <2>4, LatencyConstants
  <2>6. older # <<>>
    BY <1>6, <2>2
  <2> QED BY <2>5, <2>6
<1>11. ASSUME ~latSender PROVE m_pingTimeout' = m_pingTimeout
  BY <1>11 DEF latTick
<1>12. PingsFit'
  <2>1. m_pingSendQueue' \in Seq(Servers) /\ latSequence' \in 0 .. LatSeqTurn - 1
    BY <1>9 DEF PingsFit
  <2>2. m_pingTimeout' \in 0 .. LATENCY_TIMEOUT
    BY <1>10, <1>11 DEF PingsFit
  <2>3. latSender' => m_pingReplyList' # <<>> /\ m_pingTimeout' = LATENCY_TIMEOUT - m_pingReplyList'[1].age
    BY <1>4, <1>9, <1>10
  <2> QED BY <1>4, <1>8, <2>1, <2>2, <2>3 DEF PingsFit, InOrderOfAge
<1>13. RoundsFit'
  <2>1. /\ vpnOff' = vpnOff /\ m_refreshTimer' = m_refreshTimer /\ m_wantRefresh' = m_wantRefresh
        /\ latFlying' = latFlying
    BY DEF latTick
  <2>2. m_pingReplyList' # <<>> => m_pingReplyList # <<>>
    <3>1. ASSUME list = <<>> PROVE older = <<>>
      BY <1>6, <3>1
    <3> QED BY <1>2, <1>4, <3>1
  <2> QED BY <1>9, <2>1, <2>2, Zenon DEF RoundsFit, RefreshNeverForgotten, MeasuresOffline
<1>14. CooldownsFit'
  <2>1. PICK new : new = [s \in DOMAIN m_cooldown |-> IF m_cooldown[s] > 0 THEN m_cooldown[s] - 1 ELSE 0]
    OBVIOUS
  <2>2. m_cooldown' = new /\ unavailable' = unavailable /\ m_cooldownTimer' = m_cooldownTimer
    BY <2>1 DEF latTick
  <2>3. DOMAIN new = DOMAIN m_cooldown
    BY <2>1
  <2>4. ASSUME NEW s \in DOMAIN new
        PROVE  new[s] \in 0 .. COOLDOWN /\ (new[s] > 0 => m_cooldown[s] > 0)
    <3>1. m_cooldown[s] \in 0 .. COOLDOWN /\ new[s] = IF m_cooldown[s] > 0 THEN m_cooldown[s] - 1 ELSE 0
      BY <2>1, <2>3 DEF CooldownsFit
    <3> QED BY <3>1, LatencyConstants
  <2>5. CitiesFit(new, unavailable)
    BY <2>3, <2>4 DEF CooldownsFit, CitiesFit
  <2> QED BY <2>2, <2>3, <2>4, <2>5 DEF CooldownsFit, CitiesFit
<1> QED BY <1>12, <1>13, <1>14

\* Every step keeps the invariant.
LEMMA LatencyStep ==
  ASSUME LatInv, [LatencyNext]_latencyVars
  PROVE  LatInv'
<1> USE DEF LatInv
<1>0. m_refreshTimer \in BOOLEAN /\ FALSE \in BOOLEAN
  BY DEF RoundsFit
<1>1. CASE refreshTimeout
  <2>1. latStart(FALSE) /\ vpnOff' = vpnOff /\ UNCHANGED cooldownVars
    BY <1>1 DEF refreshTimeout
  <2> QED BY <1>0, <2>1, StartFits, CooldownsKept
<1>2. CASE serversChanged
  <2>1. latStart(m_refreshTimer) /\ vpnOff' = vpnOff /\ UNCHANGED cooldownVars
    BY <1>2 DEF serversChanged
  <2> QED BY <1>0, <2>1, StartFits, CooldownsKept
<1>3. CASE refreshRequested
  <2>1. latStart(m_refreshTimer) /\ vpnOff' = vpnOff /\ UNCHANGED cooldownVars
    BY <1>3 DEF refreshRequested
  <2> QED BY <1>0, <2>1, StartFits, CooldownsKept
<1>4. CASE vpnStateChanged
  <2>1. UNCHANGED cooldownVars
    BY <1>4 DEF vpnStateChanged
  <2> QED BY <1>4, <2>1, StateChangeFits, CooldownsKept
<1>5. CASE latPingTimeout
  <2>1. /\ maybeSendPings(m_pingSendQueue, m_pingReplyList, latSequence)
        /\ IF latSender' THEN UNCHANGED m_refreshTimer ELSE TRUE
        /\ UNCHANGED <<vpnOff, m_wantRefresh>> /\ UNCHANGED cooldownVars /\ latSender
    BY <1>5 DEF latPingTimeout
  <2>2. InOrderOfAge(m_pingReplyList) /\ Len(m_pingReplyList) <= MAX_PARALLEL /\ m_pingReplyList # <<>>
    BY <2>1 DEF PingsFit
  <2>3. PICK list : list = m_pingReplyList
    OBVIOUS
  <2>4. PingsFit' /\ RoundsFit'
    BY <2>1, <2>2, <2>3, GoesOn
  <2> QED BY <2>1, <2>4, CooldownsKept
<1>6. CASE \E q \in latAnswers : recvPing(q)
  BY <1>6, ReceivedFits
<1>7. CASE \E q \in latFlying : latPongArrives(q)
  <2>1. PICK q \in latFlying : latPongArrives(q)
    BY <1>7
  <2>2. PingsFit'
    BY <2>1 DEF latPongArrives, PingsFit, InOrderOfAge
  <2>3. /\ vpnOff' = vpnOff /\ m_refreshTimer' = m_refreshTimer /\ m_wantRefresh' = m_wantRefresh
        /\ latSender' = latSender /\ m_pingReplyList' = m_pingReplyList
        /\ (latFlying' # {} => latFlying # {})
    BY <2>1 DEF latPongArrives
  <2>4. RoundsFit'
    BY <2>3, Zenon DEF RoundsFit, RefreshNeverForgotten, MeasuresOffline
  <2>5. UNCHANGED cooldownVars
    BY <2>1 DEF latPongArrives
  <2> QED BY <2>2, <2>4, <2>5, CooldownsKept
<1>8. CASE \E s \in Servers : setCooldown(s)
  <2>1. PICK s \in Servers : setCooldown(s)
    BY <1>8
  <2>2. UNCHANGED <<vpnOff, pingListVars, latAnswers, m_refreshTimer, m_wantRefresh>>
    BY <2>1 DEF setCooldown
  <2> QED BY <2>1, <2>2, PingsKept, SetCooldownFits
<1>9. CASE \E city \in Cities : setCityCooldown(city)
  <2>1. PICK city \in Cities : setCityCooldown(city)
    BY <1>9
  <2>2. UNCHANGED <<vpnOff, pingListVars, latAnswers, m_refreshTimer, m_wantRefresh>>
    BY <2>1 DEF setCityCooldown
  <2> QED BY <2>1, <2>2, PingsKept, SetCityCooldownFits
<1>10. CASE clearCooldowns
  <2>1. UNCHANGED <<vpnOff, pingListVars, latAnswers, m_refreshTimer, m_wantRefresh>>
    BY <1>10 DEF clearCooldowns
  <2> QED BY <1>10, <2>1, PingsKept, ClearCooldownsFits
<1>11. CASE latTick
  BY <1>11, TickFits
<1>12. CASE UNCHANGED latencyVars
  <2>1. /\ UNCHANGED <<vpnOff, pingListVars, latAnswers, m_refreshTimer, m_wantRefresh>>
        /\ UNCHANGED cooldownVars
    BY <1>12 DEF latencyVars
  <2> QED BY <2>1, PingsKept, CooldownsKept
<1> QED BY <1>1, <1>2, <1>3, <1>4, <1>5, <1>6, <1>7, <1>8, <1>9, <1>10, <1>11, <1>12
        DEF LatencyNext, MeasureNext, CooldownNext

\* What makes ServerLatency's rounds and scores right, for any servers, cities and
\* limits: a refresh is never forgotten, pings are only under way while the client is
\* off, the list is in the order in which its pings time out, with the timer for its
\* head, and a city is unavailable just as long as all its servers cool down.
THEOREM LatencyIsSound == LatencySpec => [](LatencyTypeOK /\ LatencySound)
<1>1. LatencyInit => LatInv
  <2> SUFFICES ASSUME LatencyInit PROVE LatInv
    OBVIOUS
  <2> USE DEF LatencyInit
  <2>1. PingsFit
    <3>1. m_pingSendQueue \in Seq(Servers) /\ latSequence \in 0 .. LatSeqTurn - 1
      BY LatencyConstants
    <3>2. m_pingTimeout \in 0 .. LATENCY_TIMEOUT /\ ~latSender
      BY LatencyConstants
    <3>3. InOrderOfAge(m_pingReplyList) /\ Len(m_pingReplyList) <= MAX_PARALLEL
      BY NoPingsInOrder
    <3> QED BY <3>1, <3>2, <3>3 DEF PingsFit
  <2>2. RoundsFit
    BY Zenon DEF RoundsFit, RefreshNeverForgotten, MeasuresOffline
  <2>3. DOMAIN m_cooldown = {} /\ unavailable = {}
    OBVIOUS
  <2>4. \A city \in Cities : ServersIn(city) # {}
    BY DEF Cities, ServersIn
  <2>5. CitiesFit(m_cooldown, unavailable)
    BY <2>3, <2>4 DEF CitiesFit
  <2>6. CooldownsFit
    BY <2>3, <2>5 DEF CooldownsFit
  <2> QED BY <2>1, <2>2, <2>6 DEF LatInv
<1>2. LatInv /\ [LatencyNext]_latencyVars => LatInv'
  BY LatencyStep
<1>3. LatInv => LatencyTypeOK /\ LatencySound
  <2> SUFFICES ASSUME LatInv PROVE LatencyTypeOK /\ LatencySound
    OBVIOUS
  <2>1. PingsFit /\ RoundsFit /\ CooldownsFit
    BY DEF LatInv
  <2>2. m_pingReplyList \in Seq(PingRecord) /\ DOMAIN m_pingReplyList = 1 .. Len(m_pingReplyList)
    BY <2>1 DEF PingsFit, InOrderOfAge
  <2>3. {vpnOff, latSender, m_refreshTimer, m_wantRefresh, m_cooldownTimer} \subseteq BOOLEAN
    BY <2>1, Zenon DEF RoundsFit, CooldownsFit
  <2>4. LatencyTypeOK
    BY <2>1, <2>2, <2>3 DEF LatencyTypeOK, PingsFit, CooldownsFit
  <2>5. TimeoutsInOrder
    <3>1. \A i, j \in DOMAIN m_pingReplyList :
            i < j => m_pingReplyList[i].age >= m_pingReplyList[j].age
      BY <2>1, <2>2 DEF PingsFit, InOrderOfAge
    <3>2. ASSUME latSender
          PROVE  m_pingReplyList # <<>> /\ m_pingTimeout <= LATENCY_TIMEOUT - m_pingReplyList[1].age
      BY <2>1, <3>2, LatencyConstants DEF PingsFit
    <3> QED BY <3>1, <3>2 DEF TimeoutsInOrder
  <2>6. UnavailableIsCooling
    BY <2>1 DEF CooldownsFit, CitiesFit, UnavailableIsCooling
  <2>7. RefreshNeverForgotten /\ MeasuresOffline
    BY <2>1 DEF RoundsFit
  <2> QED BY <2>4, <2>5, <2>6, <2>7 DEF LatencySound
<1> QED BY <1>1, <1>2, <1>3, PTL DEF LatencySpec

=============================================================================
