----------------------------- MODULE Selections ------------------------------
(***************************************************************************)
(* The part of a list that a loop over it keeps: the loops of              *)
(* loadFromSettings() and removeProfile() over the profiles, of            *)
(* deleteTasks() over the queue, and of maybeSendPings() over the pings    *)
(* that timed out.  It is what SelectSeq gives, written without recursion: *)
(* the k-th of the chosen positions comes k-th.                            *)
(***************************************************************************)
EXTENDS Naturals, FiniteSets

\* The elements of a list at the given positions, in their order.
AtPositions(s, positions) ==
  [k \in 1 .. Cardinality(positions) |->
     s[CHOOSE i \in positions : Cardinality(positions \cap 1..i) = k]]

=============================================================================
