--------------------------- MODULE MCInvitations ---------------------------
(***************************************************************************)
(* Small instances of Invitations for TLC.                                 *)
(***************************************************************************)
EXTENDS Invitations, TLC

\* Heap blocks play the same part, and so do clients as long as each of them
\* may drop its connection or none may.
SymmetryInv == Permutations(Inv)
Symmetry == Permutations(Client) \cup SymmetryInv
=============================================================================
