------------------------------- MODULE Match -------------------------------
(***************************************************************************)
(* What a game promises its players, whatever their threads do: they move  *)
(* in turn, no mark is ever overwritten, and who has a line does not move  *)
(* again.  (That nobody moves once there is a line is more than game.c     *)
(* keeps: the loser may get one move in.)                                  *)
(***************************************************************************)
EXTENDS Sequences

CONSTANTS
    Cell,    \* the squares of the board
    Lines    \* the sets of squares that win, in a sequence

VARIABLES
    board,   \* the mark on each square
    next     \* the role that is to move

vars == <<board, next>>

Role == {"X", "O"}
Empty == " "

Other(r) == IF r = "X" THEN "O" ELSE "X"

HasLine(b, r) == \E i \in DOMAIN Lines : \A m \in Lines[i] : b[m] = r

Init == /\ board = [m \in Cell |-> Empty]
        /\ next = "X"

Move(r, m) == /\ next = r /\ board[m] = Empty /\ ~HasLine(board, r)
              /\ board' = [board EXCEPT ![m] = r]
              /\ next' = Other(r)

Next == \E r \in Role, m \in Cell : Move(r, m)

Spec == Init /\ [][Next]_vars
=============================================================================
