------------------------------- MODULE MCGame -------------------------------
(***************************************************************************)
(* Instances of Game for TLC.                                              *)
(***************************************************************************)
EXTENDS Game

\* Two rows of three squares and a column of two: a line of either player,
\* a line of each in both orders of the scan, two lines by one move, a draw.
Squares == 1 .. 6
Winning == <<{1, 2, 3}, {4, 5, 6}, {2, 5}>>
=============================================================================
