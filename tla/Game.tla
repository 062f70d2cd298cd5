-------------------------------- MODULE Game --------------------------------
(***************************************************************************)
(* One game of two clients: the requests MOVE and RESIGN of both, from the *)
(* reading of the invitation to the posting of the result (game.c,         *)
(* inv_close, client_make_move, client_resign_game).                       *)
(*                                                                         *)
(* Board, turn, status and winner of a GAME have a mutex each, and each    *)
(* access to one of them is a step.  inv_close holds the state_mutex of    *)
(* the invitation all through game_resign.  What Invitations shows about   *)
(* reference counts and lists is left out: both clients stay logged in,    *)
(* and the invitation and the game stay allocated.                         *)
(***************************************************************************)
EXTENDS Integers, Sequences, FiniteSetsExt

CONSTANTS
    Cell,    \* the squares of the board
    Lines    \* the sets of squares that win, in the order verify_board scans
             \* them: rows, columns, diagonals

ASSUME CellAssumption == IsFiniteSet(Cell) /\ Cell # {}
ASSUME LinesAssumption == Lines \in Seq((SUBSET Cell) \ {{}})

VARIABLES
    \* the GAME
    board,    \* the mark on each square
    turn,     \* cur_turn
    over,     \* game_status
    winner,   \* winner, or NoRole
    \* the INVITATION
    closed,   \* whether its state is INV_CLOSED_STATE
    holder,   \* the role whose thread holds its state_mutex, or NoRole
    listed,   \* whether it is in the list of each party
    posted,   \* the results given to player_post_result, in order
    \* the service threads of the two parties
    pc,       \* the next step
    op,       \* "move" or "resign"
    cell,     \* the square of the move (gm)
    res       \* what apply_and_verify_safe returned (c)

game == <<board, turn, over, winner>>
invitation == <<closed, holder, listed, posted>>
threads == <<pc, op, cell, res>>
vars == <<game, invitation, threads>>

-----------------------------------------------------------------------------

\* FIRST_PLAYER_ROLE and SECOND_PLAYER_ROLE, by their marks.
Role == {"X", "O"}
NoRole == "none"
Empty == " "

NoCell == CHOOSE m \in Cell : TRUE

Other(r) == IF r = "X" THEN "O" ELSE "X"

Complete(b, i, r) == \A m \in Lines[i] : b[m] = r
HasLine(b, r) == \E i \in DOMAIN Lines : Complete(b, i, r)
Full(b) == \A m \in Cell : b[m] # Empty

\* verify_board: the mark of the first line there is; then the search for a
\* free square: a draw (33), or nothing (0).
Verdict(b) ==
    LET lines == {i \in DOMAIN Lines : \E r \in Role : Complete(b, i, r)}
    IN  IF lines # {} THEN CHOOSE r \in Role : Complete(b, Min(lines), r)
        ELSE IF Full(b) THEN "draw" ELSE "none"

Init ==
    /\ board = [m \in Cell |-> Empty]
    /\ turn = "X"
    /\ over = FALSE
    /\ winner = NoRole
    /\ closed = FALSE
    /\ holder = NoRole
    /\ listed = [r \in Role |-> TRUE]
    /\ posted = <<>>
    /\ pc = [r \in Role |-> "idle"]
    /\ op = [r \in Role |-> "none"]
    /\ cell = [r \in Role |-> NoCell]
    /\ res = [r \in Role |-> "none"]

-----------------------------------------------------------------------------
\* Steps of a thread.

Goto(r, p, q) == pc[r] = p /\ pc' = [pc EXCEPT ![r] = q]

\* The request is over, and with it what its local variables held.
Return(r, p) ==
    /\ Goto(r, p, "idle")
    /\ op' = [op EXCEPT ![r] = "none"]
    /\ cell' = [cell EXCEPT ![r] = NoCell]
    /\ res' = [res EXCEPT ![r] = "none"]

\* A packet asks for a move or a resignation; the invitation is in the list.
Ask(r, o) ==
    /\ listed[r]
    /\ Goto(r, "idle", IF o = "move" THEN "parse" ELSE "close")
    /\ op' = [op EXCEPT ![r] = o]
    /\ UNCHANGED <<game, invitation, cell, res>>

-----------------------------------------------------------------------------
\* MOVE.

\* game_parse_move without the comparison with cur_turn.
ParseAnyTurn(r, m) ==
    /\ Goto(r, "parse", "check")
    /\ cell' = [cell EXCEPT ![r] = m]
    /\ UNCHANGED <<game, invitation, op, res>>

\* game_parse_move: the role must be on the move.
Parse(r, m) ==
    /\ turn = r
    /\ Goto(r, "parse", "check")
    /\ cell' = [cell EXCEPT ![r] = m]
    /\ UNCHANGED <<game, invitation, op, res>>

\* It is not, or the string is no move.
ParseFails(r) ==
    /\ Return(r, "parse")
    /\ UNCHANGED <<game, invitation>>

\* game_apply_move: the game must not be over ...
Check(r) ==
    /\ ~over
    /\ Goto(r, "check", "look")
    /\ UNCHANGED <<game, invitation, op, cell, res>>

CheckFails(r) ==
    /\ over
    /\ Return(r, "check")
    /\ UNCHANGED <<game, invitation>>

\* ... and the square must be free (read without a mutex).
Look(r) ==
    /\ board[cell[r]] = Empty
    /\ Goto(r, "look", "place")
    /\ UNCHANGED <<game, invitation, op, cell, res>>

LookFails(r) ==
    /\ board[cell[r]] # Empty
    /\ Return(r, "look")
    /\ UNCHANGED <<game, invitation>>

\* apply_and_verify_safe with verify_board before the square is written.
PlaceVerified(r) ==
    /\ board' = IF Full(board) THEN board ELSE [board EXCEPT ![cell[r]] = r]
    /\ res' = [res EXCEPT ![r] = IF Full(board) THEN "draw" ELSE Verdict(board)]
    /\ Goto(r, "place", "pass")
    /\ UNCHANGED <<turn, over, winner, invitation, op, cell>>

\* apply_and_verify_safe, under board_mutex.  (A full board before the move
\* is a draw: then nothing is placed.)
Place(r) ==
    /\ board' = IF Full(board) THEN board ELSE [board EXCEPT ![cell[r]] = r]
    /\ res' = [res EXCEPT ![r] = IF Full(board) THEN "draw" ELSE Verdict(board')]
    /\ Goto(r, "place", "pass")
    /\ UNCHANGED <<turn, over, winner, invitation, op, cell>>

\* set_game_move
Pass(r) ==
    /\ turn' = Other(r)
    /\ Goto(r, "pass", IF res[r] = "none" THEN "search" ELSE "end")
    /\ UNCHANGED <<board, over, winner, invitation, op, cell, res>>

\* set_game_status, a draw being treated as a win.
EndWins(r) ==
    /\ over' = TRUE
    /\ Goto(r, "end", "win")
    /\ UNCHANGED <<board, turn, winner, invitation, op, cell, res>>

\* set_game_status
End(r) ==
    /\ over' = TRUE
    /\ Goto(r, "end", IF res[r] = "draw" THEN "search" ELSE "win")
    /\ UNCHANGED <<board, turn, winner, invitation, op, cell, res>>

\* set_winner
Win(r) ==
    /\ winner' = res[r]
    /\ Goto(r, "win", "search")
    /\ UNCHANGED <<board, turn, over, invitation, op, cell, res>>

\* search_inv_lst_safe on the opponent's list; then MOVED is sent.
Search(r) ==
    /\ listed[Other(r)]
    /\ Goto(r, "search", "over")
    /\ UNCHANGED <<game, invitation, op, cell, res>>

SearchFails(r) ==
    /\ ~listed[Other(r)]
    /\ Return(r, "search")
    /\ UNCHANGED <<game, invitation>>

\* game_is_over: ENDED is sent to both, the lists follow.
IsOver(r) ==
    /\ over
    /\ Goto(r, "over", "rmown")
    /\ UNCHANGED <<game, invitation, op, cell, res>>

NotOver(r) ==
    /\ ~over
    /\ Return(r, "over")
    /\ UNCHANGED <<game, invitation>>

-----------------------------------------------------------------------------
\* RESIGN.

\* inv_close takes state_mutex; the invitation must not be closed.
Close(r) ==
    /\ holder = NoRole /\ ~closed
    /\ holder' = r
    /\ Goto(r, "close", "running")
    /\ UNCHANGED <<game, closed, listed, posted, op, cell, res>>

CloseFails(r) ==
    /\ holder = NoRole /\ closed
    /\ Return(r, "close")
    /\ UNCHANGED <<game, invitation>>

\* game_resign: the game must not be over.
Running(r) ==
    /\ ~over
    /\ Goto(r, "running", "terminate")
    /\ UNCHANGED <<game, invitation, op, cell, res>>

RunningFails(r) ==
    /\ over
    /\ Return(r, "running")
    /\ holder' = NoRole
    /\ UNCHANGED <<game, closed, listed, posted>>

\* set_game_status
Terminate(r) ==
    /\ over' = TRUE
    /\ Goto(r, "terminate", "concede")
    /\ UNCHANGED <<board, turn, winner, invitation, op, cell, res>>

\* set_winner, and the end of inv_close.
Concede(r) ==
    /\ winner' = Other(r)
    /\ closed' = TRUE
    /\ holder' = NoRole
    /\ Goto(r, "concede", "rmown")
    /\ UNCHANGED <<board, turn, over, listed, posted, op, cell, res>>

-----------------------------------------------------------------------------
\* The end of both: the invitation leaves the two lists, the result is posted.
\* A resignation gives up when it is not in a list any more, a move does not.

Remove(r, p, q, who) ==
    /\ listed[who] \/ op[r] = "move"
    /\ listed' = [listed EXCEPT ![who] = FALSE]
    /\ Goto(r, p, q)
    /\ UNCHANGED <<game, closed, holder, posted, op, cell, res>>

\* As if a move gave up too.
RemoveFailsAlways(r, p, who) ==
    /\ ~listed[who]
    /\ Return(r, p)
    /\ UNCHANGED <<game, invitation>>

RemoveFails(r, p, who) ==
    /\ ~listed[who] /\ op[r] = "resign"
    /\ Return(r, p)
    /\ UNCHANGED <<game, invitation>>

\* player_post_result with the winner of the moment.
Post(r) ==
    /\ posted' = Append(posted, winner)
    /\ Return(r, "post")
    /\ UNCHANGED <<game, closed, holder, listed>>

-----------------------------------------------------------------------------

Moving(r) ==
    \/ \E m \in Cell : Parse(r, m)
    \/ ParseFails(r)
    \/ Check(r) \/ CheckFails(r)
    \/ Look(r) \/ LookFails(r)
    \/ Place(r)
    \/ Pass(r)
    \/ End(r)
    \/ Win(r)
    \/ Search(r) \/ SearchFails(r)
    \/ IsOver(r) \/ NotOver(r)

Resigning(r) ==
    \/ Close(r) \/ CloseFails(r)
    \/ Running(r) \/ RunningFails(r)
    \/ Terminate(r)
    \/ Concede(r)

Leaving(r) ==
    \/ Remove(r, "rmown", "rmpeer", r) \/ RemoveFails(r, "rmown", r)
    \/ Remove(r, "rmpeer", "post", Other(r)) \/ RemoveFails(r, "rmpeer", Other(r))
    \/ Post(r)

Work(r) == Moving(r) \/ Resigning(r) \/ Leaving(r)

\* Nothing is left to do.
Forgotten == /\ \A r \in Role : pc[r] = "idle" /\ ~listed[r]
             /\ UNCHANGED vars

Next == \/ \E r \in Role : Work(r) \/ \E o \in {"move", "resign"} : Ask(r, o)
        \/ Forgotten

\* Each thread goes on with its request; state_mutex is held for a few steps.
Spec == Init /\ [][Next]_vars /\ \A r \in Role : WF_vars(Work(r))

-----------------------------------------------------------------------------

Outcome == Role \cup {NoRole}

TypeOK ==
    /\ board \in [Cell -> Role \cup {Empty}]
    /\ turn \in Role
    /\ over \in BOOLEAN
    /\ winner \in Outcome
    /\ closed \in BOOLEAN
    /\ holder \in Outcome
    /\ listed \in [Role -> BOOLEAN]
    /\ posted \in Seq(Outcome)
    /\ pc \in [Role -> {"idle", "parse", "check", "look", "place", "pass", "end",
                        "win", "search", "over", "close", "running", "terminate",
                        "concede", "rmown", "rmpeer", "post"}]
    /\ op \in [Role -> {"none", "move", "resign"}]
    /\ cell \in [Role -> Cell]
    /\ res \in [Role -> Role \cup {"draw", "none"}]

\* Players move in turn, never overwrite a mark, and never move again once
\* they have a line, although the square is looked at in one critical section
\* and written in another, and the turn is read in a third: between them only
\* the thread whose turn it is goes on (game_apply_move).
MoveDone == \E r \in Role : pc[r] = "pass"
M == INSTANCE Match WITH next <- IF MoveDone THEN Other(turn) ELSE turn
PlaysMatch == M!Spec

Quiet == \A r \in Role : pc[r] = "idle"

\* When no request is at work, a game that is over has the winner that its
\* board shows, unless somebody resigned; and a game that nobody resigned and
\* whose board shows neither a line nor a draw is not over.
ResultFits ==
    Quiet /\ ~closed =>
      IF over
      THEN \/ \E r \in Role : winner = r /\ HasLine(board, r)
           \/ winner = NoRole /\ Full(board) /\ \A r \in Role : ~HasLine(board, r)
      ELSE winner = NoRole /\ ~Full(board) /\ \A r \in Role : ~HasLine(board, r)

\* A game that is over is rated in the end, and is in nobody's list then,
\* whichever of a move and a resignation came first to each of the lists.
OverIsRated == over ~> posted # <<>> /\ \A r \in Role : ~listed[r]

-----------------------------------------------------------------------------
\* What the comments say and the code does not do.

\* "The result of the game is posted": once, and it is the winner of the game.
RatedOnce == Quiet /\ over => posted = <<winner>>
=============================================================================
