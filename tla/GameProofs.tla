----------------------------- MODULE GameProofs -----------------------------
(***************************************************************************)
(* Theorems about Game, for every board and every set of lines: what the   *)
(* variables hold, that Game implements Match, and that the result of a    *)
(* game that nobody resigned is what its board shows.                      *)
(***************************************************************************)
EXTENDS Game, WellFoundedInduction, TLAPS

-----------------------------------------------------------------------------
\* The lines of a board.

Board == [Cell -> Role \cup {Empty}]

\* A set of natural numbers that is not empty has a least element.
LEMMA MinExists ==
    ASSUME NEW S \in SUBSET Nat, S # {}
    PROVE  Min(S) \in S
<1>1. PICK x \in S : \A y \in S : <<y, x>> \notin OpToRel(<, Nat)
  BY WFMin, NatLessThanWellFounded
<1>2. \A y \in S : ~(y < x)
  BY <1>1, Zenon DEF OpToRel
<1>3. \A y \in S : x <= y
  BY <1>2
<1> QED
  BY <1>3 DEF Min

\* A verdict is a mark, a draw or nothing, and a mark when there is a line.
LEMMA VerdictOfBoard ==
    ASSUME NEW b \in Board
    PROVE  /\ Verdict(b) \in Role \cup {"draw", "none"}
           /\ \A r \in Role : HasLine(b, r) => Verdict(b) \in Role
<1> DEFINE lines == {i \in DOMAIN Lines : \E r \in Role : Complete(b, i, r)}
<1>1. DOMAIN Lines \in SUBSET Nat
  BY LinesAssumption
<1>2. CASE lines = {}
  <2>1. \A r \in Role : ~HasLine(b, r)
    BY <1>2 DEF HasLine
  <2> QED
    BY <1>2, <2>1 DEF Verdict
<1>3. CASE lines # {}
  <2>1. Min(lines) \in lines
    <3>1. lines \in SUBSET Nat
      BY <1>1
    <3> QED
      BY <1>3, <3>1, MinExists
  <2>2. \E r \in Role : Complete(b, Min(lines), r)
    BY <2>1
  <2>3. Verdict(b) = CHOOSE r \in Role : Complete(b, Min(lines), r)
    BY <1>3 DEF Verdict
  <2> QED
    BY <2>2, <2>3
<1> QED
  BY <1>2, <1>3

\* A mark of the other player completes no line.
LEMMA NoLineByOther ==
    ASSUME NEW b \in Board, NEW m \in Cell, NEW q \in Role, NEW r \in Role,
           r # q, HasLine([b EXCEPT ![m] = q], r)
    PROVE  HasLine(b, r)
<1>1. PICK i \in DOMAIN Lines : Complete([b EXCEPT ![m] = q], i, r)
  BY DEF HasLine
<1>2. Lines[i] \subseteq Cell
  BY LinesAssumption
<1>3. m \notin Lines[i]
  BY <1>1 DEF Complete, Board
<1>4. Complete(b, i, r)
  BY <1>1, <1>2, <1>3 DEF Complete, Board
<1> QED
  BY <1>4 DEF HasLine

-----------------------------------------------------------------------------
\* What the variables hold.

\* Who is about to say that the game is over has a result, and who is about to
\* name the winner has a mark to name.
Marked == \A r \in Role : /\ pc[r] = "end" => res[r] # "none"
                          /\ pc[r] = "win" => res[r] \in Role

LEMMA TypesInit == Init => TypeOK /\ Marked
<1> SUFFICES ASSUME Init PROVE TypeOK /\ Marked
  OBVIOUS
<1>1. NoCell \in Cell
  BY CellAssumption DEF NoCell
<1>2. posted \in Seq(Outcome)
  BY DEF Init
<1>3. /\ board \in [Cell -> Role \cup {Empty}]
      /\ cell \in [Role -> Cell]
  BY <1>1 DEF Init
<1> QED
  BY <1>2, <1>3 DEF Init, TypeOK, Marked, Outcome, Role, NoRole

LEMMA TypesNext == TypeOK /\ Marked /\ [Next]_vars => TypeOK' /\ Marked'
<1> SUFFICES ASSUME TypeOK, Marked, [Next]_vars PROVE TypeOK' /\ Marked'
  OBVIOUS
<1>1. NoCell \in Cell
  BY CellAssumption DEF NoCell
<1> USE DEF TypeOK, Marked, Outcome, Role, NoRole, Goto, game, invitation
<1>2. ASSUME NEW r \in Role, NEW o \in {"move", "resign"}, Ask(r, o)
      PROVE  TypeOK' /\ Marked'
  BY <1>2 DEF Ask
<1>3. ASSUME NEW r \in Role, Moving(r) PROVE TypeOK' /\ Marked'
  <2>1. ASSUME NEW m \in Cell, Parse(r, m) PROVE TypeOK' /\ Marked'
    BY <2>1 DEF Parse
  <2>2. CASE ParseFails(r) \/ CheckFails(r) \/ LookFails(r) \/ SearchFails(r) \/ NotOver(r)
    BY <1>1, <2>2 DEF ParseFails, CheckFails, LookFails, SearchFails, NotOver, Return
  <2>3. CASE Check(r) \/ Look(r) \/ Search(r) \/ IsOver(r)
    BY <2>3 DEF Check, Look, Search, IsOver
  <2>4. CASE Place(r)
    <3>1. board' \in Board
      BY <2>4 DEF Place, Board
    <3>2. Verdict(board') \in Role \cup {"draw", "none"}
      BY <3>1, VerdictOfBoard
    <3> QED
      BY <2>4, <3>1, <3>2 DEF Place, Board
  <2>5. CASE Pass(r)
    BY <2>5 DEF Pass, Other
  <2>6. CASE End(r)
    BY <2>6 DEF End
  <2>7. CASE Win(r)
    BY <2>7 DEF Win
  <2> QED
    BY <1>3, <2>1, <2>2, <2>3, <2>4, <2>5, <2>6, <2>7 DEF Moving
<1>4. ASSUME NEW r \in Role, Resigning(r) PROVE TypeOK' /\ Marked'
  <2>1. CASE Close(r)
    BY <2>1 DEF Close
  <2>2. CASE Running(r)
    BY <2>2 DEF Running
  <2>3. CASE Terminate(r)
    BY <2>3 DEF Terminate
  <2>4. CASE Concede(r)
    BY <2>4 DEF Concede, Other
  <2>5. CASE CloseFails(r) \/ RunningFails(r)
    BY <1>1, <2>5 DEF CloseFails, RunningFails, Return
  <2> QED
    BY <1>4, <2>1, <2>2, <2>3, <2>4, <2>5 DEF Resigning
<1>5. ASSUME NEW r \in Role, Leaving(r) PROVE TypeOK' /\ Marked'
  <2>1. ASSUME NEW q \in {"rmpeer", "post"}, NEW p, NEW who \in Role, Remove(r, p, q, who)
        PROVE  TypeOK' /\ Marked'
    BY <2>1 DEF Remove
  <2>2. CASE RemoveFails(r, "rmown", r) \/ RemoveFails(r, "rmpeer", Other(r))
    BY <1>1, <2>2 DEF RemoveFails, Return
  <2>3. CASE Post(r)
    <3>1. posted' \in Seq(Outcome)
      BY <2>3 DEF Post
    <3> QED
      BY <1>1, <2>3, <3>1 DEF Post, Return
  <2> QED
    BY <1>5, <2>1, <2>2, <2>3 DEF Leaving, Other
<1>6. CASE UNCHANGED vars
  BY <1>6 DEF vars, threads
<1> QED
  BY <1>2, <1>3, <1>4, <1>5, <1>6 DEF Next, Work, Forgotten

\* Every variable keeps to its type: most of all, winner is never anything but
\* a role or none, whatever apply_and_verify_safe returned (set_winner).
THEOREM GameTypes == Spec => []TypeOK
<1>1. Spec => [](TypeOK /\ Marked)
  BY TypesInit, TypesNext, PTL DEF Spec
<1> QED
  BY <1>1, PTL

-----------------------------------------------------------------------------
\* Game implements Match.

\* Between the reading of the turn and the passing of it nobody else has it.
InTurn == \A r \in Role : pc[r] \in {"check", "look", "place", "pass"} => turn = r

\* The square that was free when it was looked at is free when it is written.
StillFree == \A r \in Role : pc[r] = "place" => board[cell[r]] = Empty

\* Who has a line either is still on the way to say so, or the game is over.
LineEnds == \A r \in Role :
    HasLine(board, r) => over \/ (pc[r] \in {"pass", "end"} /\ res[r] # "none")

\* Who has passed the check of game_is_over has no line.
NoLine == \A r \in Role : pc[r] \in {"look", "place"} => ~HasLine(board, r)

Inductive == TypeOK /\ InTurn /\ StillFree /\ LineEnds /\ NoLine

LEMMA InductiveInit == Init => Inductive /\ M!Init
<1> SUFFICES ASSUME Init PROVE Inductive /\ M!Init
  OBVIOUS
<1>1. \A r \in Role : ~HasLine(board, r)
  <2> SUFFICES ASSUME NEW r \in Role, NEW i \in DOMAIN Lines, Complete(board, i, r)
               PROVE  FALSE
    BY DEF HasLine
  <2>1. PICK m \in Lines[i] : m \in Cell
    BY LinesAssumption
  <2> QED
    BY <2>1 DEF Complete, Init, Role, Empty
<1>2. \A r \in Role : pc[r] = "idle"
  BY DEF Init
<1> QED
  BY <1>1, <1>2, TypesInit
     DEF Init, Inductive, InTurn, StillFree, LineEnds, NoLine, MoveDone,
         M!Init, M!Empty, Empty

\* A step that leaves the turn and the board alone, and leads to no part of
\* game_apply_move before its end, is none of Match.
LEMMA StepAside ==
    ASSUME Inductive, TypeOK', NEW r \in Role, NEW p, NEW q, Goto(r, p, q),
           UNCHANGED <<board, turn>>, over => over',
           \A o \in Role \ {r} : cell'[o] = cell[o] /\ res'[o] = res[o],
           p # "pass", p # "end" \/ over',
           q \notin {"check", "look", "place", "pass", "end"}
    PROVE  Inductive' /\ UNCHANGED M!vars
<1>1. pc[r] = p /\ pc'[r] = q /\ \A o \in Role \ {r} : pc'[o] = pc[o]
  BY DEF Goto, Inductive, TypeOK
<1>2. InTurn' /\ StillFree' /\ NoLine'
  BY <1>1 DEF Inductive, InTurn, StillFree, NoLine, HasLine, Complete
<1>3. LineEnds'
  BY <1>1 DEF Inductive, LineEnds, HasLine, Complete
<1>4. MoveDone' = MoveDone
  BY <1>1 DEF MoveDone
<1> QED
  BY <1>2, <1>3, <1>4 DEF Inductive, M!vars

\* game_parse_move and the two conditions of game_apply_move.
LEMMA StepLegal ==
    ASSUME Inductive, TypeOK', NEW r \in Role,
           (\E m \in Cell : Parse(r, m)) \/ Check(r) \/ Look(r)
    PROVE  Inductive' /\ UNCHANGED M!vars
<1>1. /\ UNCHANGED <<board, turn, over, res>> /\ turn = r
      /\ pc[r] \in {"parse", "check", "look"} /\ pc'[r] \in {"check", "look", "place"}
      /\ \A o \in Role \ {r} : pc'[o] = pc[o] /\ cell'[o] = cell[o]
  BY DEF Parse, Check, Look, Goto, game, invitation, Inductive, TypeOK, InTurn
<1>2. InTurn'
  BY <1>1 DEF Inductive, InTurn
<1>3. pc'[r] = "place" => board[cell'[r]] = Empty
  BY DEF Parse, Check, Look, Goto, game, invitation, Inductive, TypeOK
<1>4. pc'[r] \in {"look", "place"} => ~HasLine(board, r)
  <2>1. CASE \E m \in Cell : Parse(r, m)
    BY <2>1 DEF Parse, Goto, Inductive, TypeOK
  <2>2. CASE Check(r)
    BY <2>2 DEF Check, Goto, Inductive, LineEnds
  <2>3. CASE Look(r)
    BY <2>3 DEF Look, Goto, Inductive, NoLine
  <2> QED
    BY <2>1, <2>2, <2>3
<1>5. StillFree' /\ NoLine' /\ LineEnds'
  BY <1>1, <1>3, <1>4 DEF Inductive, StillFree, NoLine, LineEnds, HasLine, Complete
<1>6. MoveDone' = MoveDone
  BY <1>1 DEF MoveDone
<1> QED
  BY <1>1, <1>2, <1>5, <1>6 DEF Inductive, M!vars

\* apply_and_verify_safe is the move of Match.
LEMMA StepPlace ==
    ASSUME Inductive, TypeOK', NEW r \in Role, Place(r)
    PROVE  Inductive' /\ M!Move(r, cell[r])
<1>1. /\ pc[r] = "place" /\ pc'[r] = "pass" /\ turn = r /\ cell[r] \in Cell
      /\ UNCHANGED <<turn, over, cell>>
      /\ \A o \in Role \ {r} : pc'[o] = pc[o] /\ res'[o] = res[o]
      /\ \A o \in Role \ {r} : pc[o] \notin {"check", "look", "place", "pass"}
  BY DEF Place, Goto, Inductive, TypeOK, InTurn
<1>2. board[cell[r]] = Empty /\ ~HasLine(board, r)
  BY <1>1 DEF Inductive, StillFree, NoLine
<1>3. ~Full(board)
  BY <1>1, <1>2 DEF Full
<1>4. board' = [board EXCEPT ![cell[r]] = r] /\ res'[r] = Verdict(board')
  BY <1>3 DEF Place, Inductive, TypeOK
<1>5. board \in Board /\ board' \in Board
  BY DEF Inductive, TypeOK, Board
<1>6. InTurn' /\ StillFree' /\ NoLine'
  BY <1>1 DEF Inductive, InTurn, StillFree, NoLine
<1>7. LineEnds'
  <2> SUFFICES ASSUME NEW o \in Role, HasLine(board', o)
               PROVE  over' \/ (pc'[o] \in {"pass", "end"} /\ res'[o] # "none")
    BY DEF LineEnds, HasLine, Complete
  <2>1. CASE o = r
    BY <1>1, <1>4, <1>5, <2>1, VerdictOfBoard DEF Role
  <2>2. CASE o # r
    <3>1. HasLine(board, o)
      BY <1>1, <1>4, <1>5, <2>2, NoLineByOther
    <3> QED
      BY <1>1, <2>2, <3>1 DEF Inductive, LineEnds
  <2> QED
    BY <2>1, <2>2
<1>8. ~MoveDone /\ MoveDone'
  BY <1>1 DEF MoveDone
<1> QED
  BY <1>1, <1>2, <1>4, <1>6, <1>7, <1>8
     DEF Inductive, M!Move, M!HasLine, HasLine, Complete, M!Other, Other,
         M!Empty, Empty

\* set_game_move ends the move of Match.
LEMMA StepPass ==
    ASSUME Inductive, TypeOK', NEW r \in Role, Pass(r)
    PROVE  Inductive' /\ UNCHANGED M!vars
<1>1. /\ pc[r] = "pass" /\ turn = r /\ turn' = Other(r) /\ Other(r) # r
      /\ UNCHANGED <<board, over, cell, res>>
      /\ pc'[r] \in {"search", "end"} /\ (pc'[r] = "search" => res[r] = "none")
      /\ \A o \in Role \ {r} : pc'[o] = pc[o]
      /\ \A o \in Role \ {r} : pc[o] \notin {"check", "look", "place", "pass"}
  BY DEF Pass, Goto, Inductive, TypeOK, InTurn, invitation, Role, Other
<1>2. InTurn' /\ StillFree' /\ NoLine'
  BY <1>1 DEF Inductive, InTurn, StillFree, NoLine, HasLine, Complete
<1>3. LineEnds'
  BY <1>1 DEF Inductive, LineEnds, HasLine, Complete
<1>4. MoveDone /\ ~MoveDone'
  BY <1>1 DEF MoveDone
<1> QED
  BY <1>1, <1>2, <1>3, <1>4 DEF Inductive, M!vars, M!Other, Other

\* Every step is a move of Match or none.
LEMMA StepMatch ==
    ASSUME Inductive, TypeOK', [Next]_vars
    PROVE  Inductive' /\ [M!Next]_(M!vars)
<1>1. ASSUME NEW r \in Role, NEW o \in {"move", "resign"}, Ask(r, o)
      PROVE  Inductive' /\ UNCHANGED M!vars
  BY <1>1, StepAside DEF Ask, game
<1>2. ASSUME NEW r \in Role, NEW p \in {"parse", "check", "look", "search", "over", "close", "running", "rmown", "rmpeer", "post"},
             Return(r, p), UNCHANGED game
      PROVE  Inductive' /\ UNCHANGED M!vars
  <2>1. \A o \in Role \ {r} : cell'[o] = cell[o] /\ res'[o] = res[o]
    BY <1>2 DEF Return, Inductive, TypeOK
  <2> QED
    BY <1>2, <2>1, StepAside DEF Return, game
<1>3. ASSUME NEW r \in Role, Moving(r) PROVE Inductive' /\ [M!Next]_(M!vars)
  <2>1. CASE ParseFails(r) \/ CheckFails(r) \/ LookFails(r) \/ SearchFails(r) \/ NotOver(r)
    BY <1>2, <2>1 DEF ParseFails, CheckFails, LookFails, SearchFails, NotOver
  <2>2. CASE (\E m \in Cell : Parse(r, m)) \/ Check(r) \/ Look(r)
    BY <2>2, StepLegal
  <2>3. CASE Place(r)
    <3>1. cell[r] \in Cell
      BY DEF Inductive, TypeOK
    <3> QED
      BY <2>3, <3>1, StepPlace DEF M!Next, M!Role, Role
  <2>4. CASE Pass(r)
    BY <2>4, StepPass
  <2>5. CASE End(r)
    BY <2>5, StepAside DEF End
  <2>6. CASE Win(r)
    BY <2>6, StepAside DEF Win
  <2>7. CASE Search(r) \/ IsOver(r)
    BY <2>7, StepAside DEF Search, IsOver, game
  <2> QED
    BY <1>3, <2>1, <2>2, <2>3, <2>4, <2>5, <2>6, <2>7 DEF Moving
<1>4. ASSUME NEW r \in Role, Resigning(r) PROVE Inductive' /\ UNCHANGED M!vars
  <2>1. CASE Close(r) \/ Running(r)
    BY <2>1, StepAside DEF Close, Running, game
  <2>2. CASE Terminate(r)
    BY <2>2, StepAside DEF Terminate
  <2>3. CASE Concede(r)
    BY <2>3, StepAside DEF Concede
  <2>4. CASE CloseFails(r) \/ RunningFails(r)
    BY <1>2, <2>4 DEF CloseFails, RunningFails
  <2> QED
    BY <1>4, <2>1, <2>2, <2>3, <2>4 DEF Resigning
<1>5. ASSUME NEW r \in Role, Leaving(r) PROVE Inductive' /\ UNCHANGED M!vars
  <2>1. ASSUME NEW p \in {"rmown", "rmpeer"}, NEW q \in {"rmpeer", "post"}, NEW who,
               Remove(r, p, q, who)
        PROVE  Inductive' /\ UNCHANGED M!vars
    BY <2>1, StepAside DEF Remove, game
  <2>2. ASSUME NEW p \in {"rmown", "rmpeer"}, NEW who, RemoveFails(r, p, who)
        PROVE  Inductive' /\ UNCHANGED M!vars
    BY <1>2, <2>2 DEF RemoveFails
  <2>3. CASE Post(r)
    BY <1>2, <2>3 DEF Post
  <2> QED
    BY <1>5, <2>1, <2>2, <2>3 DEF Leaving
<1>6. CASE UNCHANGED vars
  BY <1>6 DEF vars, threads, game, Inductive, InTurn, StillFree, LineEnds, NoLine,
              HasLine, Complete, MoveDone, M!vars
<1> QED
  BY <1>1, <1>3, <1>4, <1>5, <1>6 DEF Next, Work, Forgotten

\* The moves of the two players alternate, fall on free squares and stop for
\* who has a line, although game_parse_move and game_apply_move read turn,
\* status and square, and write square, turn and status, each under a mutex
\* of its own: Game implements Match.
THEOREM GameImplementsMatch == Spec => PlaysMatch
<1>1. Init => Inductive /\ M!Init
  BY InductiveInit
<1>2. Inductive /\ TypeOK' /\ [Next]_vars => Inductive' /\ [M!Next]_(M!vars)
  BY StepMatch
<1>3. Spec => []TypeOK
  BY GameTypes
<1> QED
  BY <1>1, <1>2, <1>3, PTL DEF Spec, PlaysMatch, M!Spec

-----------------------------------------------------------------------------
\* The result of a game.

\* What a verdict says of a board.
LEMMA VerdictSays ==
    ASSUME NEW b \in Board
    PROVE  /\ Verdict(b) \in Role => HasLine(b, Verdict(b))
           /\ Verdict(b) = "draw" => Full(b) /\ \A r \in Role : ~HasLine(b, r)
           /\ Full(b) => Verdict(b) # "none"
<1> DEFINE lines == {i \in DOMAIN Lines : \E r \in Role : Complete(b, i, r)}
<1>1. CASE lines = {}
  <2>1. \A r \in Role : ~HasLine(b, r)
    BY <1>1 DEF HasLine
  <2> QED
    BY <1>1, <2>1 DEF Verdict, Role
<1>2. CASE lines # {}
  <2>1. Min(lines) \in lines
    <3>1. lines \in SUBSET Nat
      BY LinesAssumption
    <3> QED
      BY <1>2, <3>1, MinExists
  <2>2. \E r \in Role : Complete(b, Min(lines), r)
    BY <2>1
  <2>3. Verdict(b) = CHOOSE r \in Role : Complete(b, Min(lines), r)
    BY <1>2 DEF Verdict
  <2>4. Verdict(b) \in Role /\ Complete(b, Min(lines), Verdict(b))
    BY <2>2, <2>3
  <2> HIDE DEF lines
  <2>5. Min(lines) \in DOMAIN Lines
    BY <2>1 DEF lines
  <2> QED
    BY <2>4, <2>5 DEF HasLine, Role
<1> QED
  BY <1>1, <1>2

\* A mark on a free square leaves every line as it is.
LEMMA LineStays ==
    ASSUME NEW b \in Board, NEW m \in Cell, NEW q \in Role, NEW r \in Role,
           b[m] = Empty, HasLine(b, r)
    PROVE  HasLine([b EXCEPT ![m] = q], r)
<1>1. PICK i \in DOMAIN Lines : Complete(b, i, r)
  BY DEF HasLine
<1>2. Lines[i] \subseteq Cell
  BY LinesAssumption
<1>3. m \notin Lines[i]
  BY <1>1 DEF Complete, Role, Empty
<1>4. Complete([b EXCEPT ![m] = q], i, r)
  BY <1>1, <1>2, <1>3 DEF Complete, Board
<1> QED
  BY <1>4 DEF HasLine

Drawn(b) == Full(b) /\ \A r \in Role : ~HasLine(b, r)

\* What apply_and_verify_safe returned is so as long as it is remembered.
Judged == \A r \in Role : pc[r] \in {"pass", "end", "win"} =>
    /\ res[r] \in Role => HasLine(board, res[r])
    /\ res[r] = "draw" => Drawn(board)

\* Until a game is over it has no winner, and who has filled its board is on
\* the way to say so.
Early == /\ \A r \in Role : pc[r] \in {"win", "concede"} => over
         /\ ~over => winner = NoRole
         /\ ~over /\ Full(board)
              => \E r \in Role : pc[r] \in {"pass", "end"} /\ res[r] # "none"

\* Then the winner has a line or is about to be set, or it is a draw; unless
\* somebody resigned.
Resigned == closed \/ \E r \in Role : pc[r] = "concede"

Late == over /\ ~Resigned =>
    \/ winner \in Role /\ HasLine(board, winner)
    \/ winner = NoRole /\ \E r \in Role : pc[r] = "win"
    \/ winner = NoRole /\ Drawn(board)

Decided == Judged /\ Early /\ Late

\* A step that decides nothing.
LEMMA DecidedAside ==
    ASSUME TypeOK, TypeOK', Decided, NEW r \in Role, NEW p, NEW q, Goto(r, p, q),
           UNCHANGED <<board, over, winner, closed>>,
           \A o \in Role \ {r} : res'[o] = res[o],
           p \notin {"pass", "end", "win", "concede"},
           q \notin {"pass", "end", "win", "concede"}
    PROVE  Decided'
<1>1. pc[r] = p /\ pc'[r] = q /\ \A o \in Role \ {r} : pc'[o] = pc[o]
  BY DEF Goto, TypeOK
<1>2. /\ Full(board)' <=> Full(board)
      /\ Drawn(board)' <=> Drawn(board)
      /\ \A o : HasLine(board', o) <=> HasLine(board, o)
  BY DEF Full, Drawn, HasLine, Complete
<1>3. Judged'
  BY <1>1, <1>2 DEF Decided, Judged, HasLine, Complete
<1>4. Early'
  BY <1>1, <1>2 DEF Decided, Early
<1>5. Resigned' <=> Resigned
  BY <1>1 DEF Resigned
<1>6. Late'
  BY <1>1, <1>2, <1>5 DEF Decided, Late, HasLine, Complete
<1> QED
  BY <1>3, <1>4, <1>6 DEF Decided

\* apply_and_verify_safe writes on a free square of a board that is no draw.
LEMMA DecidedPlace ==
    ASSUME Inductive, TypeOK', Decided, NEW r \in Role, Place(r)
    PROVE  Decided'
<1>1. /\ pc[r] = "place" /\ pc'[r] = "pass" /\ cell[r] \in Cell
      /\ UNCHANGED <<over, winner, closed>>
      /\ \A o \in Role \ {r} : pc'[o] = pc[o] /\ res'[o] = res[o]
  BY DEF Place, Goto, invitation, Inductive, TypeOK
<1>2. board[cell[r]] = Empty /\ ~Full(board) /\ board \in Board /\ board' \in Board
  BY <1>1 DEF Inductive, TypeOK, StillFree, Full, Board
<1>3. board' = [board EXCEPT ![cell[r]] = r] /\ res'[r] = Verdict(board')
  BY <1>2 DEF Place, Inductive, TypeOK
<1>4. \A o \in Role : HasLine(board, o) => HasLine(board', o)
  BY <1>1, <1>2, <1>3, LineStays
<1>5. Judged'
  <2> SUFFICES ASSUME NEW o \in Role, pc'[o] \in {"pass", "end", "win"}
               PROVE  /\ res'[o] \in Role => HasLine(board', res'[o])
                      /\ res'[o] = "draw" => Drawn(board')
    BY DEF Judged, HasLine, Complete, Drawn, Full
  <2>1. CASE o = r
    BY <1>2, <1>3, <2>1, VerdictSays DEF Drawn
  <2>2. CASE o # r
    <3>1. res'[o] = res[o] /\ pc[o] \in {"pass", "end", "win"}
      BY <1>1, <2>2
    <3>2. res[o] # "draw"
      BY <1>2, <3>1 DEF Decided, Judged, Drawn
    <3> QED
      BY <1>4, <3>1, <3>2 DEF Decided, Judged
  <2> QED
    BY <2>1, <2>2
<1>6. Early'
  <2>1. Full(board') => res'[r] # "none"
    BY <1>2, <1>3, VerdictSays
  <2> QED
    BY <1>1, <2>1 DEF Decided, Early, Full
<1>7. Late'
  <2>1. Resigned' <=> Resigned
    BY <1>1 DEF Resigned
  <2> SUFFICES ASSUME over, ~Resigned
               PROVE  \/ winner \in Role /\ HasLine(board', winner)
                      \/ winner = NoRole /\ \E o \in Role : pc'[o] = "win"
    BY <1>1, <2>1 DEF Late, HasLine, Complete
  <2> QED
    BY <1>1, <1>2, <1>4 DEF Decided, Late, Drawn
<1> QED
  BY <1>5, <1>6, <1>7 DEF Decided

\* The other steps of game_apply_move and game_resign leave the board alone.
LEMMA DecidedEnd ==
    ASSUME Inductive, Marked, TypeOK', Decided, NEW r \in Role,
           Pass(r) \/ End(r) \/ Win(r) \/ Terminate(r) \/ Concede(r)
    PROVE  Decided'
<1> USE DEF Pass, End, Win, Terminate, Concede, invitation
<1>1. /\ board' = board /\ res' = res
      /\ \A o \in Role \ {r} : pc'[o] = pc[o]
  BY DEF Goto, Inductive, TypeOK
<1>2. /\ Full(board)' <=> Full(board)
      /\ Drawn(board)' <=> Drawn(board)
      /\ \A o : HasLine(board', o) <=> HasLine(board, o)
  BY <1>1 DEF Full, Drawn, HasLine, Complete
<1>3. /\ pc[r] \in {"pass", "end", "win", "terminate", "concede"}
      /\ pc'[r] \in {"end", "win"} => pc[r] \in {"pass", "end"}
      /\ pc'[r] # "pass"
  BY DEF Goto, Inductive, TypeOK
<1>4. Judged'
  BY <1>1, <1>2, <1>3 DEF Decided, Judged, HasLine, Complete
<1>5. CASE Pass(r)
  <2>1. /\ pc[r] = "pass" /\ pc'[r] \in {"search", "end"} /\ UNCHANGED <<over, winner, closed>>
        /\ res[r] # "none" => pc'[r] = "end"
    BY <1>5 DEF Goto, Inductive, TypeOK
  <2>2. Early'
    BY <1>1, <1>2, <2>1 DEF Decided, Early
  <2>3. Late'
    BY <1>1, <1>2, <2>1 DEF Decided, Late, Resigned, HasLine, Complete
  <2> QED
    BY <1>4, <2>2, <2>3 DEF Decided
<1>6. CASE End(r)
  <2>1. /\ pc[r] = "end" /\ over' /\ UNCHANGED <<winner, closed>>
        /\ pc'[r] = IF res[r] = "draw" THEN "search" ELSE "win"
    BY <1>6 DEF Goto, Inductive, TypeOK
  <2>2. Early'
    BY <1>1, <1>2, <2>1 DEF Decided, Early
  <2>3. ~over => winner = NoRole
    BY DEF Decided, Early
  <2>4. res[r] = "draw" => Drawn(board)
    BY <2>1 DEF Decided, Judged
  <2>5. Late'
    BY <1>1, <1>2, <2>1, <2>3, <2>4 DEF Decided, Late, Resigned, HasLine, Complete
  <2> QED
    BY <1>4, <2>2, <2>5 DEF Decided
<1>7. CASE Win(r)
  <2>1. /\ pc[r] = "win" /\ pc'[r] = "search" /\ winner' = res[r]
        /\ UNCHANGED <<over, closed>>
    BY <1>7 DEF Goto, Inductive, TypeOK
  <2>2. res[r] \in Role /\ HasLine(board, res[r]) /\ over
    BY <2>1 DEF Marked, Decided, Judged, Early
  <2>3. Early'
    BY <1>1, <1>2, <2>1, <2>2 DEF Decided, Early
  <2>4. Late'
    BY <1>1, <2>1, <2>2 DEF Late, HasLine, Complete
  <2> QED
    BY <1>4, <2>3, <2>4 DEF Decided
<1>8. CASE Terminate(r) \/ Concede(r)
  <2>1. pc'[r] = "concede" \/ closed'
    BY <1>8 DEF Goto, Inductive, TypeOK
  <2>2. over' /\ (pc[r] = "concede" => over)
    BY <1>8 DEF Goto, Decided, Early
  <2>3. Early'
    BY <1>1, <1>3, <2>2 DEF Decided, Early
  <2> QED
    BY <1>4, <2>1, <2>3 DEF Decided, Late, Resigned
<1> QED
  BY <1>5, <1>6, <1>7, <1>8

LEMMA DecidedNext ==
    ASSUME Inductive, Marked, TypeOK', Decided, [Next]_vars
    PROVE  Decided'
<1> USE DEF game, invitation
<1>1. ASSUME NEW r \in Role, NEW o \in {"move", "resign"}, Ask(r, o) PROVE Decided'
  BY <1>1, DecidedAside DEF Ask, Inductive
<1>2. ASSUME NEW r \in Role,
             NEW p \in {"parse", "check", "look", "search", "over", "close",
                        "running", "rmown", "rmpeer", "post"},
             Return(r, p), UNCHANGED <<board, over, winner, closed>>
      PROVE  Decided'
  <2>1. \A o \in Role \ {r} : res'[o] = res[o]
    BY <1>2 DEF Return, Inductive, TypeOK
  <2> QED
    BY <1>2, <2>1, DecidedAside DEF Return, Inductive
<1>3. ASSUME NEW r \in Role, Moving(r) PROVE Decided'
  <2>1. CASE ParseFails(r) \/ CheckFails(r) \/ LookFails(r) \/ SearchFails(r) \/ NotOver(r)
    BY <1>2, <2>1 DEF ParseFails, CheckFails, LookFails, SearchFails, NotOver
  <2>2. CASE (\E m \in Cell : Parse(r, m)) \/ Check(r) \/ Look(r) \/ Search(r) \/ IsOver(r)
    BY <2>2, DecidedAside DEF Parse, Check, Look, Search, IsOver, Inductive
  <2> QED
    BY <1>3, <2>1, <2>2, DecidedPlace, DecidedEnd DEF Moving
<1>4. ASSUME NEW r \in Role, Resigning(r) PROVE Decided'
  <2>1. CASE Close(r) \/ Running(r)
    BY <2>1, DecidedAside DEF Close, Running, Inductive
  <2>2. CASE CloseFails(r) \/ RunningFails(r)
    BY <1>2, <2>2 DEF CloseFails, RunningFails
  <2> QED
    BY <1>4, <2>1, <2>2, DecidedEnd DEF Resigning
<1>5. ASSUME NEW r \in Role, Leaving(r) PROVE Decided'
  <2>1. ASSUME NEW p \in {"rmown", "rmpeer"}, NEW q \in {"rmpeer", "post"}, NEW who,
               Remove(r, p, q, who)
        PROVE  Decided'
    BY <2>1, DecidedAside DEF Remove, Inductive
  <2>2. ASSUME NEW p \in {"rmown", "rmpeer"}, NEW who, RemoveFails(r, p, who)
        PROVE  Decided'
    BY <1>2, <2>2 DEF RemoveFails
  <2>3. CASE Post(r)
    BY <1>2, <2>3 DEF Post
  <2> QED
    BY <1>5, <2>1, <2>2, <2>3 DEF Leaving
<1>6. CASE UNCHANGED vars
  BY <1>6 DEF vars, threads, Decided, Judged, Early, Late, Resigned, Drawn, Full,
              HasLine, Complete
<1> QED
  BY <1>1, <1>3, <1>4, <1>5, <1>6 DEF Next, Work, Forgotten

\* Between requests the result of a game that nobody resigned is the one on
\* its board, although a move of the other player can come between the
\* writing of a line, the end of the game and the naming of the winner.
THEOREM ResultsFit == Spec => []ResultFits
<1>1. Init => Inductive /\ Marked /\ Decided
  <2> SUFFICES ASSUME Init PROVE Inductive /\ Marked /\ Decided
    OBVIOUS
  <2>1. ~Full(board)
    BY CellAssumption DEF Init, Full
  <2> QED
    BY <2>1, InductiveInit, TypesInit DEF Init, Decided, Judged, Early, Late
<1>2. Inductive /\ Marked /\ Decided /\ [Next]_vars => Inductive' /\ Marked' /\ Decided'
  <2>1. Inductive /\ Marked /\ [Next]_vars => TypeOK' /\ Marked'
    BY TypesNext DEF Inductive
  <2> QED
    BY <2>1, StepMatch, DecidedNext
<1>3. Inductive /\ Decided => ResultFits
  <2> SUFFICES ASSUME Inductive, Decided, Quiet, ~closed PROVE ResultFits
    BY DEF ResultFits
  <2>1. ~Resigned
    BY DEF Quiet, Resigned
  <2>2. CASE over
    BY <2>1, <2>2 DEF Quiet, ResultFits, Decided, Late, Drawn
  <2>3. CASE ~over
    BY <2>3 DEF Quiet, ResultFits, Decided, Early, Inductive, LineEnds
  <2> QED
    BY <2>2, <2>3
<1> QED
  BY <1>1, <1>2, <1>3, PTL DEF Spec
=============================================================================
