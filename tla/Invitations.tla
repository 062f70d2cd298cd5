---------------------------- MODULE Invitations ----------------------------
(***************************************************************************)
(* The invitation lists of the clients, the reference counts that keep     *)
(* invitations and clients in memory, and the service threads that make,   *)
(* revoke, decline, accept, play, resign and log out at the same time      *)
(* (client.c, invitation.c, the handlers of server.c).                     *)
(*                                                                         *)
(* Each client of the model is a connection whose service thread has       *)
(* registered it and logged in a player of its own; Login and registration *)
(* are other components.  A step is one critical section of the code:      *)
(* what a function does under a mutex, with the reads of fields that never *)
(* change while a reference is held, and with the release of a reference   *)
(* when the function gives up.  The checks and the assignments of a move   *)
(* and of a resignation, which no mutex covers together, are steps of      *)
(* their own.                                                              *)
(***************************************************************************)
EXTENDS Integers, FiniteSets

CONSTANTS
    Client,      \* the connections, each served by a thread of its own
    Inv,         \* the heap blocks malloc() can give to an INVITATION
    Cap,         \* the slots of a client's list (MAX_CLIENTS * 128 = 8192)
    NoClient,    \* NULL, where a CLIENT * is expected
    NoInv,       \* NULL, where an INVITATION * is expected
    Droppers,    \* the clients whose connection may end
    Quarantine   \* TRUE: free() never gives a block back to malloc()

ASSUME ClientAssumption == /\ IsFiniteSet(Client)
                           /\ NoClient \notin Client
                           /\ Droppers \subseteq Client
ASSUME InvAssumption == NoInv \notin Inv
ASSUME CapAssumption == Cap \in Nat \ {0}
ASSUME QuarantineAssumption == Quarantine \in BOOLEAN

VARIABLES
    \* CLIENT objects
    lst,      \* invs.lst: the invitation in each slot, or NoInv
    len,      \* invs.len
    cref,     \* ref_count of the client
    player,   \* whether the client's player field is set (logged in)
    \* INVITATION objects, by address
    ref,      \* ref_count of the invitation
    inv,      \* its other fields, and the game it owns
    \* service threads
    pc,       \* the next critical section of the thread
    op,       \* the request it is serving
    slot,     \* its local src_id (of an INVITE) or i (of client_logout)
    ptr,      \* its local inv / new_inv
    peer,     \* its local client_target / client_src / client_opponent
    pslot,    \* its local dst_id / target_id / src_id, where the other has it
    leaving,  \* whether it is inside client_logout()
    \* the world outside
    conn,     \* whether the remote end of the connection is still there
    alive     \* FALSE once a thread has followed a freed pointer

objects == <<lst, len, cref, player, ref, inv>>
threads == <<pc, op, slot, ptr, peer, pslot, leaving>>
vars == <<objects, threads, conn, alive>>

-----------------------------------------------------------------------------
\* Data.

Slot == 0 .. Cap - 1
NoSlot == Cap

\* What a request may ask of an invitation in the requester's list.
Closing == {"revoke", "decline", "resign"}
Request == Closing \cup {"accept", "move"}

\* The order in which client_logout() tries to end the invitation of a slot.
FirstAttempt == "resign"
NextAttempt(o) == IF o = "resign" THEN "revoke" ELSE "decline"

\* A block that malloc() may return, and one that a quarantine holds back.
\* The field early is history: see Becomes.
Blank(s) == [src |-> NoClient, tgt |-> NoClient, state |-> s,
             game |-> "none", turn |-> NoClient, posted |-> 0, early |-> FALSE]

Fresh(s, t) == [Blank("open") EXCEPT !.src = s, !.tgt = t]

Released == Blank(IF Quarantine THEN "quarantined" ELSE "free")

Allocated(i) == inv[i].state \in {"open", "accepted", "closed"}
Parties(i) == {inv[i].src, inv[i].tgt}
Opponent(i, c) == IF inv[i].src = c THEN inv[i].tgt ELSE inv[i].src

\* Slot k is where a scan of c's list from index 0 first meets x.
IsFirst(c, x, k) == /\ lst[c][k] = x
                    /\ \A j \in Slot : j < k => lst[c][j] # x

\* The scans of search_inv_lst and remove_from_inv_lst give up on len = 0.
Listed(c, i) == \E k \in Slot : lst[c][k] = i
InList(c, i) == len[c] # 0 /\ Listed(c, i)

\* Both parties have the invitation in their lists.
Shared(i) == \A p \in Parties(i) : Listed(p, i)

\* One if p, else zero: how often a client is counted.
One(p) == IF p THEN 1 ELSE 0

-----------------------------------------------------------------------------
\* Reference counts.

\* inv_unref(i); at zero the invitation lets go of its two clients and its
\* memory is freed.  The same step takes a reference to gain and gives one
\* to loss back (client_ref, client_unref; NoClient for neither).
DropInv(i, gain, loss) ==
    LET last == ref[i] = 1 IN
    /\ ref' = [ref EXCEPT ![i] = @ - 1]
    /\ inv' = IF last THEN [inv EXCEPT ![i] = Released] ELSE inv
    /\ cref' = [x \in Client |->
                  cref[x] + One(x = gain) - One(x = loss)
                    - One(last /\ x = inv[i].src) - One(last /\ x = inv[i].tgt)]

GainClient(p) == cref' = [x \in Client |-> cref[x] + One(x = p)]
LoseClient(p) == cref' = [x \in Client |-> cref[x] - One(x = p)]

\* client_add_invitation when there is room: the first free slot, one more
\* reference.
Insert(c, i, k) ==
    /\ IsFirst(c, NoInv, k)
    /\ lst' = [lst EXCEPT ![c][k] = i]
    /\ len' = [len EXCEPT ![c] = @ + 1]
    /\ ref' = [ref EXCEPT ![i] = @ + 1]

\* Mutant of Erase: invs.len is not decremented.
EraseKeepsLen(c, i, k) ==
    /\ len[c] # 0
    /\ IsFirst(c, i, k)
    /\ lst' = [lst EXCEPT ![c][k] = NoInv]
    /\ UNCHANGED len

\* The list half of client_remove_invitation; its inv_unref is the
\* DropInv of the same action.
Erase(c, i, k) ==
    /\ len[c] # 0
    /\ IsFirst(c, i, k)
    /\ lst' = [lst EXCEPT ![c][k] = NoInv]
    /\ len' = [len EXCEPT ![c] = @ - 1]

-----------------------------------------------------------------------------
\* Threads and packets.

At(c, p) == alive /\ pc[c] = p
Goto(c, p) == pc' = [pc EXCEPT ![c] = p]

\* client_send_packet succeeds while the peer is there; once it is gone a
\* write may still be buffered or may fail.
SendOutcomes(p) == IF conn[p] THEN {TRUE} ELSE BOOLEAN

\* Mutants of ScanOn: client_logout starts over after each success, or skips
\* a slot after the last attempt.
ScanOver(c, ok) ==
    LET done == ok \/ op[c] = "decline" IN
    /\ slot' = [slot EXCEPT ![c] = IF ok THEN 0 ELSE IF done THEN @ + 1 ELSE @]
    /\ op' = [op EXCEPT ![c] = IF done THEN FirstAttempt ELSE NextAttempt(@)]

ScanSkip(c, ok) ==
    /\ slot' = [slot EXCEPT ![c] = IF op[c] = "decline" THEN @ + 2
                                   ELSE IF ok THEN @ + 1 ELSE @]
    /\ op' = [op EXCEPT ![c] = NextAttempt(@)]

\* client_logout goes on to its next attempt at the slot, or to its next slot.
ScanOn(c, ok) ==
    LET done == ok \/ op[c] = "decline" IN
    /\ slot' = [slot EXCEPT ![c] = IF done THEN @ + 1 ELSE @]
    /\ op' = [op EXCEPT ![c] = IF done THEN FirstAttempt ELSE NextAttempt(@)]

\* The request is over with status ok: back to client_logout, or to the
\* handler, which answers it.  The ACK of an INVITE, which carries the slot,
\* is a step of its own.
Return(c, ok) ==
    /\ ptr' = [ptr EXCEPT ![c] = NoInv]
    /\ peer' = [peer EXCEPT ![c] = NoClient]
    /\ pslot' = [pslot EXCEPT ![c] = NoSlot]
    /\ IF leaving[c]
       THEN Goto(c, "scan") /\ ScanOn(c, ok)
       ELSE IF ok /\ op[c] = "invite"
       THEN Goto(c, "ack") /\ UNCHANGED <<slot, op>>
       ELSE /\ Goto(c, "idle")
            /\ slot' = [slot EXCEPT ![c] = NoSlot]
            /\ op' = [op EXCEPT ![c] = "none"]
    /\ UNCHANGED leaving

\* Mutant of GiveUp: an early return without inv_unref.
GiveUpKeepsInv(c, loss) ==
    /\ UNCHANGED <<ref, inv>>
    /\ LoseClient(loss)
    /\ Return(c, FALSE)

\* A function gives up: inv_unref of its own reference, -1 to its caller.
GiveUp(c, loss) ==
    /\ DropInv(ptr[c], NoClient, loss)
    /\ Return(c, FALSE)

Init ==
    /\ lst = [c \in Client |-> [k \in Slot |-> NoInv]]
    /\ len = [c \in Client |-> 0]
    /\ cref = [c \in Client |-> 1]
    /\ player = [c \in Client |-> TRUE]
    /\ ref = [i \in Inv |-> 0]
    /\ inv = [i \in Inv |-> Blank("free")]
    /\ pc = [c \in Client |-> "idle"]
    /\ op = [c \in Client |-> "none"]
    /\ slot = [c \in Client |-> NoSlot]
    /\ ptr = [c \in Client |-> NoInv]
    /\ peer = [c \in Client |-> NoClient]
    /\ pslot = [c \in Client |-> NoSlot]
    /\ leaving = [c \in Client |-> FALSE]
    /\ conn = [c \in Client |-> TRUE]
    /\ alive = TRUE

-----------------------------------------------------------------------------
\* INVITE: invite_handler and client_make_invitation.

\* creg_lookup finds the target logged in and takes a reference to it.
Lookup(c, t) ==
    /\ At(c, "idle") /\ player[t]
    /\ GainClient(t)
    /\ Goto(c, "create")
    /\ op' = [op EXCEPT ![c] = "invite"]
    /\ peer' = [peer EXCEPT ![c] = t]
    /\ UNCHANGED <<lst, len, player, ref, inv, slot, ptr, pslot, leaving,
                   conn, alive>>

\* inv_create refuses an invitation to oneself and gives up without memory.
CreateFails(c) ==
    /\ At(c, "create")
    /\ peer[c] = c \/ \A i \in Inv : inv[i].state # "free"
    /\ LoseClient(peer[c])
    /\ Return(c, FALSE)
    /\ UNCHANGED <<lst, len, player, ref, inv, conn, alive>>

\* inv_create: the creator's reference, and one to each client.
Create(c, i) ==
    /\ At(c, "create") /\ peer[c] # c
    /\ inv[i].state = "free"
    /\ inv' = [inv EXCEPT ![i] = Fresh(c, peer[c])]
    /\ ref' = [ref EXCEPT ![i] = 1]
    /\ cref' = [x \in Client |-> cref[x] + One(x \in {c, peer[c]})]
    /\ ptr' = [ptr EXCEPT ![c] = i]
    /\ Goto(c, "addsrc")
    /\ UNCHANGED <<lst, len, player, op, slot, peer, pslot, leaving,
                   conn, alive>>

AddToSource(c) ==
    /\ At(c, "addsrc") /\ len[c] # Cap
    /\ \E k \in Slot : Insert(c, ptr[c], k) /\ slot' = [slot EXCEPT ![c] = k]
    /\ Goto(c, "addtgt")
    /\ UNCHANGED <<cref, player, inv, op, ptr, peer, pslot, leaving,
                   conn, alive>>

\* The source's own list is full: the invitation is dropped.
SourceFull(c) ==
    /\ At(c, "addsrc") /\ len[c] = Cap
    /\ GiveUp(c, peer[c])
    /\ UNCHANGED <<lst, len, player, conn, alive>>

AddToTarget(c) ==
    /\ At(c, "addtgt") /\ len[peer[c]] # Cap
    /\ \E k \in Slot : Insert(peer[c], ptr[c], k) /\ pslot' = [pslot EXCEPT ![c] = k]
    /\ Goto(c, "drop")
    /\ UNCHANGED <<cref, player, inv, op, slot, ptr, peer, leaving,
                   conn, alive>>

\* Mutant of TargetFull: the source keeps its slot.
TargetFullKeeps(c) ==
    /\ At(c, "addtgt") /\ len[peer[c]] = Cap
    /\ GiveUp(c, peer[c])
    /\ UNCHANGED <<lst, len, player, conn, alive>>

\* The target's list is full: the creator's reference goes first ...
TargetFull(c) ==
    /\ At(c, "addtgt") /\ len[peer[c]] = Cap
    /\ DropInv(ptr[c], NoClient, NoClient)
    /\ Goto(c, "undo")
    /\ UNCHANGED <<lst, len, player, op, slot, ptr, peer, pslot, leaving,
                   conn, alive>>

\* ... then the source's slot, whose index client_make_invitation returns as
\* if the invitation had been made.
Undo(c) ==
    /\ At(c, "undo")
    /\ \E k \in Slot : Erase(c, ptr[c], k)
    /\ DropInv(ptr[c], NoClient, peer[c])
    /\ Return(c, TRUE)
    /\ UNCHANGED <<player, conn, alive>>

-----------------------------------------------------------------------------
\* How every other request begins: client->invs.lst[id] is read under the
\* list's mutex, and counted after the mutex was released.

\* A request of the remote end for a slot that is in use (one for an empty
\* slot is refused and changes nothing).
Ask(c, o, k) ==
    /\ At(c, "idle") /\ lst[c][k] # NoInv
    /\ Goto(c, "peeked")
    /\ op' = [op EXCEPT ![c] = o]
    /\ ptr' = [ptr EXCEPT ![c] = lst[c][k]]
    /\ UNCHANGED <<objects, slot, peer, pslot, leaving, conn, alive>>

\* Mutant of Take: the pointer is used without a reference of its own.
TakeUncounted(c) ==
    /\ At(c, "peeked")
    /\ Goto(c, "act")
    /\ UNCHANGED <<objects, op, slot, ptr, peer, pslot, leaving, conn, alive>>

\* inv_ref on the pointer read before: the process is lost if its target was
\* freed in the meantime.
Take(c) ==
    /\ At(c, "peeked")
    /\ IF ref[ptr[c]] = 0
       THEN alive' = FALSE /\ UNCHANGED <<ref, pc>>
       ELSE /\ ref' = [ref EXCEPT ![ptr[c]] = @ + 1]
            /\ Goto(c, "act")
            /\ UNCHANGED alive
    /\ UNCHANGED <<lst, len, cref, player, inv, op, slot, ptr, peer, pslot,
                   leaving, conn>>

-----------------------------------------------------------------------------
\* What the request does to the invitation and its game.

\* The party that resigns holds the invitation's state_mutex throughout
\* game_resign; the other requests hold it for one step only.
Conceding(i) == {c \in Client : pc[c] \in {"resign", "close"} /\ ptr[c] = i}

\* Who may ask: the source revokes, the target declines and accepts, either
\* party resigns and moves.
Entitled(c, i) ==
    \/ op[c] = "revoke" /\ c = inv[i].src
    \/ op[c] \in {"decline", "accept"} /\ c = inv[i].tgt
    \/ op[c] \in {"resign", "move"} /\ c \in Parties(i)

\* A move takes no state_mutex, nor does who is not entitled.
Enters(c, i) == op[c] = "move" \/ ~Entitled(c, i) \/ Conceding(i) = {}

\* Mutant of MayWithdraw: inv_close does not look at the state.
MayWithdrawAgain(i) == inv[i].game = "none"

\* inv_close(inv, NULL_ROLE): revoke and decline need that there is no game.
MayWithdraw(i) == inv[i].state \in {"open", "accepted"} /\ inv[i].game = "none"

\* Mutant of MayResign: game_resign does not ask whether the game is over.
MayResignLate(i) == /\ inv[i].state \in {"open", "accepted"}
                    /\ inv[i].game # "none"

\* inv_close(inv, role) and game_resign: the state and, after it, the status
\* of the game are looked at under the state_mutex.
MayResign(i) == /\ inv[i].state \in {"open", "accepted"}
                /\ inv[i].game = "running"

\* Mutant of MayAccept: inv_accept does not look at the state.
MayAcceptAgain(i) == inv[i].game = "none"

\* inv_accept.
MayAccept(i) == inv[i].state = "open"

\* game_parse_move and game_apply_move look at the turn and then at the
\* status.  Nobody else can pass on the turn of who has it, so the two looks
\* are one step.
MayMove(c, i) == inv[i].game = "running" /\ inv[i].turn = c

May(c, i) ==
    /\ Entitled(c, i)
    /\ \/ op[c] \in {"revoke", "decline"} /\ MayWithdraw(i)
       \/ op[c] = "resign" /\ MayResign(i)
       \/ op[c] = "accept" /\ MayAccept(i)
       \/ op[c] = "move" /\ MayMove(c, i)

Refuse(c) ==
    /\ At(c, "act") /\ Enters(c, ptr[c]) /\ ~May(c, ptr[c])
    /\ GiveUp(c, NoClient)
    /\ UNCHANGED <<lst, len, player, conn, alive>>

\* A move that cannot be parsed or is not legal is refused in any state.
RefuseMove(c) ==
    /\ At(c, "act") /\ op[c] = "move" /\ May(c, ptr[c])
    /\ GiveUp(c, NoClient)
    /\ UNCHANGED <<lst, len, player, conn, alive>>

\* The invitation is withdrawn or taken up.  Whether it was in both lists by
\* then is recorded in early: who holds a pointer to a former invitation at
\* the same address may act before that.  No step reads early.
Becomes(i, new) ==
    inv' = [inv EXCEPT ![i] = [new EXCEPT !.early = @ \/ ~Shared(i)]]

\* Revoke and decline close the invitation, accept starts a game in which
\* either party may be the first to move (of its two assignments only the
\* game is seen without the state_mutex), resign and move have only been
\* admitted.
Effect(c, i) ==
    \/ /\ op[c] \in {"revoke", "decline"}
       /\ Becomes(i, [inv[i] EXCEPT !.state = "closed"])
    \/ /\ op[c] = "accept"
       /\ \E t \in Parties(i) :
            Becomes(i, [inv[i] EXCEPT !.state = "accepted", !.game = "running",
                                      !.turn = t])
    \/ op[c] \in {"resign", "move"} /\ UNCHANGED inv

AfterAct(o) == IF o = "resign" THEN "resign" ELSE IF o = "move" THEN "place"
               ELSE IF o = "accept" THEN "search" ELSE "rmown"

Act(c) ==
    /\ At(c, "act") /\ Enters(c, ptr[c]) /\ May(c, ptr[c])
    /\ Effect(c, ptr[c])
    /\ Goto(c, AfterAct(op[c]))
    /\ UNCHANGED <<lst, len, cref, player, ref, op, slot, ptr, peer, pslot,
                   leaving, conn, alive>>

\* game_resign sets the status, though a move may have set it since ...
Resign(c) ==
    /\ At(c, "resign")
    /\ inv' = [inv EXCEPT ![ptr[c]].game = "over"]
    /\ Goto(c, "close")
    /\ UNCHANGED <<lst, len, cref, player, ref, op, slot, ptr, peer, pslot,
                   leaving, conn, alive>>

\* ... and inv_close the state, and releases the state_mutex.
Close(c) ==
    /\ At(c, "close")
    /\ inv' = [inv EXCEPT ![ptr[c]].state = "closed"]
    /\ Goto(c, "rmown")
    /\ UNCHANGED <<lst, len, cref, player, ref, op, slot, ptr, peer, pslot,
                   leaving, conn, alive>>

\* game_apply_move passes the turn, after which the other party may move ...
Place(c) ==
    /\ At(c, "place")
    /\ inv' = [inv EXCEPT ![ptr[c]].turn = Opponent(ptr[c], c)]
    /\ Goto(c, "finish")
    /\ UNCHANGED <<lst, len, cref, player, ref, op, slot, ptr, peer, pslot,
                   leaving, conn, alive>>

\* ... and sets the status when the move has won or filled the board.
Finish(c) ==
    /\ At(c, "finish")
    /\ \/ inv' = [inv EXCEPT ![ptr[c]].game = "over"]
       \/ UNCHANGED inv
    /\ Goto(c, "search")
    /\ UNCHANGED <<lst, len, cref, player, ref, op, slot, ptr, peer, pslot,
                   leaving, conn, alive>>

-----------------------------------------------------------------------------
\* REVOKE, DECLINE and RESIGN take the invitation out of both lists.

\* client_remove_invitation(client, inv).  The end of a game by a move does
\* not look at its result; the other requests give up on -1.
EraseOwn(c) ==
    /\ At(c, "rmown")
    /\ \E k \in Slot : Erase(c, ptr[c], k)
    /\ DropInv(ptr[c], NoClient, NoClient)
    /\ Goto(c, "rmpeer")
    /\ UNCHANGED <<player, op, slot, ptr, peer, pslot, leaving,
                   conn, alive>>

OwnGone(c) ==
    /\ At(c, "rmown") /\ ~InList(c, ptr[c])
    /\ IF op[c] = "move"
       THEN /\ Goto(c, "rmpeer")
            /\ UNCHANGED <<ref, inv, cref, op, slot, ptr, peer, pslot, leaving>>
       ELSE GiveUp(c, NoClient)
    /\ UNCHANGED <<lst, len, player, conn, alive>>

\* client_ref(peer) and client_remove_invitation(peer, inv); a mover holds
\* its reference to the peer since the search, and has no use for the slot.
ErasePeer(c) ==
    LET p == Opponent(ptr[c], c)
        gain == IF op[c] = "move" THEN NoClient ELSE p
    IN
    /\ At(c, "rmpeer")
    /\ \E k \in Slot : /\ Erase(p, ptr[c], k)
                       /\ pslot' = [pslot EXCEPT ![c] =
                                      IF op[c] = "move" THEN @ ELSE k]
    /\ DropInv(ptr[c], gain, NoClient)
    /\ peer' = [peer EXCEPT ![c] = p]
    /\ Goto(c, IF op[c] \in {"move", "resign"} THEN "post" ELSE "drop")
    /\ UNCHANGED <<player, op, slot, ptr, leaving, conn, alive>>

\* Mutant of PeerGone: a mover gives up like the others.
PeerGoneGivesUp(c) ==
    /\ At(c, "rmpeer") /\ ~InList(Opponent(ptr[c], c), ptr[c])
    /\ GiveUp(c, NoClient)
    /\ UNCHANGED <<lst, len, player, conn, alive>>

\* Mutant of PeerGone: the scan of the peer's list stops one slot early.
PeerGoneShort(c) ==
    /\ At(c, "rmpeer")
    /\ \A k \in 0 .. Cap - 2 : lst[Opponent(ptr[c], c)][k] # ptr[c]
    /\ IF op[c] = "move"
       THEN /\ Goto(c, "post")
            /\ UNCHANGED <<ref, inv, cref, op, slot, ptr, peer, pslot, leaving>>
       ELSE GiveUp(c, NoClient)
    /\ UNCHANGED <<lst, len, player, conn, alive>>

PeerGone(c) ==
    /\ At(c, "rmpeer") /\ ~InList(Opponent(ptr[c], c), ptr[c])
    /\ IF op[c] = "move"
       THEN /\ Goto(c, "post")
            /\ UNCHANGED <<ref, inv, cref, op, slot, ptr, peer, pslot, leaving>>
       ELSE GiveUp(c, NoClient)
    /\ UNCHANGED <<lst, len, player, conn, alive>>

-----------------------------------------------------------------------------
\* ACCEPT and MOVE look for the slot of the other party.

\* client_ref and search_inv_lst_safe on the other client.  A mover then
\* sends it MOVED.
Search(c) ==
    LET p == Opponent(ptr[c], c) IN
    /\ At(c, "search")
    /\ InList(p, ptr[c])
    /\ GainClient(p)
    /\ peer' = [peer EXCEPT ![c] = p]
    /\ Goto(c, IF op[c] = "move" THEN "over" ELSE "drop")
    /\ UNCHANGED <<lst, len, player, ref, inv, op, slot, ptr, pslot, leaving,
                   conn, alive>>

\* The other party is out of the invitation already: the request fails,
\* though the game was started or the move applied.
SearchFails(c) ==
    /\ At(c, "search") /\ ~InList(Opponent(ptr[c], c), ptr[c])
    /\ GiveUp(c, NoClient)
    /\ UNCHANGED <<lst, len, player, conn, alive>>

\* Mutant of CheckOver: the end of the game is not noticed.
CheckOverNever(c) ==
    /\ At(c, "over")
    /\ DropInv(ptr[c], NoClient, peer[c])
    /\ Return(c, TRUE)
    /\ UNCHANGED <<lst, len, player, conn, alive>>

\* game_is_over after a move: ENDED to both and on to the lists, or the end
\* of client_make_move.
CheckOver(c) ==
    /\ At(c, "over")
    /\ IF inv[ptr[c]].game = "over"
       THEN /\ Goto(c, "rmown")
            /\ UNCHANGED <<ref, inv, cref, op, slot, ptr, peer, pslot, leaving>>
       ELSE DropInv(ptr[c], NoClient, peer[c]) /\ Return(c, TRUE)
    /\ UNCHANGED <<lst, len, player, conn, alive>>

\* player_post_result, which does nothing when a party has no player any
\* more.  A resigner has sent RESIGNED and ENDED just before.
Post(c) ==
    /\ At(c, "post")
    /\ inv' = IF player[c] /\ player[peer[c]]
              THEN [inv EXCEPT ![ptr[c]].posted = @ + 1] ELSE inv
    /\ Goto(c, "drop")
    /\ UNCHANGED <<lst, len, cref, player, ref, op, slot, ptr, peer, pslot,
                   leaving, conn, alive>>

\* The request's own reference to the invitation.  Move and resign are over
\* then, the others still have a packet to send.
Drop(c) ==
    /\ At(c, "drop")
    /\ IF op[c] \in {"move", "resign"}
       THEN /\ DropInv(ptr[c], NoClient, peer[c])
            /\ \E ok \in (IF op[c] = "move" THEN {TRUE} ELSE SendOutcomes(peer[c])) :
                 Return(c, ok)
       ELSE /\ DropInv(ptr[c], NoClient, NoClient)
            /\ Goto(c, "notify")
            /\ ptr' = [ptr EXCEPT ![c] = NoInv]
            /\ UNCHANGED <<op, slot, peer, pslot, leaving>>
    /\ UNCHANGED <<lst, len, player, conn, alive>>

-----------------------------------------------------------------------------
\* The packet to the other party, and the answer.

\* Mutant of Notify: no client_unref when the packet could not be sent.
NotifyKeepsPeer(c) ==
    /\ At(c, "notify")
    /\ \E ok \in SendOutcomes(peer[c]) :
         /\ IF ok THEN LoseClient(peer[c]) ELSE UNCHANGED cref
         /\ Return(c, ok)
    /\ UNCHANGED <<lst, len, player, ref, inv, conn, alive>>

\* INVITED, REVOKED, DECLINED or ACCEPTED, then client_unref.  Whether it
\* could be sent is the result of the request.
Notify(c) ==
    /\ At(c, "notify")
    /\ LoseClient(peer[c])
    /\ \E ok \in SendOutcomes(peer[c]) : Return(c, ok)
    /\ UNCHANGED <<lst, len, player, ref, inv, conn, alive>>

\* The ACK from which the remote end learns the slot of its invitation.
Ack(c) ==
    /\ At(c, "ack")
    /\ Goto(c, "idle")
    /\ op' = [op EXCEPT ![c] = "none"]
    /\ slot' = [slot EXCEPT ![c] = NoSlot]
    /\ UNCHANGED <<objects, ptr, peer, pslot, leaving, conn, alive>>

-----------------------------------------------------------------------------
\* The end of a connection: jeux_client_service reads EOF, client_logout
\* tries each slot in turn, creg_unregister closes the connection.

Leave(c) ==
    /\ At(c, "idle") /\ ~conn[c]
    /\ leaving' = [leaving EXCEPT ![c] = TRUE]
    /\ op' = [op EXCEPT ![c] = FirstAttempt]
    /\ slot' = [slot EXCEPT ![c] = 0]
    /\ Goto(c, "scan")
    /\ UNCHANGED <<objects, ptr, peer, pslot, conn, alive>>

\* Each attempt reads the slot anew.
ScanEmpty(c) ==
    /\ At(c, "scan") /\ slot[c] \in Slot /\ lst[c][slot[c]] = NoInv
    /\ Return(c, FALSE)
    /\ UNCHANGED <<objects, conn, alive>>

ScanPeek(c) ==
    /\ At(c, "scan") /\ slot[c] \in Slot /\ lst[c][slot[c]] # NoInv
    /\ Goto(c, "peeked")
    /\ ptr' = [ptr EXCEPT ![c] = lst[c][slot[c]]]
    /\ UNCHANGED <<objects, op, slot, peer, pslot, leaving, conn, alive>>

\* client_set_player_safe(client, NULL)
LoggedOut(c) ==
    /\ At(c, "scan") /\ slot[c] = NoSlot
    /\ player' = [player EXCEPT ![c] = FALSE]
    /\ op' = [op EXCEPT ![c] = "none"]
    /\ Goto(c, "unregister")
    /\ UNCHANGED <<lst, len, cref, ref, inv, slot, ptr, peer, pslot, leaving,
                   conn, alive>>

Unregister(c) ==
    /\ At(c, "unregister")
    /\ LoseClient(c)
    /\ Goto(c, "gone")
    /\ UNCHANGED <<lst, len, player, ref, inv, op, slot, ptr, peer, pslot,
                   leaving, conn, alive>>

-----------------------------------------------------------------------------
\* The remote end closes the connection, at any moment.
Disconnect(c) ==
    /\ alive /\ c \in Droppers /\ conn[c]
    /\ conn' = [conn EXCEPT ![c] = FALSE]
    /\ UNCHANGED <<objects, threads, alive>>

\* Nothing happens after a crash, or when every client has gone.
Halted ==
    /\ ~alive \/ \A c \in Client : pc[c] = "gone"
    /\ UNCHANGED vars

\* The remote end sends a request.
Arrive(c) ==
    \/ \E t \in Client : Lookup(c, t)
    \/ \E o \in Request, k \in Slot : Ask(c, o, k)

\* What the service thread does on its own.
Invite(c) ==
    \/ CreateFails(c)
    \/ \E i \in Inv : Create(c, i)
    \/ AddToSource(c)
    \/ SourceFull(c)
    \/ AddToTarget(c)
    \/ TargetFull(c)
    \/ Undo(c)

Serve(c) ==
    \/ Take(c)
    \/ Refuse(c)
    \/ RefuseMove(c)
    \/ Act(c)
    \/ Resign(c)
    \/ Close(c)
    \/ Place(c)
    \/ Finish(c)
    \/ EraseOwn(c)
    \/ OwnGone(c)
    \/ ErasePeer(c)
    \/ PeerGone(c)
    \/ Search(c)
    \/ SearchFails(c)
    \/ CheckOver(c)
    \/ Post(c)
    \/ Drop(c)
    \/ Notify(c)
    \/ Ack(c)

Logout(c) ==
    \/ Leave(c)
    \/ ScanEmpty(c)
    \/ ScanPeek(c)
    \/ LoggedOut(c)
    \/ Unregister(c)

Work(c) == Invite(c) \/ Serve(c) \/ Logout(c)

Next ==
    \/ \E c \in Client : Arrive(c) \/ Work(c) \/ Disconnect(c)
    \/ Halted

Spec == Init /\ [][Next]_vars

\* Every thread is scheduled, gets each mutex in the end, and finishes what it
\* writes: state_mutex is held over several steps, by a resigner who waits for
\* nothing.  Nobody has to send requests.
FairSpec == Spec /\ \A c \in Client : WF_vars(Work(c))

-----------------------------------------------------------------------------
\* Types.

Pc == {"idle", "create", "addsrc", "addtgt", "undo", "notify", "ack",
       "peeked", "act", "resign", "close", "place", "finish", "rmown",
       "rmpeer", "search", "over", "post", "drop", "scan", "unregister",
       "gone"}

InvRecord == [src : Client \cup {NoClient}, tgt : Client \cup {NoClient},
              state : {"free", "open", "accepted", "closed", "quarantined"},
              game : {"none", "running", "over"},
              turn : Client \cup {NoClient}, posted : Nat, early : BOOLEAN]

\* Every variable has its type; the counts are integers here, and that they
\* never pass zero is a consequence of RefExact and ClientRefExact.
TypeOK ==
    /\ lst \in [Client -> [Slot -> Inv \cup {NoInv}]]
    /\ len \in [Client -> Int]
    /\ cref \in [Client -> Int]
    /\ player \in [Client -> BOOLEAN]
    /\ ref \in [Inv -> Int]
    /\ inv \in [Inv -> InvRecord]
    /\ pc \in [Client -> Pc]
    /\ op \in [Client -> Request \cup {"invite", "none"}]
    /\ slot \in [Client -> 0 .. Cap]
    /\ ptr \in [Client -> Inv \cup {NoInv}]
    /\ peer \in [Client -> Client \cup {NoClient}]
    /\ pslot \in [Client -> 0 .. Cap]
    /\ leaving \in [Client -> BOOLEAN]
    /\ conn \in [Client -> BOOLEAN]
    /\ alive \in BOOLEAN

-----------------------------------------------------------------------------
\* Safety.

\* Where the thread of a client holds a counted reference to ptr[c].
Counting == {"addsrc", "addtgt", "act", "resign", "close", "place", "finish",
             "rmown", "rmpeer", "search", "over", "post", "drop"}

SlotRefs(i) == {e \in Client \X Slot : lst[e[1]][e[2]] = i}
ThreadRefs(i) == {c \in Client : pc[c] \in Counting /\ ptr[c] = i}

\* The reference count of an invitation is the number of list slots and of
\* threads that hold it, through every interleaving of requests, logouts and
\* disconnections; so it is freed exactly when the last of them lets go, and
\* a slot never points to freed memory (inv_ref, inv_unref and every early
\* return of client.c).
RefExact == \A i \in Inv :
    /\ ref[i] = Cardinality(SlotRefs(i)) + Cardinality(ThreadRefs(i))
    /\ Allocated(i) <=> ref[i] > 0

\* What a thread holds of client c: the lookup of an inviter, the client_ref
\* of a closer, accepter or mover.
PeerRefs(c) == {t \in Client : peer[t] = c}

\* The reference count of a client is one for its registration, one for each
\* invitation that names it and one for each thread that refers to it as its
\* peer; so a client is freed only when no invitation and no thread can
\* reach it (client_ref, client_unref, inv_create, inv_unref).
ClientRefExact == \A c \in Client :
    cref[c] = One(pc[c] # "gone")
              + Cardinality({i \in Inv : inv[i].src = c})
              + Cardinality({i \in Inv : inv[i].tgt = c})
              + Cardinality(PeerRefs(c))

\* A list holds invitations of its client only, each at most once, and len
\* counts them; so client_add_invitation fails exactly when no slot is free.
ListsSound == \A c \in Client :
    /\ \A k \in Slot : lst[c][k] # NoInv => c \in Parties(lst[c][k])
    /\ \A j, k \in Slot : lst[c][j] = lst[c][k] => j = k \/ lst[c][j] = NoInv
    /\ len[c] = Cardinality({k \in Slot : lst[c][k] # NoInv})

\* A thread that inv_close let revoke, decline or resign.
Closers(i) == {c \in Client : /\ op[c] \in Closing /\ ptr[c] = i
                              /\ pc[c] \in Counting \ {"act"}}

\* Of the requests that race to revoke, decline or resign an invitation, at
\* most one gets past inv_close; so no invitation is announced as ended
\* twice (invitation_test.c concurrent_resign, for all three requests).
OneCloser == \A i \in Inv : \A c, d \in Closers(i) : c = d

Quiet == \A c \in Client : pc[c] \in {"idle", "gone"}

\* When no request is being served, an invitation is in the list of its
\* source if and only if it is in the list of its target.
ListsAgree ==
    Quiet => \A i \in Inv : Allocated(i) =>
               \A c, d \in Parties(i) : InList(c, i) <=> InList(d, i)

\* An invitation that was closed, or whose game ended, is on its way out of
\* the lists: while it is in one, a thread that ended it is still at work on
\* it.  (The exception is an invitation reached through a pointer to a former
\* one at its address, and declined before it was in both lists: nobody
\* removes it then.)
Ending(i) == \E t \in Client :
    /\ ptr[t] = i
    /\ \/ pc[t] \in {"close", "rmown", "rmpeer"}
       \/ pc[t] \in {"search", "over"} /\ op[t] = "move"

ClosedLeaves == \A c \in Client, k \in Slot :
    LET i == lst[c][k] IN
    /\ i # NoInv /\ ~inv[i].early
    /\ inv[i].state = "closed" \/ inv[i].game = "over"
    => Ending(i)

\* A game that ended is rated before its invitation is forgotten, whatever
\* the order in which last moves and a resignation meet (the game is over by
\* game_apply_move or game_resign; player_post_result is called later, by
\* whichever request still finds the invitation in the lists), unless one of
\* the two has logged out by then and has no player any more.
RatedBeforeRelease ==
    [][\A i \in Inv :
         Allocated(i) /\ inv[i].game = "over" /\ ~Allocated(i)'
           => \/ inv[i].posted > 0
              \/ \E c \in Parties(i) : ~player[c]]_vars

\* The stage of an invitation in its life.
StageOf(v) ==
    IF v.state \notin {"open", "accepted", "closed"} THEN "none"
    ELSE IF v.early THEN "stray"
    ELSE IF v.game = "running" THEN "playing"
    ELSE IF v.game = "over" THEN IF v.state = "closed" THEN "resigned" ELSE "over"
    ELSE IF v.state = "closed" THEN "withdrawn" ELSE "offered"

\* What there is to say of its life, for each address: see Lifecycle.
Lives == [i \in Inv |->
            [stage |-> StageOf(inv[i]), src |-> inv[i].src, tgt |-> inv[i].tgt,
             shared |-> Allocated(i) /\ Shared(i),
             conceding |-> IF inv[i].early THEN {} ELSE Conceding(i)]]

L == INSTANCE Lifecycle WITH life <- Lives

\* Accepts, closings, moves, resignations and releases that meet on one
\* invitation take it through its life in order: none is taken up after it
\* was withdrawn; a game is resigned by one party at most, let to do so
\* while the game was running, though a move may end it before the
\* resignation does; both parties keep the invitation in their lists until
\* it is withdrawn or over; none is freed in mid-game or before a party that
\* resigns is through (inv_accept, inv_close, game_apply_move, game_resign,
\* client_remove_invitation, inv_unref).
KeepsLifecycle == L!Spec

\* client_logout comes to its end, however many invitations and requests the
\* other clients go on sending.  (The fairness takes every packet to be sent
\* in the end: client_send_packet may block for good on a peer that stays
\* connected and does not read, which is a matter of Wire.)
LogoutEnds == \A c \in Client : leaving[c] ~> (pc[c] = "gone" \/ ~alive)

-----------------------------------------------------------------------------
\* What the comments of the headers say and the code does not do.

\* Shared objects are thread-safe: no thread follows a pointer to a freed
\* invitation.
NoUseAfterFree == alive

\* A client that has logged out has resigned its games in progress: when
\* client_logout returns, none is left in its list.
LogoutResigns == \A c \in Client, k \in Slot :
    pc[c] = "unregister" /\ lst[c][k] # NoInv => inv[lst[c][k]].game # "running"

\* An INVITE succeeds, and is acknowledged, only when the invitation is in
\* both lists: the target's id of it is known by then.
AckMeansInvited ==
    [][\A c \in Client :
         op[c] = "invite" /\ pc[c] # "ack" /\ pc'[c] = "ack"
           => pslot[c] # NoSlot]_vars

\* When REVOKED, DECLINED or ENDED is sent, the id in it does not name
\* another invitation of the recipient.
Notifying(c) == \/ pc[c] = "notify" /\ op[c] \in {"revoke", "decline"}
                \/ pc[c] = "post" /\ op[c] = "resign"

NoticeNamesSlot == \A c \in Client :
    Notifying(c) => lst[peer[c]][pslot[c]] = NoInv
=============================================================================
