# Jeux game server: a TLA+ development

The repository is a multi-threaded server for two-player tic-tac-toe. A main
thread accepts connections; each connection gets a service thread that reads
packets (LOGIN, USERS, INVITE, REVOKE, DECLINE, ACCEPT, MOVE, RESIGN) and acts
on objects that all threads share: clients, players, invitations and games.
The objects are reference counted by hand and each protects its own fields with
its own mutexes; there is no lock that covers an operation from beginning to
end. That is where the difficulty of this program lies, and what the models are
about.

## 1. Inventory

Source paths below are relative to the repository.

| Component | Source | State | Operations |
|---|---|---|---|
| Client objects and invitation lists | `src/client.c` | per client: list of `MAX_CLIENTS * 128` slots and its length (`inv_mutex`), player or NULL (`player_mutex`), reference count (`mutex`), descriptor (`fd_mutex`) | create, ref/unref, login, logout, send packet/ACK/NACK, add/remove invitation, make/revoke/decline/accept invitation, resign, make move |
| Invitations | `src/invitation.c` | source, target, roles, state OPEN/ACCEPTED/CLOSED (`state_mutex`), game (`game_mutex`), reference count (`mutex`) | create, ref/unref, accept, close, getters |
| Games | `src/game.c` | board, turn, status, winner, each read and written under a mutex of its own; reference count | create, ref/unref, parse move, apply move, resign, is over, winner |
| Service threads | `src/server.c` | whether the thread has logged in | one handler per packet type; at EOF, logout and unregister |
| Client registry | `src/client_registry.c` | array of 64 places, count, a mutex, and a semaphore that is up while no client is registered | register, unregister, lookup, list players, wait for empty, shut down, fini |
| Players | `src/player.c` | id, name, rating (`rating_mutex`), reference count | create, ref/unref, post result (Elo), get rating |
| Player registry | `src/player_registry.c` | growing array of players | register (find or create), fini |
| Protocol | `src/protocol.c`, `src/packet_common.c` | none | send and receive a packet over a descriptor, complete or not at all |
| Start and termination | `src/main.c` | SIGHUP flag | accept loop; on SIGHUP shut down every connection, wait for the registry to be empty, free it |

How they interact. A service thread calls `client_*`, which locks one list at a
time, reads pointers out of it, calls `inv_*` and `game_*` on what it finds,
changes the list of the *other* client, sends that client a packet and posts the
result of a game to both players. So the thread of client A writes the list of
client B, and frees an invitation whose address B's thread may be holding. The
registry hands out references to clients (INVITE looks its target up by name).
The main thread ends connections by `shutdown(2)`, and learns from the registry
when the threads are done.

What is hard in it:

* an operation is a chain of short critical sections, of two or more threads;
* an invitation is read from a list in one critical section and its reference
  is taken in the next (`client.c:350-356`, and alike in every request);
* every early return gives references back by hand;
* the two lists of an invitation are updated one after the other, in a
  different order by different requests, and a slot is reused as soon as it is free;
* logout walks a list while others add to it;
* a game ends by a move or by a resignation, which may meet;
* a full list, a full registry, a connection that ends at any point;
* a walk over the clients holds the registry's mutex, which log-ins and log-outs do
  not take;
* a semaphore that is used as a flag, `sem_wait` and `accept` that a signal may
  end, and a SIGHUP that any thread may be given;
* two rating mutexes at once, and writes that block while `fd_mutex` is held.

What makes each component correct:

* *Clients and invitations:* counts are exact (no leak, no dangling slot); an
  invitation is in both lists or in none when nobody is working on it; it is ended
  by one request; an ended one leaves the lists; an ended game is rated before it
  is forgotten; logout terminates and leaves no game running.
* *Games:* moves alternate; the result fits the board; a game that is over is rated.
* *Registry:* never more clients than places; the shutdown waits for every
  client, and nothing uses the registry after it was freed.
* *Players:* one player per name, logged in once; results are posted without
  deadlock.
* *Protocol:* packets are not interleaved on a connection; a short read is an end.

## 2. Plan

In the order of importance:

1. `Invitations` (done): client lists, invitations, every request on them,
   logout, disconnection, with the steps in which a move and a resignation end a
   game. Proofs: types, reference counts of invitations and of clients, soundness and
   agreement of the lists, exclusion of closers, that ended invitations leave the
   lists, and that ended games are rated; all with disconnections and reuse of addresses.
2. `Game` (done): board, turn, status and winner in separate critical sections
   of two threads, shown to implement the abstract `Match` (moves in turn, on free
   squares, none by who has a line); what it does not keep is finding
   `game_rated`. Proofs: types, that `Game` implements `Match`, and that a result
   fits the board.
3. `Lifecycle` (done): what an invitation promises its two parties, with
   `Invitations` checked and proved to implement it.
4. `Registry` (done): places, semaphore, registration, unregistration, shutdown by
   the main thread, SIGHUP at any moment; the server terminates. Proofs: types,
   what the semaphore tells, what is left when the registry is freed.
5. `Sessions` (done): one player per name, double login, USERS, the order of the
   rating mutexes. Proofs: log-ins, USERS, reference counts, ratings, no circle of
   waiting threads.
6. `Wire` (done): partial reads and writes, `fd_mutex`, shown to implement the
   abstract `Channel`. Proofs: the refinement.

Left: the roles that INVITE chooses; failures of `malloc` other than that of
`inv_create`. Every safety property that a passing run checks is proved; what stays
with TLC is liveness.

## 3. Modules

### `Invitations`

One service thread per client; a step is one critical section of the code.

State. `lst`, `len`, `cref`, `player` are the fields of the `CLIENT` objects;
`ref` and `inv` those of the `INVITATION` at each heap address, and of the game it
owns; `pc`, `op`, `slot`, `ptr`, `peer`, `pslot` are where each service thread is
and its local variables (`inv`, `client_target`, `dst_id`, ...); `leaving` says that
it runs `client_logout`, `conn` that the remote end is still connected. `alive`
becomes FALSE when a thread follows a pointer to a freed invitation: the code's
behaviour is undefined from there, and the model stops.

Actions, by request (the thread's control points in parentheses):

* INVITE: `Lookup`, `Create` (create), `AddToSource` (addsrc), `AddToTarget`
  (addtgt), `Drop`, `Notify`, `Ack`; with the error paths `CreateFails`,
  `SourceFull`, `TargetFull` and `Undo`.
* every other request first reads the slot (`Ask`), then takes its reference
  (`Take`, from peeked), then is admitted or not (`Act`, or `Refuse`, `RefuseMove`,
  from act): under the invitation's state mutex, but for a move. Revoke, decline and
  accept are done with the invitation then.
* RESIGN holds the state mutex through two steps more: `Resign` (resign) sets the
  status of the game (`game.c:323`), `Close` (close) the state (`invitation.c:185`).
* MOVE, which takes no state mutex, goes on with `Place` (place), where the turn
  is passed (`game.c:303`), and `Finish` (finish), where the status is set if the move
  ended the game (306).
* REVOKE, DECLINE, RESIGN: `EraseOwn` (rmown), `ErasePeer` (rmpeer), `Post` (post,
  RESIGN only), `Drop` (drop), `Notify` (notify); `OwnGone` and `PeerGone` when
  the invitation is not in a list any more.
* ACCEPT, MOVE: `Search` (search) for the other party's slot, `SearchFails`; after a
  move `CheckOver` (over), which goes on to the lists when the game has ended.
* logout: `Leave`, then for each slot the attempts resign, revoke, decline
  (`ScanEmpty`, `ScanPeek`, which lead through the actions above), then
  `LoggedOut` and `Unregister`.

What a step is. A mutex of this component is held for a few lines and no other
is awaited while it is held, except `state_mutex` in `inv_close` and `inv_accept`, which call
game functions. In a resignation these are steps of their own, with the mutex held
(`Conceding`), so that the other requests wait at act (`Enters`) while a move may
end the game between the check of a resigner (`game.c:320`) and his assignment: both then
have ended it. Accept starts the game and sets the state in one step: only the game is
looked at without the mutex, by moves. The two looks of a mover, at the turn and at the
status, are one step as well, since nobody else can pass on the turn of who has it, so that
a mover who sees the game over may as well have looked at both then. Reads of fields that never
change while a reference is held (`src`, `target`) are part of the step that
needs them. When a function gives up or returns it releases its references one
after the other, with nothing between them that another thread waits for: the
count of an invitation and that of a client are then changed in one step
(`GiveUp`, `Drop`). The reference taken in `Take` is deliberately a step apart from
the read in `Ask`, as in the code.

What is left out: roles (a role decides which of the parties moves first, which
is a choice here), the board and the winner (a legal move may or may not end the game; an illegal
one is `RefuseMove`), the payload and the wording of packets, log output. Every
client is logged in as a player of its own at the beginning; login is in
`Sessions`, registration in `Registry`. A game is created by `inv_accept` with its
invitation and freed with it, so it is a field of the invitation.
What the two threads of a game read and write on the board, and who wins, is the
subject of the module `Game`. `Undo` assumes that the
source's slot is still there, as `client_remove_invitation` would otherwise return
-1: the target has no slot for the invitation then, and only the source's own
thread (busy with this very request) could have removed it.

`Quarantine` chooses between two allocators. FALSE: `malloc` may hand out a block
again at once, as the real one does. TRUE: freed blocks are never handed out
again, as under a checking allocator. It is a bound of the run `requests`, where three
clients that make ever new invitations are too many states; no theorem assumes it.

A thread that read a pointer, was delayed, and finds a *new* invitation at the same
address acts on an invitation it did not mean (finding `freed` in another form),
which may not be in both lists yet. If it is the target's thread and it declines it then,
nobody removes it from the list where it is put a moment later. Such invitations
are named, and the rest is shown to be in order: `early`, a history field of `inv` which no step
reads, is set by the step that withdraws or takes up an invitation (`Becomes`) if it
is not in both lists. `ClosedLeaves` exempts them, `Lifecycle` calls them *stray*;
`ListsAgree` and `RatedBeforeRelease` hold of them too.

### `Lifecycle`

What an invitation promises, with counts and threads forgotten: at each address it
is *offered* by one client to another and shared between their lists, then
*withdrawn* or *playing*; one party may *concede* while the game is played; the game is *over*, by a
move or by that resignation, whichever is first; a resignation that was admitted makes
it *resigned*. It is known to both parties until it is withdrawn or over, and only then
forgotten, after whoever concedes is through. A game of `Lifecycle` can be over before the resignation
that was admitted closes it, as in the code; what it cannot is be resigned by two,
or by somebody who was let to do so when it was over already. An invitation the target acted upon
before both had it is *stray*, and nothing more is promised of it. `L == INSTANCE Lifecycle` in
`Invitations` maps `life` to the stage that `state`, `game` and `early` amount to (`StageOf`),
the two clients, whether both list it, and who is between `inv_close`'s
check and its end (`Lives`); `KeepsLifecycle` is `L!Spec`.

### `MCInvitations`

The symmetry sets for TLC. Every instance gives concrete values to the constants
in its `.cfg`; no definition is replaced.

### `Match` and `Game`

`Match` is the abstract game: a board and the role that is next, and one action,
`Move`. `Game` is one game between two logged-in clients, with the two service
threads that send MOVE and RESIGN for it; `M == INSTANCE Match` maps `next` to
`turn`, except between the writing of the square and the passing of the turn,
when the move has been made already. `Match` promises on purpose that who *has*
a line does not move again, and not that nobody moves once there is one: the turn
is passed (`game.c:303`) before the status is set (306), and the loser may place
one more mark in between. If that makes a line of his own he may even be named
the winner, when his line comes first in the scan of `verify_board`.

State: `board`, `turn`, `over`, `winner` are the fields of the `GAME`, `closed` and
`holder` the state of the `INVITATION` and its `state_mutex`, `listed` its
presence in the two lists, `posted` the calls of `player_post_result`; `pc`, `op`,
`cell`, `res` belong to the threads.

A step is one access to a field, each of which has a mutex of its own. MOVE is
`Parse`, `Check`, `Look`, `Place`, `Pass`, then `End` and `Win` if there is a
result, `Search` of the opponent's list, and `IsOver` or `NotOver`; RESIGN is `Close`
(which takes `state_mutex`), `Running`, `Terminate`, `Concede` (which gives it
back). Both end with `Remove` for the two lists and `Post`. The actions named
`...Fails` are the early returns. `Verdict` is the scan of `verify_board`; `Lines` is
a sequence because the scan returns the first line it meets.

Left out: reference counts and the slots of the lists (that is `Invitations`,
where a game is seen as running or over), logout, packets and the text of a move (a
string that cannot be parsed is `ParseFails`), and the values that ENDED
carries. `Remove` is `client_remove_invitation`: a resignation gives up when it
finds nothing, a move goes on.

### `Registry`

The main thread, the service threads as far as they use the registry, and signals.

State. `registered`, `len`, `sem` and `holder` are the array, the count, the value of
`count_sem` and the owner of the mutex of the `client_registry`; `freed` says that
`creg_fini` ran. `mpc`, `newfd`, `flag`, `listening` belong to the main thread, `known` says that it
has set `MAIN_THREAD_FLAG` (which it never does when the socket cannot be opened), `pending`
and `hups` to the kernel. `tpc` is where each service thread is, `to` the client whose
remote end holds up its write, `handling` the threads inside `sighup_handler`. `conn` is the
state of each connection, its remote end included. `late` and `early` are history: who
registered after `creg_shutdown_all` (and is not done yet), and whether a `sem_wait` ended with
EINTR. `alive` becomes FALSE when the registry is used after it was freed, and when the main
thread gets a SIGHUP it does not recognise as its own.

Actions. `run_server` is `Boot`, `Loop`, `Accept`, `Accepted`; `terminate` is `ShutdownAll`,
`WaitEmpty`, `Repost`, `Fini`, `Exit`. A SIGHUP is `HupMain` or `HupThread` (any thread may be
given it), then `Forward` and `Deliver`. `creg_register` is `Register` and, for the first client,
`Registered` (the `sem_wait` under the mutex), or `RegisterFull`; the loop of
`jeux_client_service` is `Request`, `Written`, `Eof`; `creg_unregister` is `Unregister` and `Unlock`.
`UseFreed` is any of these after `creg_fini`, `QueryFreed` a request that locks the registry
then (`creg_lookup`, `creg_all_players`), `Disconnect` the remote end. Requests that were sent
before the remote end went are still read and served.

A step is a critical section under the registry's mutex, but for the two places
where something can come in between: the wait for the semaphore in `creg_register`, and
the unlock after the `sem_post` in `creg_unregister`. Left out: what requests do (they
are the other modules; here a request matters when its answer blocks, and one that
does not changes nothing), the place a client gets in the array, the reuse of
descriptor numbers, failing system calls other than `accept`. `Accept` gives
the next connection to a fixed one of the unused threads, since they are alike.

### `Sessions`

Players, who is logged in as whom, USERS, and the posting of results.

State. `id`, `pref`, `rating`, `rlock` are fields of the `PLAYER` of each name (id 0: there is
none yet), `crm` the owner of the registry's mutex, `player` the field of the `CLIENT` at each
place. The rest are local variables of the threads: `me` is `new_player` of
`jeux_client_service`, `np` that of `login_handler`, `idx`, `cnt` and `out` belong to the walks
over the clients, `post` to `player_post_result`. `since`, `earned`, `leaked` and `posts` are history.

Actions. LOGIN: `Login` (`preg_register`), `AlreadyLoggedIn`, `Lookup`, `Scan`, `Found` or
`NotFound` (`creg_lookup`), `LogIn` (`client_set_player_safe`), `Ack`, which may fail. USERS:
`Users`, `Count`, `Fill`, `Filled` (`creg_all_players`), `Overrun`, `Tell`, `Told`. A result: `Post`,
`Lock1`, `Lock2`, `Write`, `Unlock`. The end: `Eof`, `LogOut`, `Clear`, `Unregister`, after which the place
may be taken by a new connection (`Connect`).

A walk visits one place per step, since the clients' `player_mutex` is taken place
by place, while `crm` keeps other walks and registrations out. Names stand
for the addresses of players: `preg_register` makes one player per name and the
registry never lets go of it before it is freed. Left out: the array of
`preg` that grows, and the Elo formula: one player gains what the other loses, here 1.
A result may be posted for any two clients that are logged in; which games there are
is the business of `Game` and `Invitations`.

### `Channel` and `Wire`

`Channel` is a log of packets and how many of them were received. `Wire` is one
direction of a connection: the threads that call `client_send_packet` for one client, the
bytes on the way, and `proto_recv_packet` at the other end; `C == INSTANCE Channel`.

State. `fdm` is the holder of `fd_mutex`; `log` the packets in the order in which it was
taken; `done` how much of its packet the holder has written; `sent` the packets whose
sending returned 0; `stream` the bytes in the connection; `part` what the receiver has of the
next packet, `got` what it has received; `fd` and `peer` the two ends.

Actions. `Lock` (with `pack_header`, whose size field has 16 bits), `Write` of any number of
bytes up to the end of the header or payload and up to the room in the connection (also
when the receiver has gone and the kernel does not know yet: these bytes go nowhere), `Fail`,
`Sent`; `Close` by `creg_unregister`, which does not wait for `fd_mutex`; `Read`, `Received`, `Eof`;
`Stall` and `Leave` of the receiver. A byte is known by its packet and its place there, so
a receiver that got out of step would take the wrong bytes for a header, and
then anything for a packet (`Garbled`). EINTR is a step that changes nothing. Left
out: timestamps, byte order, and what a descriptor number means after `Close`.

### `MCGame`, `MCRegistry`, `MCSessions`, `MCWire`

The board, and the symmetry set of `Sessions`.

### `InvitationsProofs`, `InvitationsClientProofs`, `InvitationsAgreeProofs`, `InvitationsLifeProofs`, `GameProofs`, `RegistryProofs`, `SessionsProofs`, `WireProofs`

See section 6.

## 4. Runs

| Run | Instance | Checks |
|---|---|---|
| `requests` | 3 clients, 2 invitations, 1 slot each, nobody disconnects, quarantine; 1,103,443 states | `RefExact`, `OneCloser`, `ListsAgree`, `ClosedLeaves`, `RatedBeforeRelease` |
| `leave` | 2 clients, 2 invitations, 2 slots each, one may disconnect, addresses reused; 3,335,602 states | `TypeOK`, `RefExact`, `ClientRefExact`, `ListsSound`, `ListsAgree` |
| `logouts` | 2 clients, 2 invitations, 1 slot each, both may disconnect, addresses reused, fair threads; 362,829 states | `ClosedLeaves`, `RatedBeforeRelease`, `KeepsLifecycle`, `LogoutEnds` |
| `game` | six squares, two rows of three and a column of two; both threads fair; 125,826 states | `TypeOK`, `ResultFits`, `PlaysMatch`, `OverIsRated` |
| `registry` | 3 connections for 2 places, 1 request that blocks, 1 SIGHUP; main thread, signals and threads fair; 321,562 states | `TypeOK`, `SemTellsEmpty`, `EmptyWhenFreed`, `Stops` |
| `sessions` | 2 places, 2 names, 3 results, 1 lost ACK; 300,896 states | `TypeOK`, `PlayerRefExact`, `UsersListed`, `NoCircle`, `NoResultLost`, `LoginRefused` |
| `wire` | 2 senders, 3 packets, header of 2 bytes, lengths 0, 2 and 5, sizes modulo 4, room for 3 bytes; fair; 276,506 states | `TypeOK`, `PacketsWhole`, `MutexFreed`, `SentArrives` |
| `game_rated` | as `game` | violation of `RatedOnce` |
| `freed` | as `leave`, nobody disconnects | violation of `NoUseAfterFree` |
| `logout_game` | as `leave`, both may disconnect | violation of `LogoutResigns` |
| `full_list` | 2 clients, 1 slot each | violation of `AckMeansInvited` |
| `stale_notice` | 2 clients, 2 slots each | violation of `NoticeNamesSlot` |

(States are up to symmetry.)

What the passing runs show:

* `RefExact`, `ClientRefExact`: no interleaving and no early return loses or
  doubles a reference; so whatever is freed is unreachable, but for a pointer that
  was read and not counted yet.
* `OneCloser`: what `concurrent_resign` of `tests/invitation_test.c` samples
  for resignations, for every mixture of revoke, decline and resign.
* `ListsAgree`: between requests an invitation is in both lists or in neither,
  after every failure on the way, the full list of the target included.
* `ListsSound`: a list holds only its client's invitations, none twice, and `len`
  is right: a wrong `len` would make the scans give up (they do at zero) or let
  an insertion run off the list.
* `ClosedLeaves`: a closed invitation, or one whose game is over, is in a list only
  while a thread that ended it is still at work on it; with the exception of section 3, an
  invitation declined through a stale pointer before it was in both lists.
* `RatedBeforeRelease`: when a winning move and a resignation meet, each of them
  may find that the other has emptied a list already. The game is rated all the
  same, because the code for the end by a move does not look at the results of the
  removals; the mutant that gives up there, as the other requests do, is caught.
  Excepted is a game of which a party has logged out by then: nobody is rated then.
* `LogoutEnds`: a logout takes at most three attempts at each slot, whatever the
  other clients add behind its back.
* `KeepsLifecycle`: accepts, revocations, moves and resignations that meet on one
  invitation take it through the stages of `Lifecycle` in order. One party resigns at most, and was
  let to do so while the game was running, though a move may have ended it before the
  resignation does (`game.c:320-323` against 306); no invitation leaves a list, or is freed, in
  mid-game. The mutant drops the check of the status in `game_resign`.
* `PlaysMatch`: the check of the turn, made long before the square is written, is
  enough to keep the moves of the two threads apart.
* `ResultFits`: in spite of the late move, whenever both threads are idle a game
  that nobody resigned is over exactly if its board is decided, and the winner has
  a line.
* `OverIsRated`: when a move and a resignation end a game together, one of them
  always posts a result, and the invitation is in no list afterwards.
* `SemTellsEmpty`: the semaphore is a flag for "no client" although it is changed in
  other steps than `len` is, and by three callers.
* `EmptyWhenFreed`: when `creg_wait_for_empty` has returned, every thread that was
  registered in time is past its last use of the registry, with three
  exceptions that the property names and the code has: a wait that EINTR ended
  (the result of `sem_wait` is not looked at), a thread that registers after
  `creg_shutdown_all`, and the unlock that follows the last `sem_post`. Each can end in
  `UseFreed`.
* `Stops`: a SIGHUP is never lost, whichever thread it is given to; the
  server ends (or crashes, by the exceptions above) unless a thread is `Stuck`: writing to
  a remote end that does not read, or registered late with a remote end that stays.
* `PlayerRefExact`: every path of LOGIN, USERS, a result and the end of a connection
  gives back what it took; `leaked` counts what remains after a LOGIN whose ACK
  could not be sent.
* `LoginRefused`: a walk misses nobody who was logged in all the time. That
  two connections can log in as one player when both look up the name first
  is the exception (`since`): `client_login` sets the player without the registry's mutex.
* `UsersListed`: the same for USERS, and how many entries too many the array can get:
  one for each client that logged in between the two walks (`Overrun`).
* `NoCircle`, `NoResultLost`: the order of ids excludes a deadlock of threads that post results,
  and no thread writes a rating computed from an old one. A result of a player
  against himself, possible after a double login, waits for itself for ever (`SelfLocked`).
* `PacketsWhole`: packets arrive whole, once and in order, also one whose length does
  not fit into the size field: header and payload agree on the number that is sent.
* `MutexFreed`, `SentArrives`: a sender holds `fd_mutex` for ever only behind a receiver that
  is there and does not read, and what was reported as sent arrives.

What the violation runs show (see also "findings" in `PROJECT.json`):

* `game_rated`: `game_resign` sets the status before the winner. A move that asks
  `game_is_over` in between takes the game for ended by itself and posts a draw,
  and the resigner, who finds the lists empty, posts nothing: the loser by
  resignation loses no rating. (In another order both post.)

* `freed`: `client.c:350` reads a slot, unlocks, and calls `inv_ref` at 356. If the
  other party's request runs in between it frees the invitation.
* `logout_game`: `client_logout` tries resign, then revoke, then decline. If the
  target accepts after the first failed and before the second, all three fail, and
  a running game is left behind in the list of a client that is gone.
* `full_list`: when the target's list is full, `client_make_invitation` returns the
  result of removing the invitation from the source's list: an index, taken
  for success.
* `stale_notice`: the target's slot is freed before REVOKED, DECLINED or ENDED is
  sent with its number, and can belong to a new invitation by then.

Bounds. Two clients with one invitation between them are enough for each race of
two requests; a third client (`requests`) adds a second invitation on the same
list, and contention for its slot. One slot per client makes full lists and slot
reuse frequent; two slots (`leave`) let a scan by logout meet additions before and
behind it. Two invitations are enough for the reuse of an address while
another is alive. `requests` sets `Quarantine`, so that three clients stay within five
minutes; it is a bound of this run only, since the reuse of addresses is what `leave` and `logouts` are
about, and no theorem assumes it. In `leave` one of the two disconnects, so that the other one can
be followed past its end; in `logouts` both do, with a slot each. `posted` is not bounded by a constant: each invitation can be
posted by at most the threads that work on it. Deadlock is checked
in every run: after a crash, or when all have gone, `Halted` stutters.

Three connections for two places (`registry`) make the first, a further and a refused
registration, and let one register late while another is being shut down; one
SIGHUP is enough for the three that matter: given to main at its own place, given to it before it has
set `MAIN_THREAD_FLAG`, and given to a service thread, which sends it on, so that it may end the wait of
`terminate` with EINTR (the same run with two SIGHUPs, 1,374,818 states in two minutes, passes as
well). One blocking request is enough to hold a thread up, since a write concerns one remote
end. A third place takes TLC beyond five minutes. In `sessions` the places are given to new
connections again and again, so that a place behind or before a walk changes; two
names allow the two orders of arguments and ids, and three results let one thread post
before and after the other. In `wire` the room of three bytes is less than a packet, so that writes
are cut, a read may end in a header (2 bytes) as well as in a payload, and the
length 5 does not fit the size field (modulo 4). `MaxPosts`, `MaxLost`, `MaxRequests`,
`MaxHups` and `MaxPackets` only bound how often the world acts; the theorems
hold for all of them.

The board of `game` has every end that a board of nine squares has: a line of
either player, two lines by one move, a line of each (in both orders of the
scan), a draw, squares that overlap in two lines. Nothing in the code depends on
the geometry beyond that, and the theorems hold for any board. `posted` needs no
bound: a thread posts after it has emptied the lists, and starts no request then.

Each property of a passing run has a mutant: a definition of the model, changed the
way a plausible bug would change the code (they stand next to the original), with
which TLC finds the property violated.

## 5. Fairness

In `Game`, `Spec` includes weak fairness of `Work(r)` for each of the two threads,
for the same reason. A thread in `Close` may wait for `state_mutex`, whose holder
waits for nobody. Sending requests (`Ask`) is not part of `Work`.

In `Invitations`,
`FairSpec` asks weak fairness of `Work(c)` for each client: a thread that can go on
does so. The code justifies it: threads are scheduled by the kernel,
and who holds a mutex of this component waits for nobody. (A resignation holds `state_mutex` from `Act`
to `Close`; in between it takes the mutex of the game, under which nobody waits either.) Each send is
taken to finish. That is an assumption about the remote ends, and `LogoutEnds` rests on it: a
write to a peer that does not read may block for ever, which is the subject of `Wire` and
`Registry`. Nothing else is asked of the remote ends: requests and disconnections need not happen.

In `Registry` the main thread (`MainStep`), the delivery of a signal that was sent on
(`Deliver`) and each thread (`Work(t)`) are weakly fair. `Accept` is not: nobody has to
connect. `Written` is part of `Work` only while the write can be done; requests, hang-ups
and SIGHUPs need not happen. A thread takes the registry's mutex
twice in its life, so nobody is kept from it for ever by others that take it again and
again, and weak fairness is enough.

In `Wire` the holder of `fd_mutex` (`SendStep`) and a receiver that reads (`ReceiveStep`) are weakly
fair; a receiver may stop reading or leave, and nobody has to send. `Sessions` has
safety properties only.

## 6. Proofs

Checked by `tlapm`, for any finite set of clients, any set of addresses, any list
length and either allocator. The assumptions are those named in `Invitations`:
`Client` is finite and does not contain NULL (`NoClient`), `NoInv` is not an
address, a list has at least one slot, `Quarantine` is a Boolean.

* `TypeCorrect`: `Spec => []TypeOK`. `TypeOK` is not inductive: what `Take` does
  depends on `ptr` being an address, what `ScanOn` does on the attempt that was
  being made. `Control` adds, for each control point, what the thread's registers
  hold there; `Types == TypeOK /\ Control` is inductive.
* `RefsCorrect`: `Spec => []RefExact`. The inductive invariant is
  `RefInv == Types /\ RefExact /\ Named`; `Named` (an allocated invitation names two
  clients) is needed because `ErasePeer` searches the list of "the other party". The
  argument: every action is one of five kinds (`MovedRefs`, `ReleasedRefs`,
  `ErasedRefs`, `InsertedRefs`, `TakenRefs`), each of which changes the count by
  as much as the sets of slots and threads change (`SlotFilled`, `SlotEmptied`,
  `ThreadMoved`). A freed invitation is never among those held, since the count of
  a held one is positive (`HeldAllocated`).
* `NothingDangles`: what a slot or a request at work refers to is allocated; a
  consequence of `RefInv`.
* `CloserAlone`: `Spec => []OneCloser`. The inductive invariant `CloserInv` says
  that what a thread past `inv_close` holds is closed. By `RefInv` it is not freed
  meanwhile; no step reopens an invitation (`ClosedStays`); and `inv_close` refuses a
  closed one, so the step that makes a closer finds none there (`CloseAlone`).

* `ListsStaySound`: `Spec => []ListsSound`. `ListInv` adds to `RefInv` the parts of
  `ListsSound` and `Making`: between `inv_create` and the insertions the invitation is that of its
  maker and in no list where it is still to go. An invitation enters a list by
  its maker's hand only (`ListsInserted`), everybody else empties slots (`ListsFewer`), and two
  makers never have the same one, since its source is the maker.
* `ClientRefsCorrect`: `Spec => []ClientRefExact`. `CountInv` adds to `RefInv`: a block that is not
  allocated names nobody (`Clean`), the allocated ones are finitely many, and `PeerRight`, which
  says at which points of a request a thread has a peer and whom. `Extra(x)` is
  what is left of the count of `x` without its invitations; a step of thread `c` changes it
  by what it changes in `peer[c]` (`Balanced`), and freeing an invitation leaves it alone, as
  `inv_unref` takes from the count of either client what the sets of its invitations lose
  (`DropParted`).
* `ListsComeToAgree`: `Spec => []ListsAgree`. `AgreeInv` adds to `ListInv` who will see to it that
  the lists agree again (`Even`): where one party lists an invitation and the other does not,
  the other has just removed it and goes on to this list, or the one that lists it has just
  made it. The hard part is a stale pointer that meets an invitation which is being made at the
  same address: `Pair` says how far such a thread may have come. It may accept or
  close the invitation, but finds it in no list of its own (`Made`), and so never gets to the
  maker's.
* `EndedOnesLeave`, `LifeInOrder`: `Spec => []ClosedLeaves` and `Spec => KeepsLifecycle`, with either
  allocator and whoever leaves. `LifeInv` adds to `AgreeInv`, `CountInv` and `CloserInv`:
  an invitation that its maker is still putting into the lists is on offer, or `early` (`Own`); a
  game that goes on is in both lists, unless it is `early` (`Both`), hence not freed; one that has
  ended, is in a list and is not `early` has a thread on its way there (`Leaving`, `Ends`); and
  a thread that is about to set the status, or to close, finds the stage it counts on (`Late`). This
  last part is where the race of `game.c:320` and 306 is: a resigner past the check meets a game that
  is playing or over, and `Close` one that is over. Each step but `Create` is brought into one form
  (`Framed`: what it may do to stages, to who resigns, to lists, and when it may forget what it
  was about), from which `LifeStep` derives the invariant and `LifeMaps` the step of `Lifecycle`.
  The delicate early returns are those of `OwnGone`, `PeerGone` and `SearchFails`: that nobody
  lists the invitation any more, or somebody else is about to remove it, rests on `Even`.
* `RatedInTime`: `Spec => RatedBeforeRelease`, again without a hypothesis on the allocator or on
  who leaves. `RatedInv` adds to `LifeInv` who will post the result of a game that is
  over, while both parties are logged in (`Rated`, `Watched`): a mover who has found the other
  party's slot posts whatever it meets (`Sure`); a mover who still looks for it, or a resigner
  who has removed nothing yet, does if both lists hold the invitation (`Able`); a resigner past
  its own list does if the other one holds it (`Awaits`). Whoever ends a game finds it in both
  lists (`EndWatched`). For a game that is `early` this is `Reach`: before it is in both lists, a
  pointer to it is its maker's, who is halfway, or that of the target which has just taken it up, and
  neither moves nor resigns. Only a mover can empty a list before a resigner, as two closers exclude
  each other, and a mover who removes is `Sure` (`RemovalWatched`). What is watched is counted, so
  not freed. A party that logs out has no player any more, and gets none again (`PlayersStay`):
  nobody is rated then, as in the code.

For `Game`, with any finite board that has a square and any sequence of lines that
are not empty:

* `GameTypes`: `Spec => []TypeOK`, with `Marked` (a thread that is about to name a
  winner has a mark to name) to make it inductive.
* `GameImplementsMatch`: `Spec => PlaysMatch`. `Inductive` adds to the types:
  `InTurn` (from the reading of the turn to its passing it stays with that thread,
  so that at most one thread is there), `StillFree` (so the square that was looked
  at is free when it is written), `LineEnds` (who has a line is on the way to set
  the status, or it is set) and `NoLine` (so who passed the check of the status
  has none). A step is then the writing of a square, which is `M!Move`
  (`StepPlace`), or leaves the mapped state alone (`StepLegal`, `StepPass`, `StepAside`).
  That the verdict on a board with a line is a mark rests on `MinExists`, the
  existence of a first line.
* `ResultsFit`: `Spec => []ResultFits`. `Decided` says what is known while the threads are not
  idle: the verdict a thread remembers is still that of the board, since no line and no full
  board is undone (`Judged`, `LineStays`); a game that is not over has no winner, and who has
  filled the board is on the way to end it (`Early`); one that is over, and resigned by nobody, has its
  winner, or a thread is about to set him, or it is a draw (`Late`). The hard step is the
  writing of a square by a thread that passed the check of the status before the other
  one ended the game: `Inductive` excludes it (`NoLine`), unless that other one resigned.

For `Registry`, any finite set of connections, any number of places, requests and
signals. The inductive invariant is `Inv == TypeOK /\ Control /\ Ending`:

* `SemaphoreTells`: `Spec => []SemTellsEmpty`, and with it `TypeCorrect`. `Control` ties what a
  thread's place in the code says to the array (`Placed`), the mutex (`Locked`) and the count
  (`Counted`), and says that a main thread which waits waits at zero (`WaitAtZero`).
* `FreedWhenEmpty`: `Spec => []EmptyWhenFreed`. `Ending` says what the semaphore stands for at
  each point (`SemRight`), how a wait can have been ended (`Interrupted`), and that between
  `terminate`'s wait and the end only threads that registered late are there (`FreedLast`,
  `LateWait`, `OnlyLate`).

For `Sessions`, any number of places, names and results. The inductive invariant of the
first three theorems is `Inv == Types /\ Results /\ Names /\ Walks`:

* `LoginsMissNobody`: `Spec => LoginRefused`. `Walks` says of a walk at `idx` that nobody
  behind it has the name, but for those in `since`, which the step that logs in needs.
* `ResultsAddUp`: `Spec => []NoResultLost`. Who is past `Lock2` holds both mutexes, and what it has
  read is what is there (`Fresh`), so that the ratings it writes are sums again (`Sums`).
* `NobodyInACircle`: `Spec => []NoCircle`. Ids of players differ (`Ids`). Of a set of waiting threads take
  the one that wants the mutex of the greatest id: its holder waits for nothing, or for a
  mutex of a greater id still, and so is not in the set. The greatest is found with the
  least-number principle.
* `RefsExact`: `Spec => []PlayerRefExact`, and `SessionsTyped`: `Spec => []TypeOK`. `Owned` adds to
  `Inv` the types of the rest (`Typed`, where counts are integers), what a thread has at each point (`Keeps`,
  `Lists`), that nobody has a player that was not created (`Uncreated`), and `Exact`, which is the
  property cut into sets that one step changes in one element at most. Each step changes the
  count of a player by as much as what the moving thread has of him (`Share`) or by as many as the entries of
  its list. That counts are not negative, for `TypeOK`, follows from `Exact`.
* `UsersComplete`: `Spec => []UsersListed`. `Listing` follows the two walks: the first has counted at
  least those it has passed who are logged in and were all the time (`Present`); the second has
  found all of those it has passed (`AllFound`), and no more than can have been there (`Visited`).
  At the end `Visited` is `Present` and some of `since`, which bounds the length.

For `Wire`, any senders, header size, lengths, modulus and room:

* `WireImplementsChannel`: `Spec => PacketsWhole`, and `WireTypes`. The inductive invariant is
  `TypeOK /\ Begun /\ InOrder /\ UpToWriter`: the bytes on the way follow each other from the one
  the receiver needs next (`NextRead`) to the one that is written next (`NextWritten`), across the
  ends of packets. Bytes written to a receiver that has gone never arrive, and no later ones
  do (`Writable`). So a header that is complete is that of the next packet of `log`, what follows
  is its payload, and `Received` is `Channel`'s `Receive`; `Lock` is its `Send`.

Model-checked only: `LogoutEnds`, `OverIsRated`, `Stops`, `MutexFreed` and `SentArrives`.
Liveness under fairness and ENABLED are beyond the prover, as are induction over data
(the library's induction theorems take an operator as a parameter) and RECURSIVE
operators; the modules use none. Every safety property of a passing run is a theorem.

## 7. Not modelled

* `csapp.c` and `csapp.h`: vendored wrappers of system calls, of which the server uses
  `open_listenfd`; `debug.h`: logging; the tests, which were read for what they promise.
* Roles: the role of INVITE decides who moves first (a choice here), and the role in the packet
  INVITED is read from an invitation that may have been freed (a hazard without a property).
* Ids in packets are 8 bits wide while a list has 8192 slots: a slot from 256 on cannot
  be named. Lists of that length are beyond TLC, and the handlers pass the number on unchanged.
* The reference count of a game, which is created with its invitation and freed with it;
  `game_create` failing inside `inv_accept` (it returns with `state_mutex` locked).
* Failures of `malloc` and of system calls, but for `inv_create`, `accept` and `write`.
* The Elo formula of `player_post_result` (floating point), timestamps and byte order of headers,
  user names as strings, the text of boards and moves.
* The reuse of a descriptor number by a new connection while another thread still sends to
  the old client.
