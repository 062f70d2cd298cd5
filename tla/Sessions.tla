------------------------------ MODULE Sessions ------------------------------
(***************************************************************************)
(* Players, the player registry, and who is logged in as whom              *)
(* (player_registry.c, player.c, the LOGIN and USERS handlers of server.c, *)
(* client_login and the end of client_logout, and the two walks of         *)
(* client_registry.c over the clients).                                    *)
(*                                                                         *)
(* A client is a place of the client registry's array and the service      *)
(* thread of the connection that has it; a place is given to a new         *)
(* connection when it is free.  The walks hold the registry's mutex, but   *)
(* log-ins and log-outs of the clients they pass do not need it.  There is *)
(* one player per name, which stands for its address too.                  *)
(***************************************************************************)
EXTENDS Integers, Sequences, FiniteSets

CONSTANTS
    Places,    \* the number of places (MAX_CLIENTS = 64)
    Name,      \* user names
    NoName,    \* NULL, where a PLAYER * is expected
    MaxPosts,  \* bound: results posted
    MaxLost    \* bound: LOGINs whose ACK cannot be sent

ASSUME PlacesAssumption == Places \in Nat \ {0}
ASSUME NameAssumption == IsFiniteSet(Name) /\ NoName \notin Name
ASSUME BoundAssumption == MaxPosts \in Nat /\ MaxLost \in Nat

VARIABLES
    \* struct player_registry, struct player
    id,       \* of each name, the id of its player; 0 if there is none
    pref,     \* ref_count of the player
    rating,   \* rating, as the difference from PLAYER_INITIAL_RATING
    rlock,    \* who holds rating_mutex; 0 for nobody
    \* struct client_registry, struct client
    crm,      \* who holds the registry's mutex; 0 for nobody
    player,   \* player of the client at each place
    \* service threads
    pc,       \* where the thread is; "free" if the place has no client
    me,       \* new_player in jeux_client_service
    np,       \* new_player in login_handler
    idx,      \* idx of the walk over the clients
    cnt,      \* len, after the first walk of creg_all_players
    out,      \* the array that creg_all_players fills
    post,     \* the arguments of player_post_result
    \* history
    since,    \* clients that logged in or out since the thread began to walk
    earned,   \* what the results posted for a player amount to
    leaked,   \* references to a player that nobody will give back
    posts,    \* results posted
    alive     \* FALSE once an array was overrun

players == <<id, pref, rating, rlock>>
clients == <<crm, player>>
locals == <<pc, me, np, idx, cnt, out, post>>
history == <<since, earned, leaked, posts>>
vars == <<players, clients, locals, history, alive>>

-----------------------------------------------------------------------------
Client == 1 .. Places
Nobody == 0
NoPost == [first |-> NoName, second |-> NoName, counted |-> FALSE,
           r1 |-> 0, r2 |-> 0]

One(p) == IF p THEN 1 ELSE 0

At(c, p) == alive /\ pc[c] = p
Goto(c, p) == pc' = [pc EXCEPT ![c] = p]

\* A thread between the start of a walk over the clients and what it does
\* with the result.
Walking == {"scan", "set", "count", "fill", "listed"}

\* client_set_player_safe; every thread that is walking missed it, perhaps.
SetPlayer(c, n) ==
    /\ player' = [player EXCEPT ![c] = n]
    /\ since' = [t \in Client |-> IF pc[t] \in Walking /\ t # c
                                  THEN since[t] \cup {c} ELSE since[t]]

\* player_ref and player_unref
Ref(n) == pref' = [pref EXCEPT ![n] = @ + 1]
Unref(n) == pref' = [pref EXCEPT ![n] = @ - 1]

Init ==
    /\ id = [n \in Name |-> 0]
    /\ pref = [n \in Name |-> 0]
    /\ rating = [n \in Name |-> 0]
    /\ rlock = [n \in Name |-> Nobody]
    /\ crm = Nobody
    /\ player = [c \in Client |-> NoName]
    /\ pc = [c \in Client |-> "free"]
    /\ me = [c \in Client |-> NoName]
    /\ np = [c \in Client |-> NoName]
    /\ idx = [c \in Client |-> 0]
    /\ cnt = [c \in Client |-> 0]
    /\ out = [c \in Client |-> <<>>]
    /\ post = [c \in Client |-> NoPost]
    /\ since = [c \in Client |-> {}]
    /\ earned = [n \in Name |-> 0]
    /\ leaked = [n \in Name |-> 0]
    /\ posts = 0
    /\ alive = TRUE

-----------------------------------------------------------------------------
\* A connection takes the first free place (creg_register).
Connect(c) ==
    /\ At(c, "free") /\ crm = Nobody
    /\ \A d \in Client : d < c => pc[d] # "free"
    /\ Goto(c, "ready")
    /\ UNCHANGED <<players, clients, me, np, idx, cnt, out, post, history, alive>>

\* LOGIN, when the thread has no player: preg_register finds the player, or
\* creates it with a reference for the registry and one for the caller.
Login(c, n) ==
    /\ At(c, "ready") /\ me[c] = NoName
    /\ IF id[n] = 0
       THEN /\ id' = [id EXCEPT ![n] = 1 + Cardinality({x \in Name : id[x] # 0})]
            /\ pref' = [pref EXCEPT ![n] = 2]
       ELSE Ref(n) /\ UNCHANGED id
    /\ np' = [np EXCEPT ![c] = n]
    /\ Goto(c, "check")
    /\ UNCHANGED <<rating, rlock, clients, me, idx, cnt, out, post, history,
                   alive>>

\* Mutant of Refused: the player is not given back.
RefusedKeeps(c) ==
    /\ np' = [np EXCEPT ![c] = NoName]
    /\ since' = [since EXCEPT ![c] = {}]
    /\ Goto(c, "ready")
    /\ UNCHANGED pref

\* client_login has returned -1: player_unref, NACK.
Refused(c) ==
    /\ Unref(np[c])
    /\ np' = [np EXCEPT ![c] = NoName]
    /\ since' = [since EXCEPT ![c] = {}]
    /\ Goto(c, "ready")

\* client_get_player of the client itself is set when an earlier LOGIN
\* succeeded whose ACK could not be sent.
AlreadyLoggedIn(c) ==
    /\ At(c, "check") /\ player[c] # NoName
    /\ Refused(c)
    /\ UNCHANGED <<id, rating, rlock, clients, me, idx, cnt, out, post,
                   earned, leaked, posts, alive>>

\* creg_lookup takes the registry's mutex ...
Lookup(c) ==
    /\ At(c, "check") /\ player[c] = NoName /\ crm = Nobody
    /\ crm' = c
    /\ idx' = [idx EXCEPT ![c] = 1]
    /\ Goto(c, "scan")
    /\ UNCHANGED <<players, player, me, np, cnt, out, post, history, alive>>

\* Mutant of Scan: the last place is not looked at.
ScanShort(c) ==
    /\ At(c, "scan") /\ idx[c] < Places /\ player[idx[c]] # np[c]
    /\ idx' = [idx EXCEPT ![c] = IF @ = Places - 1 THEN Places + 1 ELSE @ + 1]
    /\ UNCHANGED <<players, clients, pc, me, np, cnt, out, post, history, alive>>

\* ... passes a place whose client has no player or another one ...
Scan(c) ==
    /\ At(c, "scan") /\ idx[c] <= Places /\ player[idx[c]] # np[c]
    /\ idx' = [idx EXCEPT ![c] = @ + 1]
    /\ UNCHANGED <<players, clients, pc, me, np, cnt, out, post, history, alive>>

\* ... stops where the name is the same, and the login fails ...
Found(c) ==
    /\ At(c, "scan") /\ idx[c] <= Places /\ player[idx[c]] = np[c]
    /\ crm' = Nobody
    /\ idx' = [idx EXCEPT ![c] = 0]
    /\ Refused(c)
    /\ UNCHANGED <<id, rating, rlock, player, me, cnt, out, post, earned,
                   leaked, posts, alive>>

\* ... or finds nothing.
NotFound(c) ==
    /\ At(c, "scan") /\ idx[c] > Places
    /\ crm' = Nobody
    /\ idx' = [idx EXCEPT ![c] = 0]
    /\ Goto(c, "set")
    /\ UNCHANGED <<players, player, me, np, cnt, out, post, history, alive>>

\* player_ref and client_set_player_safe, with no mutex of the registry.
LogIn(c) ==
    /\ At(c, "set")
    /\ Ref(np[c])
    /\ SetPlayer(c, np[c])
    /\ Goto(c, "ack")
    /\ UNCHANGED <<id, rating, rlock, crm, me, np, idx, cnt, out, post,
                   earned, leaked, posts, alive>>

\* login_handler returns the player when the ACK was sent, else NULL: the
\* thread forgets the player then, and its reference.
Ack(c) ==
    /\ At(c, "ack")
    /\ \/ me' = [me EXCEPT ![c] = np[c]] /\ UNCHANGED leaked
       \/ /\ \A n \in Name : leaked[n] < MaxLost
          /\ leaked' = [leaked EXCEPT ![np[c]] = @ + 1]
          /\ UNCHANGED me
    /\ np' = [np EXCEPT ![c] = NoName]
    /\ since' = [since EXCEPT ![c] = {}]
    /\ Goto(c, "ready")
    /\ UNCHANGED <<players, clients, idx, cnt, out, post, earned, posts, alive>>

-----------------------------------------------------------------------------
\* USERS: creg_all_players counts the clients that are logged in, allocates,
\* and walks over them again, all with the registry's mutex.

Users(c) ==
    /\ At(c, "ready") /\ me[c] # NoName /\ crm = Nobody
    /\ crm' = c
    /\ idx' = [idx EXCEPT ![c] = 1]
    /\ Goto(c, "count")
    /\ UNCHANGED <<players, player, me, np, cnt, out, post, history, alive>>

\* Mutant of Count: the last place is not counted.
CountShort(c) ==
    /\ At(c, "count")
    /\ IF idx[c] < Places
       THEN /\ cnt' = [cnt EXCEPT ![c] = @ + One(player[idx[c]] # NoName)]
            /\ idx' = [idx EXCEPT ![c] = @ + 1]
            /\ UNCHANGED pc
       ELSE /\ idx' = [idx EXCEPT ![c] = 1]
            /\ Goto(c, "fill")
            /\ UNCHANGED cnt
    /\ UNCHANGED <<players, clients, me, np, out, post, history, alive>>

Count(c) ==
    /\ At(c, "count")
    /\ IF idx[c] <= Places
       THEN /\ cnt' = [cnt EXCEPT ![c] = @ + One(player[idx[c]] # NoName)]
            /\ idx' = [idx EXCEPT ![c] = @ + 1]
            /\ UNCHANGED pc
       ELSE /\ idx' = [idx EXCEPT ![c] = 1]
            /\ Goto(c, "fill")
            /\ UNCHANGED cnt
    /\ UNCHANGED <<players, clients, me, np, out, post, history, alive>>

\* Mutant of Fill: the player is not counted.
FillUncounted(c) ==
    /\ At(c, "fill") /\ idx[c] <= Places
    /\ idx' = [idx EXCEPT ![c] = @ + 1]
    /\ out' = IF player[idx[c]] # NoName
              THEN [out EXCEPT ![c] = Append(@, player[idx[c]])] ELSE out
    /\ UNCHANGED <<players, clients, pc, me, np, cnt, post, history, alive>>

\* The array has a place more than were counted, for the NULL at its end.
Fill(c) ==
    LET n == player[idx[c]] IN
    /\ At(c, "fill") /\ idx[c] <= Places
    /\ idx' = [idx EXCEPT ![c] = @ + 1]
    /\ IF n # NoName
       THEN Ref(n) /\ out' = [out EXCEPT ![c] = Append(@, n)]
       ELSE UNCHANGED <<pref, out>>
    /\ UNCHANGED <<id, rating, rlock, clients, pc, me, np, cnt, post, history,
                   alive>>

Filled(c) ==
    /\ At(c, "fill") /\ idx[c] > Places
    /\ crm' = Nobody
    /\ idx' = [idx EXCEPT ![c] = 0]
    /\ Goto(c, "listed")
    /\ UNCHANGED <<players, player, me, np, cnt, out, post, history, alive>>

\* user_handler looks for the NULL, which an entry too many has overwritten.
Overrun(c) ==
    /\ At(c, "listed") /\ Len(out[c]) > cnt[c]
    /\ alive' = FALSE
    /\ UNCHANGED <<players, clients, locals, history>>

\* player_get_rating and player_unref of the next entry.
Tell(c) ==
    /\ At(c, "listed") \/ At(c, "tell")
    /\ Len(out[c]) <= cnt[c] /\ out[c] # <<>>
    /\ rlock[Head(out[c])] = Nobody
    /\ Unref(Head(out[c]))
    /\ out' = [out EXCEPT ![c] = Tail(@)]
    /\ since' = [since EXCEPT ![c] = {}]
    /\ Goto(c, "tell")
    /\ UNCHANGED <<id, rating, rlock, clients, me, np, idx, cnt, post, earned,
                   leaked, posts, alive>>

\* The list is sent.
Told(c) ==
    /\ At(c, "listed") \/ At(c, "tell")
    /\ Len(out[c]) <= cnt[c] /\ out[c] = <<>>
    /\ cnt' = [cnt EXCEPT ![c] = 0]
    /\ since' = [since EXCEPT ![c] = {}]
    /\ Goto(c, "ready")
    /\ UNCHANGED <<players, clients, me, np, idx, out, post, earned, leaked,
                   posts, alive>>

-----------------------------------------------------------------------------
\* player_post_result, at the end of a game between c and d.

\* A move ends the game, and takes references to both players; or a
\* resignation, of client_logout perhaps, which takes none.  Either may be
\* the first player.  (With a NULL nothing is posted.)
Post(c, d) ==
    /\ \/ At(c, "ready") /\ me[c] # NoName
       \/ At(c, "leaving")
    /\ c # d /\ player[c] # NoName /\ player[d] # NoName /\ posts < MaxPosts
    /\ posts' = posts + 1
    /\ \E f \in {c, d}, counted \in BOOLEAN :
         LET s == IF f = c THEN d ELSE c IN
         /\ post' = [post EXCEPT ![c] =
                       [first |-> player[f], second |-> player[s],
                        counted |-> counted, r1 |-> 0, r2 |-> 0]]
         /\ pref' = [n \in Name |-> pref[n] + One(counted /\ n = player[c])
                                            + One(counted /\ n = player[d])]
    /\ Goto(c, "lock1")
    /\ UNCHANGED <<id, rating, rlock, clients, me, np, idx, cnt, out, since,
                   earned, leaked, alive>>

\* Mutant of Lower: the first argument is locked first.
LowerNot(p) == p.first

\* The player whose rating_mutex is locked first, and second.
Lower(p) == IF id[p.first] < id[p.second] THEN p.first ELSE p.second

Higher(p) == IF Lower(p) = p.first THEN p.second ELSE p.first

Lock1(c) ==
    /\ At(c, "lock1") /\ rlock[Lower(post[c])] = Nobody
    /\ rlock' = [rlock EXCEPT ![Lower(post[c])] = c]
    /\ Goto(c, "lock2")
    /\ UNCHANGED <<id, pref, rating, clients, me, np, idx, cnt, out, post,
                   history, alive>>

\* Mutant of Lock2: the mutexes are only held to read the ratings.
Lock2Releases(c) ==
    /\ At(c, "lock2") /\ rlock[Higher(post[c])] = Nobody
    /\ rlock' = [rlock EXCEPT ![Lower(post[c])] = Nobody]
    /\ post' = [post EXCEPT ![c].r1 = rating[post[c].first],
                            ![c].r2 = rating[post[c].second]]
    /\ Goto(c, "write")
    /\ UNCHANGED <<id, pref, rating, clients, me, np, idx, cnt, out, history,
                   alive>>

\* The second mutex, and the ratings as they are.
Lock2(c) ==
    /\ At(c, "lock2") /\ rlock[Higher(post[c])] = Nobody
    /\ rlock' = [rlock EXCEPT ![Higher(post[c])] = c]
    /\ post' = [post EXCEPT ![c].r1 = rating[post[c].first],
                            ![c].r2 = rating[post[c].second]]
    /\ Goto(c, "write")
    /\ UNCHANGED <<id, pref, rating, clients, me, np, idx, cnt, out, history,
                   alive>>

\* The new ratings, from those that were read: what one gains the other
\* loses.
Write(c) ==
    LET p == post[c].first
        q == post[c].second
    IN
    /\ At(c, "write")
    /\ \E g \in {1, -1} :
         /\ rating' = [rating EXCEPT ![p] = post[c].r1 + g, ![q] = post[c].r2 - g]
         /\ earned' = [earned EXCEPT ![p] = @ + g, ![q] = @ - g]
    /\ Goto(c, "unlock")
    /\ UNCHANGED <<id, pref, rlock, clients, me, np, idx, cnt, out, post, since,
                   leaked, posts, alive>>

\* Both mutexes are unlocked, and a mover gives its references back.
Unlock(c) ==
    LET p == post[c] IN
    /\ At(c, "unlock")
    /\ rlock' = [rlock EXCEPT ![p.first] = Nobody, ![p.second] = Nobody]
    /\ pref' = [n \in Name |-> pref[n] - One(p.counted /\ n = p.first)
                                      - One(p.counted /\ n = p.second)]
    /\ post' = [post EXCEPT ![c] = NoPost]
    /\ Goto(c, IF me[c] = NoName THEN "leaving" ELSE "ready")
    /\ UNCHANGED <<id, rating, clients, me, np, idx, cnt, out, history, alive>>

-----------------------------------------------------------------------------
\* End of file: the thread gives its reference back, and client_logout
\* resigns, revokes and declines, if the thread knows of a player.
Eof(c) ==
    /\ At(c, "ready")
    /\ IF me[c] # NoName
       THEN Unref(me[c]) /\ Goto(c, "leaving")
       ELSE UNCHANGED pref /\ Goto(c, "unreg")
    /\ me' = [me EXCEPT ![c] = NoName]
    /\ UNCHANGED <<id, rating, rlock, clients, np, idx, cnt, out, post, history,
                   alive>>

\* client_logout ends with player_unref ...
LogOut(c) ==
    /\ At(c, "leaving")
    /\ Unref(player[c])
    /\ Goto(c, "clear")
    /\ UNCHANGED <<id, rating, rlock, clients, me, np, idx, cnt, out, post,
                   history, alive>>

\* ... and client_set_player_safe(client, NULL).
Clear(c) ==
    /\ At(c, "clear")
    /\ SetPlayer(c, NoName)
    /\ Goto(c, "unreg")
    /\ UNCHANGED <<players, crm, me, np, idx, cnt, out, post, earned, leaked,
                   posts, alive>>

\* creg_unregister.  A client that is still logged in is freed as it is,
\* and its reference to the player is forgotten.
Unregister(c) ==
    /\ At(c, "unreg") /\ crm = Nobody
    /\ leaked' = [n \in Name |-> leaked[n] + One(n = player[c])]
    /\ SetPlayer(c, NoName)
    /\ Goto(c, "free")
    /\ UNCHANGED <<players, crm, me, np, idx, cnt, out, post, earned, posts, alive>>

-----------------------------------------------------------------------------
\* A result posted for a player against himself: his rating_mutex, which is
\* not recursive, is locked twice.
SelfLocked(c) == pc[c] = "lock2" /\ post[c].first = post[c].second

\* The thread is lost then, and others may be lost to it; or the process
\* has crashed.
Halted ==
    /\ ~alive \/ \E c \in Client : SelfLocked(c)
    /\ UNCHANGED vars

LoginStep(c) ==
    \/ \E n \in Name : Login(c, n)
    \/ AlreadyLoggedIn(c)
    \/ Lookup(c)
    \/ Scan(c)
    \/ Found(c)
    \/ NotFound(c)
    \/ LogIn(c)
    \/ Ack(c)

UsersStep(c) ==
    \/ Users(c)
    \/ Count(c)
    \/ Fill(c)
    \/ Filled(c)
    \/ Overrun(c)
    \/ Tell(c)
    \/ Told(c)

PostStep(c) ==
    \/ \E d \in Client : Post(c, d)
    \/ Lock1(c)
    \/ Lock2(c)
    \/ Write(c)
    \/ Unlock(c)

LogoutStep(c) ==
    \/ Eof(c)
    \/ LogOut(c)
    \/ Clear(c)
    \/ Unregister(c)

Next ==
    \/ \E c \in Client : Connect(c) \/ LoginStep(c) \/ UsersStep(c)
                       \/ PostStep(c) \/ LogoutStep(c)
    \/ Halted

Spec == Init /\ [][Next]_vars

-----------------------------------------------------------------------------
\* Types.

Pc == {"free", "ready", "check", "scan", "set", "ack", "count", "fill",
       "listed", "tell", "lock1", "lock2", "write", "unlock", "leaving",
       "clear", "unreg"}

PostRecord == [first : Name \cup {NoName}, second : Name \cup {NoName},
               counted : BOOLEAN, r1 : Int, r2 : Int]

TypeOK ==
    /\ id \in [Name -> Nat]
    /\ pref \in [Name -> Nat]
    /\ rating \in [Name -> Int]
    /\ rlock \in [Name -> Client \cup {Nobody}]
    /\ crm \in Client \cup {Nobody}
    /\ player \in [Client -> Name \cup {NoName}]
    /\ pc \in [Client -> Pc]
    /\ me \in [Client -> Name \cup {NoName}]
    /\ np \in [Client -> Name \cup {NoName}]
    /\ idx \in [Client -> 0 .. Places + 1]
    /\ cnt \in [Client -> 0 .. Places]
    /\ out \in [Client -> Seq(Name)]
    /\ post \in [Client -> PostRecord]
    /\ since \in [Client -> SUBSET Client]
    /\ earned \in [Name -> Int]
    /\ leaked \in [Name -> Nat]
    /\ posts \in 0 .. MaxPosts
    /\ alive \in BOOLEAN

-----------------------------------------------------------------------------
\* Safety.

\* Where a thread holds the reference that preg_register gave it.
Holding == {"check", "scan", "set", "ack"}

Refs(n) ==
    One(id[n] # 0)
    + Cardinality({c \in Client : player[c] = n /\ pc[c] # "clear"})
    + Cardinality({c \in Client : me[c] = n})
    + Cardinality({c \in Client : np[c] = n /\ pc[c] \in Holding})
    + Cardinality({e \in Client \X (1 .. Places) :
                     e[2] <= Len(out[e[1]]) /\ out[e[1]][e[2]] = n})
    + Cardinality({c \in Client : post[c].counted /\ post[c].first = n})
    + Cardinality({c \in Client : post[c].counted /\ post[c].second = n})

\* The count of a player is one for the registry, one for each client and
\* each thread that has it, one for each list of USERS and each mover that
\* refers to it, and what LOGINs leaked whose ACK could not be sent; so a
\* player is not freed while the server runs, as player_registry.h says.
PlayerRefExact == \A n \in Name : pref[n] = Refs(n) + leaked[n]

\* A client logs in as a player as whom another is logged in only if that
\* one logged in (or out) after the lookup of the name had begun: nobody is
\* missed who was there all the time.  (client.h wants none at all.)
LoginRefused ==
    [][\A c, d \in Client :
         /\ player[c] = NoName /\ player'[c] # NoName
         /\ c # d /\ player[d] = player'[c]
         => d \in since[c]]_vars

\* The list that USERS is answered with has every player who was logged in
\* throughout the call, and no more entries than were counted and logged in
\* during it; so the array is overrun only by a LOGIN between the walks.
UsersListed ==
    \A c \in Client : pc[c] = "listed" =>
      /\ \A d \in Client \ since[c] : player[d] # NoName
           => \E i \in DOMAIN out[c] : out[c][i] = player[d]
      /\ Len(out[c]) <= cnt[c] + Cardinality(since[c])

\* What a thread waits for: a rating mutex.
Wanted(c) == IF pc[c] = "lock1" THEN Lower(post[c])
             ELSE IF pc[c] = "lock2" THEN Higher(post[c])
             ELSE IF pc[c] \in {"listed", "tell"} /\ out[c] # <<>> THEN Head(out[c])
             ELSE NoName

Blocked(c) == Wanted(c) # NoName /\ rlock[Wanted(c)] # Nobody

\* No threads wait for each other in a circle to post results and to read
\* ratings: of any set of waiting threads, one waits for a thread outside
\* of it.  (But a result of a player against himself, after a double login,
\* waits for itself.)
NoCircle ==
    \A W \in SUBSET {c \in Client : Blocked(c) /\ ~SelfLocked(c)} :
       W # {} => \E c \in W : rlock[Wanted(c)] \notin W

\* No result is lost: a rating that nobody is changing is the sum of what
\* was posted, in whatever order the threads posted it.
NoResultLost ==
    \A n \in Name : rlock[n] = Nobody => rating[n] = earned[n]
=============================================================================
