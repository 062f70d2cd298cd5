--------------------------- MODULE SessionsProofs ---------------------------
(***************************************************************************)
(* Theorems about Sessions, for any number of places, names and results:   *)
(* whom a log-in and the answer to USERS can miss, that results are posted *)
(* without a circle of waiting threads and without loss, and that the      *)
(* reference counts of the players are what is had of them.                *)
(***************************************************************************)
EXTENDS Sessions, FiniteSetTheorems, WellFoundedInduction, TLAPS

-----------------------------------------------------------------------------
\* What the variables hold.

\* The types of what the theorems are about; of an index, that it is a number.
Types ==
    /\ id \in [Name -> Nat]
    /\ rating \in [Name -> Int]
    /\ rlock \in [Name -> Client \cup {Nobody}]
    /\ player \in [Client -> Name \cup {NoName}]
    /\ pc \in [Client -> Pc]
    /\ me \in [Client -> Name \cup {NoName}]
    /\ np \in [Client -> Name \cup {NoName}]
    /\ idx \in [Client -> Nat]
    /\ \A c \in Client : pc[c] \in {"scan", "count", "fill"} => idx[c] # 0
    /\ out \in [Client -> Seq(Name)]
    /\ post \in [Client -> PostRecord]
    /\ since \in [Client -> SUBSET Client]
    /\ earned \in [Name -> Int]

\* Players get ids in the order of their creation.
Created == {n \in Name : id[n] # 0}

Ids == /\ \A n \in Name : id[n] <= Cardinality(Created)
       /\ \A m, n \in Name : m # n /\ id[m] = id[n] => id[m] = 0

\* Whoever is or is becoming logged in has been created.
Names == \A c \in Client : /\ player[c] # NoName => id[player[c]] # 0
                           /\ np[c] # NoName => id[np[c]] # 0

\* So have the two players of a result that is being posted.
Posting == {"lock1", "lock2", "write", "unlock"}

Posted == \A c \in Client : pc[c] \in Posting =>
    /\ post[c].first \in Name /\ id[post[c].first] # 0
    /\ post[c].second \in Name /\ id[post[c].second] # 0

\* Which rating mutexes a thread holds.
Holds(c, n) ==
    \/ pc[c] = "lock2" /\ n = Lower(post[c])
    \/ pc[c] \in {"write", "unlock"} /\ n \in {post[c].first, post[c].second}

Locks == \A n \in Name, c \in Client : rlock[n] = c <=> Holds(c, n)

\* Who is about to write has read what is there still, of two players.
Fresh == \A c \in Client : pc[c] = "write" =>
    /\ post[c].first # post[c].second
    /\ post[c].r1 = rating[post[c].first]
    /\ post[c].r2 = rating[post[c].second]

Sums == \A n \in Name : rating[n] = earned[n]

Results == Ids /\ Posted /\ Locks /\ Fresh /\ Sums

\* A thread that looks for a name has not passed anybody who has it, except
\* for who came or went meanwhile.
Passed(c, d) == pc[c] = "set" \/ (pc[c] = "scan" /\ d < idx[c])

Walks == \A c, d \in Client :
    Passed(c, d) /\ d # c /\ d \notin since[c] => player[d] # np[c]

Inv == Types /\ Results /\ Names /\ Walks

-----------------------------------------------------------------------------
\* Steps that leave one part alone.

LEMMA ClientIds == \A c \in Client : c \in Nat /\ c # Nobody
BY PlacesAssumption DEF Client, Nobody

LEMMA CreatedFinite == IsFiniteSet(Created) /\ Cardinality(Created) \in Nat
BY NameAssumption, FS_Subset, FS_CardinalityType DEF Created

LEMMA ResultsKept ==
    ASSUME Results, UNCHANGED <<id, rating, rlock, post, earned>>,
           \A c \in Client : \/ pc'[c] = pc[c]
                             \/ pc[c] \notin Posting /\ pc'[c] \notin Posting
    PROVE  Results'
<1>1. Ids' /\ Sums'
  BY DEF Results, Ids, Created, Sums
<1>2. Posted'
  BY DEF Results, Posted
<1>3. \A n \in Name, c \in Client : Holds(c, n)' <=> Holds(c, n)
  BY DEF Holds, Lower, Posting
<1>4. Locks'
  BY <1>3 DEF Results, Locks
<1>5. Fresh'
  BY DEF Results, Fresh, Posting
<1> QED
  BY <1>1, <1>2, <1>4, <1>5 DEF Results

LEMMA NamesKept ==
    ASSUME Names, id' = id,
           \A c \in Client : /\ player'[c] \in {player[c], np[c], NoName}
                             /\ np'[c] \in {np[c], NoName}
    PROVE  Names'
BY DEF Names

LEMMA WalksKept ==
    ASSUME Walks,
           \A c, d \in Client : Passed(c, d)' =>
             /\ Passed(c, d) /\ np'[c] = np[c] /\ since[c] \subseteq since'[c]
             /\ player'[d] = player[d] \/ d \in since'[c] \/ d = c
    PROVE  Walks'
BY DEF Walks

\* A step of one thread that does none of these things.
LEMMA PlainInv ==
    ASSUME Inv, NEW c \in Client, NEW p \in Pc \ (Posting \cup {"scan", "set"}),
           pc[c] \notin Posting, pc' = [pc EXCEPT ![c] = p],
           UNCHANGED <<id, rating, rlock, player, post, earned>>,
           me' \in [Client -> Name \cup {NoName}],
           np' = np \/ np' = [np EXCEPT ![c] = NoName],
           idx' = idx \/ \E i \in Nat : idx' = [idx EXCEPT ![c] = i],
           p \in {"count", "fill"} => idx'[c] # 0,
           since' = since \/ since' = [since EXCEPT ![c] = {}],
           out' \in [Client -> Seq(Name)]
    PROVE  Inv'
<1>1. Types'
  <2>1. np' \in [Client -> Name \cup {NoName}] /\ idx' \in [Client -> Nat]
    BY ZenonT(40) DEF Inv, Types
  <2>2. since' \in [Client -> SUBSET Client] /\ pc' \in [Client -> Pc]
    BY DEF Inv, Types
  <2>3. \A d \in Client : d # c => pc'[d] = pc[d] /\ idx'[d] = idx[d]
    BY DEF Inv, Types
  <2>4. pc'[c] = p
    BY DEF Inv, Types
  <2> QED
    BY <2>1, <2>2, <2>3, <2>4 DEF Inv, Types
<1>2. \A d \in Client : pc'[d] = IF d = c THEN p ELSE pc[d]
  BY DEF Inv, Types
<1>3. Results'
  BY <1>2, ResultsKept DEF Inv
<1>4. \A d \in Client : np'[d] \in {np[d], NoName}
  BY DEF Inv, Types
<1>5. Names'
  BY <1>4, NamesKept DEF Inv
<1>6. \A d \in Client : d # c =>
        np'[d] = np[d] /\ idx'[d] = idx[d] /\ since'[d] = since[d]
  BY DEF Inv, Types
<1>7. Walks'
  BY <1>2, <1>6, WalksKept DEF Inv, Passed
<1> QED
  BY <1>1, <1>3, <1>5, <1>7 DEF Inv

-----------------------------------------------------------------------------
\* The steps of a thread that are of this kind.

LEMMA InitInv == Init => Inv
<1> SUFFICES ASSUME Init PROVE Inv
  OBVIOUS
<1>1. Types
  BY DEF Init, Types, Nobody, Pc, PostRecord, NoPost
<1>2. Created = {}
  BY DEF Init, Created
<1>3. Ids
  BY <1>2, FS_EmptySet DEF Init, Ids
<1>4. Posted /\ Fresh /\ Sums
  BY DEF Init, Posted, Posting, Fresh, Sums
<1>5. Locks
  BY ClientIds DEF Init, Locks, Holds
<1>6. Names /\ Walks
  BY DEF Init, Names, Walks, Passed
<1> QED
  BY <1>1, <1>3, <1>4, <1>5, <1>6 DEF Inv, Results

LEMMA StepConnect == ASSUME Inv, NEW c \in Client, Connect(c) PROVE Inv'
BY PlainInv
DEF Connect, At, Goto, players, clients, history, Inv, Types, Pc, Posting

LEMMA StepRefused ==
    ASSUME Inv, NEW c \in Client, AlreadyLoggedIn(c) \/ Found(c) PROVE Inv'
<1>1. CASE AlreadyLoggedIn(c)
  BY <1>1, PlainInv
  DEF AlreadyLoggedIn, Refused, At, Goto, clients, Inv, Types, Pc, Posting
<1>2. CASE Found(c)
  BY <1>2, PlainInv DEF Found, Refused, At, Goto, Inv, Types, Pc, Posting
<1> QED
  BY <1>1, <1>2

LEMMA StepAck == ASSUME Inv, NEW c \in Client, Ack(c) PROVE Inv'
<1>1. me' \in [Client -> Name \cup {NoName}]
  BY DEF Ack, Inv, Types
<1> QED
  BY <1>1, PlainInv
  DEF Ack, At, Goto, players, clients, Inv, Types, Pc, Posting

LEMMA StepUsers ==
    ASSUME Inv, NEW c \in Client, Users(c) \/ Count(c) \/ Filled(c) \/ Told(c)
    PROVE  Inv'
<1>1. CASE Users(c)
  <2>1. /\ pc[c] = "ready" /\ pc' = [pc EXCEPT ![c] = "count"]
        /\ idx' = [idx EXCEPT ![c] = 1] /\ idx'[c] # 0
    BY <1>1 DEF Users, At, Goto, Inv, Types
  <2>2. UNCHANGED <<players, player, me, np, out, post, history>>
    BY <1>1 DEF Users
  <2> QED
    BY <2>1, <2>2, PlainInv DEF players, history, Inv, Types, Pc, Posting
<1>2. CASE Count(c)
  <2>1. idx[c] \in Nat /\ pc[c] = "count"
    BY <1>2 DEF Count, At, Inv, Types
  <2>2. UNCHANGED <<players, clients, me, np, out, post, history>>
    BY <1>2 DEF Count
  <2>3. CASE idx[c] <= Places
    <3>1. pc' = [pc EXCEPT ![c] = "count"]
      BY <1>2, <2>1, <2>3 DEF Count, Inv, Types
    <3>2. /\ idx' = [idx EXCEPT ![c] = idx[c] + 1] /\ idx'[c] # 0
          /\ idx[c] + 1 \in Nat
      BY <1>2, <2>1, <2>3 DEF Count, Inv, Types
    <3> QED
      BY <2>1, <2>2, <3>1, <3>2, PlainInv
      DEF players, clients, history, Inv, Types, Pc, Posting
  <2>4. CASE ~(idx[c] <= Places)
    <3>1. pc' = [pc EXCEPT ![c] = "fill"]
      BY <1>2, <2>4 DEF Count, Goto
    <3>2. idx' = [idx EXCEPT ![c] = 1] /\ idx'[c] # 0
      BY <1>2, <2>4 DEF Count, Inv, Types
    <3> QED
      BY <2>1, <2>2, <3>1, <3>2, PlainInv
      DEF players, clients, history, Inv, Types, Pc, Posting
  <2> QED
    BY <2>3, <2>4
<1>3. CASE Filled(c)
  BY <1>3, PlainInv
  DEF Filled, At, Goto, players, history, Inv, Types, Pc, Posting
<1>4. CASE Told(c)
  BY <1>4, PlainInv
  DEF Told, At, Goto, players, clients, Inv, Types, Pc, Posting
<1> QED
  BY <1>1, <1>2, <1>3, <1>4

LEMMA StepFill == ASSUME Inv, NEW c \in Client, Fill(c) PROVE Inv'
<1>1. pc[c] = "fill" /\ idx[c] \in Client
  BY PlacesAssumption DEF Fill, At, Inv, Types, Client
<1>2. out' \in [Client -> Seq(Name)]
  <2>1. CASE player[idx[c]] # NoName
    <3>1. player[idx[c]] \in Name /\ out[c] \in Seq(Name)
      BY <1>1, <2>1 DEF Inv, Types
    <3>2. Append(out[c], player[idx[c]]) \in Seq(Name)
      BY <3>1
    <3> QED
      BY <2>1, <3>2 DEF Fill, Inv, Types
  <2>2. CASE player[idx[c]] = NoName
    BY <2>2 DEF Fill, Inv, Types
  <2> QED
    BY <2>1, <2>2
<1>3. pc' = [pc EXCEPT ![c] = "fill"]
  BY <1>1 DEF Fill, Inv, Types
<1>4. /\ idx' = [idx EXCEPT ![c] = idx[c] + 1] /\ idx'[c] # 0
      /\ idx[c] + 1 \in Nat
  BY DEF Fill, Inv, Types
<1>5. UNCHANGED <<id, rating, rlock, player, post, earned, me, np, since>>
  BY DEF Fill, clients, history
<1> QED
  BY <1>1, <1>2, <1>3, <1>4, <1>5, PlainInv DEF Inv, Types, Pc, Posting

LEMMA StepTell == ASSUME Inv, NEW c \in Client, Tell(c) PROVE Inv'
<1>1. out' \in [Client -> Seq(Name)]
  BY DEF Tell, Inv, Types
<1> QED
  BY <1>1, PlainInv DEF Tell, At, Goto, clients, Inv, Types, Pc, Posting

LEMMA StepEof ==
    ASSUME Inv, NEW c \in Client, Eof(c) \/ LogOut(c) PROVE Inv'
<1>1. CASE Eof(c)
  <2>1. me' \in [Client -> Name \cup {NoName}]
    BY <1>1 DEF Eof, Inv, Types
  <2>2. PICK p \in {"leaving", "unreg"} : pc' = [pc EXCEPT ![c] = p]
    BY <1>1 DEF Eof, Goto
  <2> QED
    BY <1>1, <2>1, <2>2, PlainInv
    DEF Eof, At, clients, history, Inv, Types, Pc, Posting
<1>2. CASE LogOut(c)
  BY <1>2, PlainInv
  DEF LogOut, At, Goto, clients, history, Inv, Types, Pc, Posting
<1> QED
  BY <1>1, <1>2

LEMMA StepNone ==
    ASSUME Inv, UNCHANGED <<players, clients, locals, history>> PROVE Inv'
BY DEF players, clients, locals, history, Inv, Types, Results, Ids, Created,
       Posted, Locks, Holds, Lower, Fresh, Sums, Names, Walks, Passed

-----------------------------------------------------------------------------
\* Log-ins and log-outs.

\* Who sets a player is noticed by everybody on a walk.
LEMMA StepSetPlayer ==
    ASSUME Inv, NEW c \in Client, NEW n \in {np[c], NoName}, SetPlayer(c, n),
           NEW p \in Pc \ (Posting \cup {"scan", "set", "count", "fill"}),
           pc[c] \notin Posting, pc' = [pc EXCEPT ![c] = p],
           UNCHANGED <<id, rating, rlock, post, earned, me, np, idx, out>>
    PROVE  Inv'
<1>1. \A d \in Client : pc'[d] = IF d = c THEN p ELSE pc[d]
  BY DEF Inv, Types
<1>2. \A d \in Client : player'[d] = IF d = c THEN n ELSE player[d]
  BY DEF SetPlayer, Inv, Types
<1>3. \A t \in Client : since'[t] = IF pc[t] \in Walking /\ t # c
                                   THEN since[t] \cup {c} ELSE since[t]
  BY DEF SetPlayer
<1>4. Types'
  <2>1. n \in Name \cup {NoName}
    BY DEF Inv, Types
  <2>2. player' \in [Client -> Name \cup {NoName}]
    BY <2>1 DEF SetPlayer, Inv, Types
  <2>3. since' \in [Client -> SUBSET Client]
    BY DEF SetPlayer, Inv, Types
  <2>4. pc' \in [Client -> Pc]
    BY DEF Inv, Types
  <2> QED
    BY <1>1, <2>2, <2>3, <2>4 DEF Inv, Types
<1>5. Results'
  BY <1>1, ResultsKept DEF Inv
<1>6. Names'
  BY <1>2, NamesKept DEF Inv
<1>7. Walks'
  <2> SUFFICES ASSUME NEW t \in Client, NEW d \in Client, Passed(t, d)'
               PROVE  /\ Passed(t, d) /\ np'[t] = np[t]
                      /\ since[t] \subseteq since'[t]
                      /\ player'[d] = player[d] \/ d \in since'[t] \/ d = t
    BY WalksKept DEF Inv
  <2>1. t # c
    BY <1>1 DEF Passed
  <2>2. Passed(t, d) /\ pc[t] \in Walking
    BY <1>1, <2>1 DEF Passed, Walking
  <2> QED
    BY <1>2, <1>3, <2>1, <2>2
<1> QED
  BY <1>4, <1>5, <1>6, <1>7 DEF Inv

LEMMA StepLogIn == ASSUME Inv, NEW c \in Client, LogIn(c) PROVE Inv'
BY StepSetPlayer DEF LogIn, At, Goto, Pc, Posting

LEMMA StepClear == ASSUME Inv, NEW c \in Client, Clear(c) PROVE Inv'
BY StepSetPlayer DEF Clear, At, Goto, players, Pc, Posting

LEMMA StepUnregister == ASSUME Inv, NEW c \in Client, Unregister(c) PROVE Inv'
BY StepSetPlayer DEF Unregister, At, Goto, players, Pc, Posting

\* A new player's id is greater than all before.
LEMMA LoginIds ==
    ASSUME Inv, NEW n \in Name, id[n] = 0,
           id' = [id EXCEPT ![n] = 1 + Cardinality(Created)]
    PROVE  Ids'
<1>1. Cardinality(Created) \in Nat
  BY CreatedFinite
<1>2. \A m \in Name : id'[m] = IF m = n THEN 1 + Cardinality(Created) ELSE id[m]
  BY DEF Inv, Types
<1>3. Created' = Created \cup {n} /\ n \notin Created
  BY <1>1, <1>2 DEF Created
<1>4. Cardinality(Created') = Cardinality(Created) + 1
  BY <1>3, CreatedFinite, FS_AddElement
<1>5. \A m \in Name : id[m] \in Nat /\ id[m] <= Cardinality(Created)
  BY DEF Inv, Types, Results, Ids
<1>6. \A m \in Name : id'[m] <= Cardinality(Created')
  BY <1>1, <1>2, <1>4, <1>5
<1>7. \A l, m \in Name : l # m /\ id'[l] = id'[m] => id'[l] = 0
  BY <1>1, <1>2, <1>5 DEF Inv, Results, Ids
<1> QED
  BY <1>6, <1>7 DEF Ids

LEMMA StepLogin ==
    ASSUME Inv, NEW c \in Client, NEW n \in Name, Login(c, n) PROVE Inv'
<1>1. /\ pc[c] = "ready" /\ pc' = [pc EXCEPT ![c] = "check"]
      /\ np' = [np EXCEPT ![c] = n]
      /\ UNCHANGED <<rating, rlock, player, me, idx, out, post, since, earned>>
  BY DEF Login, At, Goto, clients, history
<1>2. \/ id[n] # 0 /\ id' = id
      \/ id[n] = 0 /\ id' = [id EXCEPT ![n] = 1 + Cardinality(Created)]
  BY DEF Login, Created
<1>3. /\ id'[n] # 0 /\ \A m \in Name : id[m] # 0 => id'[m] = id[m]
      /\ id' \in [Name -> Nat]
  <2>1. CASE id[n] # 0 /\ id' = id
    BY <2>1 DEF Inv, Types
  <2>2. CASE id[n] = 0 /\ id' = [id EXCEPT ![n] = 1 + Cardinality(Created)]
    <3>1. Cardinality(Created) \in Nat
      BY CreatedFinite
    <3>2. \A m \in Name : id'[m] = IF m = n THEN 1 + Cardinality(Created)
                                   ELSE id[m]
      BY <2>2 DEF Inv, Types
    <3> QED
      BY <2>2, <3>1, <3>2 DEF Inv, Types
  <2> QED
    BY <1>2, <2>1, <2>2
<1>4. \A d \in Client : /\ pc'[d] = IF d = c THEN "check" ELSE pc[d]
                        /\ np'[d] = IF d = c THEN n ELSE np[d]
  BY <1>1 DEF Inv, Types
<1>5. Types'
  <2>1. pc' \in [Client -> Pc] /\ np' \in [Client -> Name \cup {NoName}]
    BY <1>1 DEF Inv, Types, Pc
  <2> QED
    BY <1>1, <1>3, <1>4, <2>1 DEF Inv, Types
<1>6. Ids'
  BY <1>2, LoginIds DEF Inv, Results, Ids, Created
<1>7. Posted'
  BY <1>1, <1>3, <1>4 DEF Inv, Results, Posted, Posting
<1>8. Locks'
  <2>1. ASSUME NEW d \in Client, pc[d] \in Posting
        PROVE  Lower(post[d])' = Lower(post[d])
    BY <1>1, <1>3, <2>1 DEF Inv, Results, Posted, Lower
  <2>2. \A m \in Name, d \in Client : Holds(d, m)' <=> Holds(d, m)
    BY <1>1, <1>4, <2>1 DEF Holds, Posting
  <2> QED
    BY <1>1, <2>2 DEF Inv, Results, Locks
<1>9. Fresh' /\ Sums'
  BY <1>1, <1>4 DEF Inv, Results, Fresh, Sums
<1>10. Names'
  BY <1>1, <1>3, <1>4 DEF Inv, Types, Names
<1>11. Walks'
  BY <1>1, <1>4, WalksKept DEF Inv, Passed
<1> QED
  BY <1>5, <1>6, <1>7, <1>8, <1>9, <1>10, <1>11 DEF Inv, Results

-----------------------------------------------------------------------------
\* The walk of creg_lookup.

LEMMA StepLookup ==
    ASSUME Inv, NEW c \in Client, Lookup(c) \/ Scan(c) \/ NotFound(c)
    PROVE  Inv'
<1>1. UNCHANGED <<players, player, me, np, out, post, history>>
  BY DEF Lookup, Scan, NotFound, clients
<1>2. idx[c] \in Nat
  BY DEF Inv, Types
<1>3. PICK p \in {"scan", "set"} :
        /\ \A d \in Client : pc'[d] = IF d = c THEN p ELSE pc[d]
        /\ pc' \in [Client -> Pc]
  BY ZenonT(40) DEF Lookup, Scan, NotFound, At, Goto, Inv, Types, Pc
<1>4. PICK i \in Nat :
        /\ \A d \in Client : idx'[d] = IF d = c THEN i ELSE idx[d]
        /\ idx' \in [Client -> Nat]
        /\ p = "scan" => i # 0
  <2>1. CASE Lookup(c)
    BY <2>1 DEF Lookup, Inv, Types
  <2>2. CASE Scan(c)
    <3>1. idx' = [idx EXCEPT ![c] = idx[c] + 1]
      BY <2>2 DEF Scan
    <3>2. idx[c] + 1 \in Nat /\ idx[c] + 1 # 0
      BY <1>2
    <3> QED
      BY <3>1, <3>2 DEF Inv, Types
  <2>3. CASE NotFound(c)
    <3>1. pc'[c] = "set" /\ idx' = [idx EXCEPT ![c] = 0]
      BY <2>3 DEF NotFound, Goto, Inv, Types
    <3>2. p = "set"
      BY <1>3, <3>1
    <3> QED
      BY <3>1, <3>2 DEF Inv, Types
  <2> QED
    BY <2>1, <2>2, <2>3
<1>5. pc[c] \in {"check", "scan"}
  BY DEF Lookup, Scan, NotFound, At
<1>6. Types'
  <2>1. \A d \in Client : pc'[d] \in {"scan", "count", "fill"} => idx'[d] # 0
    BY <1>3, <1>4 DEF Inv, Types
  <2> QED
    BY <1>1, <1>3, <1>4, <2>1 DEF Inv, Types, players, history
<1>7. Results'
  BY <1>1, <1>3, <1>5, ResultsKept DEF Inv, Posting, players, history
<1>8. Names'
  BY <1>1, NamesKept DEF Inv, players
<1>9. Walks'
  <2> SUFFICES ASSUME NEW t \in Client, NEW d \in Client, Passed(t, d)',
                      d # t, d \notin since[t]
               PROVE  player[d] # np[t]
    BY <1>1 DEF Walks, history
  <2>1. CASE t # c
    BY <1>3, <1>4, <2>1 DEF Passed, Inv, Walks
  <2>2. CASE t = c /\ Passed(t, d)
    BY <2>2 DEF Inv, Walks
  <2>3. CASE t = c /\ Lookup(c)
    <3>1. pc'[c] = "scan" /\ idx'[c] = 1
      BY <2>3 DEF Lookup, Goto, Inv, Types
    <3>2. ~(d < 1)
      BY ClientIds DEF Nobody
    <3> QED
      BY <2>3, <3>1, <3>2 DEF Passed
  <2>4. CASE t = c /\ Scan(c) /\ ~Passed(t, d)
    <3>1. d < idx[c] + 1 /\ ~(d < idx[c])
      BY <2>4 DEF Scan, At, Passed, Inv, Types
    <3>2. d = idx[c]
      BY <1>2, <3>1, ClientIds
    <3> QED
      BY <2>4, <3>2 DEF Scan
  <2>5. CASE t = c /\ NotFound(c)
    <3>1. d < idx[c]
      BY <1>2, <2>5, PlacesAssumption DEF NotFound, Client
    <3> QED
      BY <2>5, <3>1 DEF NotFound, At, Passed, Inv, Walks
  <2> QED
    BY <2>1, <2>2, <2>3, <2>4, <2>5
<1> QED
  BY <1>6, <1>7, <1>8, <1>9 DEF Inv

-----------------------------------------------------------------------------
\* Results.

\* A step of one thread on its way through player_post_result.
LEMMA Moved ==
    ASSUME Types, NEW c \in Client, NEW p \in Pc, pc' = [pc EXCEPT ![c] = p]
    PROVE  /\ pc' \in [Client -> Pc]
           /\ \A d \in Client : pc'[d] = IF d = c THEN p ELSE pc[d]
BY DEF Types

LEMMA PostTypes ==
    ASSUME Types, NEW c \in Client, NEW p \in Pc \ {"scan", "count", "fill"},
           pc' = [pc EXCEPT ![c] = p],
           UNCHANGED <<id, player, me, np, idx, out, since>>,
           rating' \in [Name -> Int], earned' \in [Name -> Int],
           rlock' \in [Name -> Client \cup {Nobody}],
           post' \in [Client -> PostRecord]
    PROVE  Types'
<1>1. \A d \in Client : pc'[d] = IF d = c THEN p ELSE pc[d]
  BY Moved
<1>2. pc' \in [Client -> Pc]
  BY Moved
<1> QED
  BY <1>1, <1>2 DEF Types

\* It walks nowhere.
LEMMA PostAside ==
    ASSUME Inv, NEW c \in Client, NEW p \in Pc \ {"scan", "set"},
           pc' = [pc EXCEPT ![c] = p], UNCHANGED <<id, player, np, idx, since>>
    PROVE  Names' /\ Walks' /\ Ids'
<1>1. \A d \in Client : pc'[d] = IF d = c THEN p ELSE pc[d]
  BY Moved DEF Inv
<1>2. Walks'
  BY <1>1, WalksKept DEF Inv, Passed
<1> QED
  BY <1>2, NamesKept DEF Inv, Results, Ids, Created

LEMMA StepPost ==
    ASSUME Inv, NEW c \in Client, NEW e \in Client, Post(c, e) PROVE Inv'
<1>1. /\ pc[c] \in {"ready", "leaving"} /\ pc' = [pc EXCEPT ![c] = "lock1"]
      /\ UNCHANGED <<id, rating, rlock, player, me, np, idx, out, since, earned>>
      /\ player[c] \in Name /\ player[e] \in Name
  BY DEF Post, At, Goto, clients, Inv, Types
<1>2. PICK f \in {c, e}, k \in BOOLEAN :
        post' = [post EXCEPT ![c] =
                   [first |-> player[f],
                    second |-> player[IF f = c THEN e ELSE c],
                    counted |-> k, r1 |-> 0, r2 |-> 0]]
  BY DEF Post
<1>3. /\ post'[c].first \in {player[c], player[e]}
      /\ post'[c].second \in {player[c], player[e]}
      /\ post' \in [Client -> PostRecord]
      /\ \A d \in Client : d # c => post'[d] = post[d]
  <2> DEFINE x == player[f]
             y == player[IF f = c THEN e ELSE c]
             r == [first |-> x, second |-> y, counted |-> k, r1 |-> 0, r2 |-> 0]
  <2>1. x \in {player[c], player[e]} /\ y \in {player[c], player[e]}
    OBVIOUS
  <2>2. r \in PostRecord /\ r.first = x /\ r.second = y
    <3>1. x \in Name /\ y \in Name
      BY <1>1, <2>1
    <3> HIDE DEF x, y
    <3> QED
      BY <3>1 DEF PostRecord
  <2>3. post' = [post EXCEPT ![c] = r]
    BY <1>2
  <2> HIDE DEF x, y, r
  <2> QED
    BY <2>1, <2>2, <2>3 DEF Inv, Types
<1>4. \A d \in Client : pc'[d] = IF d = c THEN "lock1" ELSE pc[d]
  BY <1>1, Moved DEF Inv, Pc
<1>5. Types'
  BY <1>1, <1>3, PostTypes DEF Inv, Types, Pc
<1>6. Names' /\ Walks' /\ Ids'
  BY <1>1, PostAside DEF Pc
<1>7. Posted'
  <2>1. id[player[c]] # 0 /\ id[player[e]] # 0
    BY <1>1, NameAssumption DEF Inv, Names
  <2>2. ASSUME NEW d \in Client, d # c, pc'[d] \in Posting
        PROVE  /\ post[d].first \in Name /\ id[post[d].first] # 0
               /\ post[d].second \in Name /\ id[post[d].second] # 0
    BY <1>4, <2>2 DEF Inv, Results, Posted
  <2> QED
    BY <1>1, <1>3, <2>1, <2>2 DEF Posted
<1>8. Locks'
  <2>1. \A n \in Name, d \in Client : Holds(d, n)' <=> Holds(d, n)
    BY <1>1, <1>3, <1>4 DEF Holds, Lower
  <2> QED
    BY <1>1, <2>1 DEF Inv, Results, Locks
<1>9. Fresh' /\ Sums'
  BY <1>1, <1>3, <1>4 DEF Inv, Results, Fresh, Sums
<1> QED
  BY <1>5, <1>6, <1>7, <1>8, <1>9 DEF Inv, Results

LEMMA LowerHigher ==
    ASSUME Inv, NEW c \in Client, pc[c] \in Posting
    PROVE  /\ Lower(post[c]) \in Name /\ Higher(post[c]) \in Name
           /\ {Lower(post[c]), Higher(post[c])} = {post[c].first, post[c].second}
           /\ Lower(post[c]) # Higher(post[c])
                => id[Lower(post[c])] < id[Higher(post[c])]
<1>1. /\ post[c].first \in Name /\ post[c].second \in Name
      /\ id[post[c].first] \in Nat /\ id[post[c].second] \in Nat
      /\ id[post[c].first] # 0 /\ id[post[c].second] # 0
  BY DEF Inv, Results, Posted, Types
<1>2. post[c].first # post[c].second => id[post[c].first] # id[post[c].second]
  BY <1>1 DEF Inv, Results, Ids
<1> QED
  BY <1>1, <1>2 DEF Lower, Higher

\* The first mutex, which nobody holds.
LEMMA StepLock1 == ASSUME Inv, NEW c \in Client, Lock1(c) PROVE Inv'
<1> DEFINE n == Lower(post[c])
<1>1. /\ pc[c] = "lock1" /\ pc' = [pc EXCEPT ![c] = "lock2"]
      /\ rlock[n] = Nobody /\ rlock' = [rlock EXCEPT ![n] = c]
      /\ UNCHANGED <<id, rating, player, me, np, idx, out, post, since, earned>>
  BY DEF Lock1, At, Goto, clients, history
<1>2. n \in Name
  BY <1>1, LowerHigher DEF Posting
<1>3. /\ rlock' \in [Name -> Client \cup {Nobody}]
      /\ \A m \in Name : rlock'[m] = IF m = n THEN c ELSE rlock[m]
  BY <1>1, <1>2 DEF Inv, Types
<1>4. \A d \in Client : pc'[d] = IF d = c THEN "lock2" ELSE pc[d]
  BY <1>1, Moved DEF Inv, Pc
<1>5. Types'
  BY <1>1, <1>3, PostTypes DEF Inv, Types, Pc
<1>6. Names' /\ Walks' /\ Ids'
  BY <1>1, PostAside DEF Pc
<1>7. Posted' /\ Fresh' /\ Sums'
  BY <1>1, <1>4 DEF Inv, Results, Posted, Posting, Fresh, Sums
<1>8. Locks'
  <2> SUFFICES ASSUME NEW m \in Name, NEW d \in Client
               PROVE  rlock'[m] = d <=> Holds(d, m)'
    BY DEF Locks
  <2>1. rlock[m] = d <=> Holds(d, m)
    BY DEF Inv, Results, Locks
  <2>2. CASE d = c
    <3>1. Holds(d, m)' <=> m = n
      BY <1>1, <1>4, <2>2 DEF Holds, Lower
    <3>2. rlock[m] # c
      BY <1>1, <2>1, <2>2 DEF Holds
    <3> QED
      BY <1>3, <2>2, <3>1, <3>2
  <2>3. CASE d # c
    <3>1. Holds(d, m)' <=> Holds(d, m)
      BY <1>1, <1>4, <2>3 DEF Holds, Lower
    <3>2. m = n => rlock[m] # d
      BY <1>1, ClientIds
    <3> QED
      BY <1>3, <2>1, <2>3, <3>1, <3>2
  <2> QED
    BY <2>2, <2>3
<1> QED
  BY <1>5, <1>6, <1>7, <1>8 DEF Inv, Results

\* The second, which is another one then; the ratings are read under both.
LEMMA StepLock2 == ASSUME Inv, NEW c \in Client, Lock2(c) PROVE Inv'
<1> DEFINE n == Higher(post[c])
<1>1. /\ pc[c] = "lock2" /\ pc' = [pc EXCEPT ![c] = "write"]
      /\ rlock[n] = Nobody /\ rlock' = [rlock EXCEPT ![n] = c]
      /\ post' = [post EXCEPT ![c].r1 = rating[post[c].first],
                              ![c].r2 = rating[post[c].second]]
      /\ UNCHANGED <<id, rating, player, me, np, idx, out, since, earned>>
  BY DEF Lock2, At, Goto, clients, history
<1>2. /\ n \in Name /\ Lower(post[c]) \in Name
      /\ {Lower(post[c]), n} = {post[c].first, post[c].second}
      /\ post[c].first \in Name /\ post[c].second \in Name
  BY <1>1, LowerHigher DEF Posting, Inv, Results, Posted
<1>3. Lower(post[c]) # n
  <2>1. rlock[Lower(post[c])] = c
    BY <1>1, <1>2 DEF Inv, Results, Locks, Holds
  <2> QED
    BY <1>1, <2>1, ClientIds
<1>4. /\ rlock' \in [Name -> Client \cup {Nobody}]
      /\ \A m \in Name : rlock'[m] = IF m = n THEN c ELSE rlock[m]
  BY <1>1, <1>2 DEF Inv, Types
<1>5. \A d \in Client : pc'[d] = IF d = c THEN "write" ELSE pc[d]
  BY <1>1, Moved DEF Inv, Pc
<1>6. /\ post' \in [Client -> PostRecord]
      /\ \A d \in Client : /\ d # c => post'[d] = post[d]
                           /\ post'[d].first = post[d].first
                           /\ post'[d].second = post[d].second
      /\ post'[c].r1 = rating[post[c].first]
      /\ post'[c].r2 = rating[post[c].second]
  <2> DEFINE r == [post[c] EXCEPT !.r1 = rating[post[c].first],
                                  !.r2 = rating[post[c].second]]
  <2>1. post[c] \in PostRecord
    BY DEF Inv, Types
  <2>2. rating[post[c].first] \in Int /\ rating[post[c].second] \in Int
    BY <1>2 DEF Inv, Types
  <2>3. /\ r.first = post[c].first /\ r.second = post[c].second
        /\ r.r1 = rating[post[c].first] /\ r.r2 = rating[post[c].second]
        /\ r \in PostRecord
    BY <2>1, <2>2 DEF PostRecord
  <2>4. post' = [post EXCEPT ![c] = r]
    BY <1>1 DEF Inv, Types
  <2> HIDE DEF r
  <2> QED
    BY <2>3, <2>4 DEF Inv, Types
<1>7. Types'
  BY <1>1, <1>4, <1>6, PostTypes DEF Inv, Types, Pc
<1>8. Names' /\ Walks' /\ Ids'
  BY <1>1, PostAside DEF Pc
<1>9. Posted' /\ Sums'
  BY <1>1, <1>5, <1>6 DEF Inv, Results, Posted, Posting, Sums
<1>10. Fresh'
  BY <1>1, <1>2, <1>3, <1>5, <1>6 DEF Inv, Results, Fresh
<1>11. Locks'
  <2> SUFFICES ASSUME NEW m \in Name, NEW d \in Client
               PROVE  rlock'[m] = d <=> Holds(d, m)'
    BY DEF Locks
  <2>1. rlock[m] = d <=> Holds(d, m)
    BY DEF Inv, Results, Locks
  <2>2. CASE d = c
    <3>1. Holds(d, m)' <=> m \in {Lower(post[c]), n}
      BY <1>2, <1>5, <1>6, <2>2 DEF Holds
    <3>2. rlock[m] = c <=> m = Lower(post[c])
      BY <1>1, <2>1, <2>2 DEF Holds
    <3> QED
      BY <1>4, <2>2, <3>1, <3>2
  <2>3. CASE d # c
    <3>1. Holds(d, m)' <=> Holds(d, m)
      BY <1>1, <1>5, <1>6, <2>3 DEF Holds, Lower
    <3>2. m = n => rlock[m] # d
      BY <1>1, ClientIds
    <3> QED
      BY <1>4, <2>1, <2>3, <3>1, <3>2
  <2> QED
    BY <2>2, <2>3
<1> QED
  BY <1>7, <1>8, <1>9, <1>10, <1>11 DEF Inv, Results

\* Two ratings are written at once.
LEMMA TwoWritten ==
    ASSUME NEW f \in [Name -> Int], NEW h, NEW x \in Name, NEW y \in Name, x # y,
           NEW u \in Int, NEW v \in Int, h = [f EXCEPT ![x] = u, ![y] = v]
    PROVE  /\ h \in [Name -> Int] /\ h[x] = u /\ h[y] = v
           /\ \A m \in Name : m \notin {x, y} => h[m] = f[m]
<1>1. h \in [Name -> Int]
  OBVIOUS
<1>2. h[x] = u /\ h[y] = v
  OBVIOUS
<1>3. \A m \in Name : m \notin {x, y} => h[m] = f[m]
  OBVIOUS
<1> QED
  BY <1>1, <1>2, <1>3

\* What is written is what was read and the gain, and nobody else is about
\* to write from what he has read of these players.
LEMMA StepWrite == ASSUME Inv, NEW c \in Client, Write(c) PROVE Inv'
<1> DEFINE a == post[c].first
           b == post[c].second
<1>1. /\ pc[c] = "write" /\ pc' = [pc EXCEPT ![c] = "unlock"]
      /\ UNCHANGED <<id, rlock, player, me, np, idx, out, post, since>>
  BY DEF Write, At, Goto, clients
<1>2. PICK g \in {1, -1} :
        /\ rating' = [rating EXCEPT ![a] = post[c].r1 + g, ![b] = post[c].r2 - g]
        /\ earned' = [earned EXCEPT ![a] = @ + g, ![b] = @ - g]
  BY DEF Write
<1>3. /\ a \in Name /\ b \in Name /\ a # b
      /\ post[c].r1 = rating[a] /\ post[c].r2 = rating[b]
  BY <1>1 DEF Inv, Results, Posted, Posting, Fresh
<1>4. rating[a] \in Int /\ rating[b] \in Int /\ earned[a] \in Int /\ earned[b] \in Int
  BY <1>3 DEF Inv, Types
<1>5. /\ rating' \in [Name -> Int] /\ earned' \in [Name -> Int]
      /\ \A m \in Name : m \notin {a, b} => /\ rating'[m] = rating[m]
                                          /\ earned'[m] = earned[m]
      /\ rating'[a] = rating[a] + g /\ rating'[b] = rating[b] - g
      /\ earned'[a] = earned[a] + g /\ earned'[b] = earned[b] - g
  <2>1. g \in Int
    OBVIOUS
  <2>2. /\ rating[a] + g \in Int /\ rating[b] - g \in Int
        /\ earned[a] + g \in Int /\ earned[b] - g \in Int
    BY <1>4, <2>1
  <2>3. rating \in [Name -> Int] /\ earned \in [Name -> Int]
    BY DEF Inv, Types
  <2>4. rating' = [rating EXCEPT ![a] = rating[a] + g, ![b] = rating[b] - g]
    BY <1>2, <1>3
  <2>5. earned' = [earned EXCEPT ![a] = earned[a] + g, ![b] = earned[b] - g]
    BY <1>2, <1>3, <2>3
  <2> HIDE DEF a, b
  <2>6. /\ rating' \in [Name -> Int] /\ rating'[a] = rating[a] + g
        /\ rating'[b] = rating[b] - g
        /\ \A m \in Name : m \notin {a, b} => rating'[m] = rating[m]
    BY <1>3, <2>2, <2>3, <2>4, TwoWritten
  <2>7. /\ earned' \in [Name -> Int] /\ earned'[a] = earned[a] + g
        /\ earned'[b] = earned[b] - g
        /\ \A m \in Name : m \notin {a, b} => earned'[m] = earned[m]
    BY <1>3, <2>2, <2>3, <2>5, TwoWritten
  <2> QED
    BY <2>6, <2>7
<1>6. \A d \in Client : pc'[d] = IF d = c THEN "unlock" ELSE pc[d]
  BY <1>1, Moved DEF Inv, Pc
<1>7. Types'
  BY <1>1, <1>5, PostTypes DEF Inv, Types, Pc
<1>8. Names' /\ Walks' /\ Ids'
  BY <1>1, PostAside DEF Pc
<1>9. Posted'
  BY <1>1, <1>6 DEF Inv, Results, Posted, Posting
<1>10. Sums'
  <2>1. \A m \in Name : rating[m] = earned[m]
    BY DEF Inv, Results, Sums
  <2>2. rating'[a] = earned'[a] /\ rating'[b] = earned'[b]
    BY <1>3, <1>5, <2>1
  <2> QED
    BY <1>5, <2>1, <2>2 DEF Sums
<1>11. Locks'
  <2>1. \A m \in Name, d \in Client : Holds(d, m)' <=> Holds(d, m)
    BY <1>1, <1>6 DEF Holds, Lower
  <2> QED
    BY <1>1, <2>1 DEF Inv, Results, Locks
<1>12. Fresh'
  <2> SUFFICES ASSUME NEW d \in Client, pc'[d] = "write"
               PROVE  /\ post[d].first # post[d].second
                      /\ post[d].r1 = rating'[post[d].first]
                      /\ post[d].r2 = rating'[post[d].second]
    BY <1>1 DEF Fresh
  <2>1. d # c /\ pc[d] = "write"
    BY <1>6
  <2>2. /\ post[d].first \in Name /\ post[d].second \in Name
        /\ post[d].first # post[d].second
        /\ post[d].r1 = rating[post[d].first]
        /\ post[d].r2 = rating[post[d].second]
    BY <2>1 DEF Inv, Results, Posted, Posting, Fresh
  <2>3. rlock[a] = c /\ rlock[b] = c
    BY <1>1, <1>3 DEF Inv, Results, Locks, Holds
  <2>4. rlock[post[d].first] = d /\ rlock[post[d].second] = d
    BY <2>1, <2>2 DEF Inv, Results, Locks, Holds
  <2>5. post[d].first \notin {a, b} /\ post[d].second \notin {a, b}
    BY <2>1, <2>3, <2>4
  <2> QED
    BY <1>5, <2>2, <2>5
<1> QED
  BY <1>7, <1>8, <1>9, <1>10, <1>11, <1>12 DEF Inv, Results

LEMMA StepUnlock == ASSUME Inv, NEW c \in Client, Unlock(c) PROVE Inv'
<1> DEFINE a == post[c].first
           b == post[c].second
<1>1. /\ pc[c] = "unlock"
      /\ rlock' = [rlock EXCEPT ![a] = Nobody, ![b] = Nobody]
      /\ post' = [post EXCEPT ![c] = NoPost]
      /\ UNCHANGED <<id, rating, player, me, np, idx, out, since, earned>>
  BY DEF Unlock, At, clients, history
<1>2. PICK p \in {"leaving", "ready"} : pc' = [pc EXCEPT ![c] = p]
  BY DEF Unlock, Goto
<1>3. a \in Name /\ b \in Name
  BY <1>1 DEF Inv, Results, Posted, Posting
<1>4. /\ rlock' \in [Name -> Client \cup {Nobody}]
      /\ \A m \in Name : rlock'[m] = IF m \in {a, b} THEN Nobody ELSE rlock[m]
  BY <1>1, <1>3 DEF Inv, Types
<1>5. /\ post' \in [Client -> PostRecord]
      /\ \A d \in Client : d # c => post'[d] = post[d]
  BY <1>1 DEF Inv, Types, PostRecord, NoPost
<1>6. \A d \in Client : pc'[d] = IF d = c THEN p ELSE pc[d]
  BY <1>2, Moved DEF Inv, Pc
<1>7. Types'
  BY <1>1, <1>2, <1>4, <1>5, PostTypes DEF Inv, Types, Pc
<1>8. Names' /\ Walks' /\ Ids'
  BY <1>1, <1>2, PostAside DEF Pc
<1>9. Posted' /\ Fresh' /\ Sums'
  BY <1>1, <1>5, <1>6 DEF Inv, Results, Posted, Posting, Fresh, Sums
<1>10. Locks'
  <2> SUFFICES ASSUME NEW m \in Name, NEW d \in Client
               PROVE  rlock'[m] = d <=> Holds(d, m)'
    BY DEF Locks
  <2>1. rlock[m] = d <=> Holds(d, m)
    BY DEF Inv, Results, Locks
  <2>2. CASE d = c
    <3>1. rlock[m] = c <=> m \in {a, b}
      BY <1>1, <2>1, <2>2 DEF Holds
    <3>2. ~Holds(d, m)'
      BY <1>6, <2>2 DEF Holds
    <3> QED
      BY <1>4, <2>2, <3>1, <3>2, ClientIds
  <2>3. CASE d # c
    <3>1. Holds(d, m)' <=> Holds(d, m)
      BY <1>1, <1>5, <1>6, <2>3 DEF Holds, Lower
    <3>2. m \in {a, b} => rlock[m] = c
      BY <1>1 DEF Inv, Results, Locks, Holds
    <3> QED
      BY <1>4, <2>1, <2>3, <3>1, <3>2, ClientIds
  <2> QED
    BY <2>2, <2>3
<1> QED
  BY <1>7, <1>8, <1>9, <1>10 DEF Inv, Results

-----------------------------------------------------------------------------
LEMMA StepInv == Inv /\ [Next]_vars => Inv'
<1> SUFFICES ASSUME Inv, [Next]_vars PROVE Inv'
  OBVIOUS
<1>1. ASSUME NEW c \in Client, Connect(c) \/ LogoutStep(c) PROVE Inv'
  BY <1>1, StepConnect, StepEof, StepClear, StepUnregister DEF LogoutStep
<1>2. ASSUME NEW c \in Client, LoginStep(c) PROVE Inv'
  BY <1>2, StepLogin, StepRefused, StepLookup, StepLogIn, StepAck DEF LoginStep
<1>3. ASSUME NEW c \in Client, UsersStep(c) PROVE Inv'
  BY <1>3, StepUsers, StepFill, StepTell, StepNone DEF UsersStep, Overrun
<1>4. ASSUME NEW c \in Client, PostStep(c) PROVE Inv'
  BY <1>4, StepPost, StepLock1, StepLock2, StepWrite, StepUnlock DEF PostStep
<1>5. CASE Halted \/ UNCHANGED vars
  BY <1>5, StepNone DEF Halted, vars
<1> QED
  BY <1>1, <1>2, <1>3, <1>4, <1>5 DEF Next

LEMMA AlwaysInv == Spec => []Inv
<1>1. Init => Inv
  BY InitInv
<1>2. Inv /\ [Next]_vars => Inv'
  BY StepInv
<1> QED
  BY <1>1, <1>2, PTL DEF Spec

\* No log-in misses a client who was logged in as the same player from before
\* the lookup of the name on, however many come and go beside it.
THEOREM LoginsMissNobody == Spec => LoginRefused
<1> DEFINE Missed(c, d) == /\ player[c] = NoName /\ player'[c] # NoName
                           /\ c # d /\ player[d] = player'[c]
<1>1. ASSUME Inv, Next, NEW c \in Client, NEW d \in Client, Missed(c, d)
      PROVE  d \in since[c]
  <2>1. player' # player
    BY <1>1
  <2>2. PICK x \in Client : LogIn(x) \/ Clear(x) \/ Unregister(x)
    <3>1. ASSUME NEW x \in Client, LoginStep(x), ~LogIn(x) PROVE player' = player
      BY <3>1 DEF LoginStep, Login, AlreadyLoggedIn, Lookup, Scan, Found,
                  NotFound, Ack, clients
    <3>2. ASSUME NEW x \in Client, UsersStep(x) PROVE player' = player
      BY <3>2 DEF UsersStep, Users, Count, Fill, Filled, Overrun, Tell, Told,
                  clients
    <3>3. ASSUME NEW x \in Client, PostStep(x) PROVE player' = player
      BY <3>3 DEF PostStep, Post, Lock1, Lock2, Write, Unlock, clients
    <3>4. ASSUME NEW x \in Client,
                 Connect(x) \/ (LogoutStep(x) /\ ~Clear(x) /\ ~Unregister(x))
          PROVE  player' = player
      BY <3>4 DEF Connect, LogoutStep, Eof, LogOut, clients
    <3>5. Halted => player' = player
      BY DEF Halted, vars, clients
    <3> QED
      BY <1>1, <2>1, <3>1, <3>2, <3>3, <3>4, <3>5 DEF Next
  <2>3. PICK n \in {np[x], NoName} : player' = [player EXCEPT ![x] = n]
    BY <2>2 DEF LogIn, Clear, Unregister, SetPlayer
  <2>4. \A y \in Client : player'[y] = IF y = x THEN n ELSE player[y]
    BY <1>1, <2>3 DEF Inv, Types
  <2>5. x = c /\ n # NoName
    BY <1>1, <2>4
  <2>6. LogIn(c)
    BY <1>1, <2>2, <2>5 DEF Clear, Unregister, SetPlayer, Inv, Types
  <2>7. Passed(c, d) /\ player[d] = np[c]
    BY <1>1, <2>3, <2>4, <2>5, <2>6 DEF LogIn, At, Passed
  <2> QED
    BY <1>1, <2>7 DEF Inv, Walks
<1>2. Inv /\ [Next]_vars
        => [\A c, d \in Client : Missed(c, d) => d \in since[c]]_vars
  BY <1>1
<1> QED
  BY <1>2, AlwaysInv, PTL DEF Spec, LoginRefused

\* The ratings are the sums of the results, in whatever order and by however
\* many threads they are posted.
THEOREM ResultsAddUp == Spec => []NoResultLost
<1>1. Inv => NoResultLost
  BY DEF Inv, Results, Sums, NoResultLost
<1> QED
  BY <1>1, AlwaysInv, PTL

\* Who is waited for, and waits himself, wants a younger player's mutex than
\* the one he is waited for with.
LEMMA WaitsUp ==
    ASSUME Inv, NEW c \in Client, NEW h \in Client,
           Blocked(c), rlock[Wanted(c)] = h, Blocked(h), ~SelfLocked(h)
    PROVE  id[Wanted(c)] < id[Wanted(h)]
<1>1. Wanted(c) \in Name
  <2>1. CASE pc[c] \in {"lock1", "lock2"}
    BY <2>1, LowerHigher DEF Wanted, Posting
  <2>2. CASE pc[c] \notin {"lock1", "lock2"}
    BY <2>2 DEF Blocked, Wanted, Inv, Types
  <2> QED
    BY <2>1, <2>2
<1>2. Holds(h, Wanted(c))
  BY <1>1 DEF Inv, Results, Locks
<1>3. pc[h] = "lock2"
  BY <1>2 DEF Holds, Blocked, Wanted
<1>4. Wanted(c) = Lower(post[h]) /\ Wanted(h) = Higher(post[h])
  BY <1>2, <1>3 DEF Holds, Wanted
<1>5. Lower(post[h]) # Higher(post[h])
  BY <1>3 DEF SelfLocked, Lower, Higher
<1> QED
  BY <1>3, <1>4, <1>5, LowerHigher DEF Posting

\* No circle of threads that wait for rating mutexes, however many there are.
THEOREM NobodyInACircle == Spec => []NoCircle
<1>1. ASSUME Inv, NEW W \in SUBSET {c \in Client : Blocked(c) /\ ~SelfLocked(c)},
             W # {}, \A c \in W : rlock[Wanted(c)] \in W
      PROVE  FALSE
  <2> DEFINE S == {Cardinality(Created) - id[Wanted(c)] : c \in W}
  <2>1. Cardinality(Created) \in Nat
    BY CreatedFinite
  <2>2. ASSUME NEW c \in W
        PROVE  /\ c \in Client /\ Wanted(c) \in Name
               /\ id[Wanted(c)] \in Nat /\ id[Wanted(c)] <= Cardinality(Created)
    <3>1. Wanted(c) \in Name
      <4>1. CASE pc[c] \in {"lock1", "lock2"}
        BY <1>1, <4>1, LowerHigher DEF Wanted, Posting
      <4>2. CASE pc[c] \notin {"lock1", "lock2"}
        BY <1>1, <4>2 DEF Blocked, Wanted, Inv, Types
      <4> QED
        BY <4>1, <4>2
    <3> QED
      BY <1>1, <3>1 DEF Inv, Types, Results, Ids
  <2>3. S \in SUBSET Nat /\ S # {}
    <3>1. \A c \in W : Cardinality(Created) - id[Wanted(c)] \in Nat
      BY <2>1, <2>2
    <3> QED
      BY <1>1, <3>1
  <2>4. PICK x \in S : \A y \in S : <<y, x>> \notin OpToRel(<, Nat)
    BY <2>3, WFMin, NatLessThanWellFounded
  <2>5. \A y \in S : ~(y < x)
    BY <2>3, <2>4, Zenon DEF OpToRel
  <2>6. PICK c \in W : x = Cardinality(Created) - id[Wanted(c)]
    BY <2>4
  <2>7. PICK h \in W : rlock[Wanted(c)] = h
    BY <1>1, <2>6
  <2>8. id[Wanted(c)] < id[Wanted(h)]
    BY <1>1, <2>2, <2>6, <2>7, WaitsUp
  <2>9. Cardinality(Created) - id[Wanted(h)] < x
    BY <2>1, <2>2, <2>6, <2>7, <2>8
  <2> QED
    BY <2>5, <2>7, <2>9
<1>2. Inv => NoCircle
  BY <1>1 DEF NoCircle
<1> QED
  BY <1>2, AlwaysInv, PTL

-----------------------------------------------------------------------------
\* What the count of a player consists of: what the threads have of it, but
\* for lists of USERS (Shared), the lists (Entries), the registry and leaks.

Logged(n) == {c \in Client : player[c] = n /\ pc[c] # "clear"}
Mine(n) == {c \in Client : me[c] = n}
Held(n) == {c \in Client : np[c] = n /\ pc[c] \in Holding}
Firsts(n) == {c \in Client : post[c].counted /\ post[c].first = n}
Seconds(n) == {c \in Client : post[c].counted /\ post[c].second = n}

Shared(n) == Cardinality(Logged(n)) + Cardinality(Mine(n)) + Cardinality(Held(n))
             + Cardinality(Firsts(n)) + Cardinality(Seconds(n))

Entries(n) == {e \in Client \X (1 .. Places) :
                 e[2] <= Len(out[e[1]]) /\ out[e[1]][e[2]] = n}

\* What one thread has of it.
Share(c, n) == One(player[c] = n /\ pc[c] # "clear") + One(me[c] = n)
               + One(np[c] = n /\ pc[c] \in Holding)
               + One(post[c].counted /\ post[c].first = n)
               + One(post[c].counted /\ post[c].second = n)

Exact(n) == pref[n] = One(id[n] # 0) + Shared(n) + Cardinality(Entries(n)) + leaked[n]

\* The types of the rest.
Typed ==
    /\ pref \in [Name -> Int]
    /\ crm \in Client \cup {Nobody}
    /\ idx \in [Client -> 0 .. Places + 1]
    /\ cnt \in [Client -> 0 .. Places]
    /\ leaked \in [Name -> Nat]
    /\ posts \in 0 .. MaxPosts
    /\ alive \in BOOLEAN

\* What a thread has where: a reference from preg_register, a mover's
\* references, a list.
Keeps(c) ==
    /\ np[c] # NoName <=> pc[c] \in Holding
    /\ pc[c] \in Holding => me[c] = NoName
    /\ pc[c] \in {"scan", "set"} => player[c] = NoName
    /\ pc[c] \notin Posting => ~post[c].counted

Lists(c) ==
    /\ pc[c] \notin {"fill", "listed", "tell"} => out[c] = <<>>
    /\ pc[c] \notin {"count", "fill", "listed", "tell"} => cnt[c] = 0
    /\ pc[c] = "count" => cnt[c] < idx[c]
    /\ pc[c] = "fill" => Len(out[c]) < idx[c]
    /\ Len(out[c]) <= Places

\* Nobody refers to a player who has not been created.
Uncreated == \A n \in Name : id[n] = 0 => pref[n] = 0

Owned == /\ Typed /\ Uncreated
         /\ \A c \in Client : Keeps(c) /\ Lists(c)
         /\ \A n \in Name : Exact(n)

-----------------------------------------------------------------------------
\* Counting what one step changes.

LEMMA ClientFinite == IsFiniteSet(Client)
BY PlacesAssumption, FS_Interval DEF Client

LEMMA PartsFinite ==
    ASSUME NEW n \in Name
    PROVE  /\ IsFiniteSet(Logged(n)) /\ IsFiniteSet(Mine(n)) /\ IsFiniteSet(Held(n))
           /\ IsFiniteSet(Firsts(n)) /\ IsFiniteSet(Seconds(n))
           /\ Cardinality(Logged(n)) \in Nat /\ Cardinality(Mine(n)) \in Nat
           /\ Cardinality(Held(n)) \in Nat /\ Cardinality(Firsts(n)) \in Nat
           /\ Cardinality(Seconds(n)) \in Nat /\ Shared(n) \in Nat
<1>1. /\ IsFiniteSet(Logged(n)) /\ IsFiniteSet(Mine(n)) /\ IsFiniteSet(Held(n))
      /\ IsFiniteSet(Firsts(n)) /\ IsFiniteSet(Seconds(n))
  BY ClientFinite, FS_Subset DEF Logged, Mine, Held, Firsts, Seconds
<1> QED
  BY <1>1, FS_CardinalityType DEF Shared

\* Sets that differ in one element at most.
LEMMA OneMoved ==
    ASSUME NEW S, NEW T, NEW c, IsFiniteSet(S), \A d : d # c => (d \in S <=> d \in T)
    PROVE  /\ Cardinality(S) \in Nat /\ Cardinality(T) \in Nat
           /\ Cardinality(T) + One(c \in S) = Cardinality(S) + One(c \in T)
<1>1. CASE c \in S <=> c \in T
  <2>1. S = T
    BY <1>1
  <2> QED
    BY <2>1, FS_CardinalityType DEF One
<1>2. CASE c \notin S /\ c \in T
  <2>1. T = S \cup {c}
    BY <1>2
  <2> QED
    BY <1>2, <2>1, FS_AddElement, FS_CardinalityType DEF One
<1>3. CASE c \in S /\ c \notin T
  <2>1. T = S \ {c}
    BY <1>3
  <2> QED
    BY SMTT(30), <1>3, <2>1, FS_RemoveElement, FS_CardinalityType DEF One
<1> QED
  BY <1>1, <1>2, <1>3

\* A step of thread c leaves what the others have alone.
Aside(c) == \A d \in Client \ {c} :
    /\ pc'[d] = pc[d] /\ player'[d] = player[d] /\ me'[d] = me[d]
    /\ np'[d] = np[d] /\ idx'[d] = idx[d] /\ cnt'[d] = cnt[d]
    /\ out'[d] = out[d] /\ post'[d] = post[d]

LEMMA SharedMoves ==
    ASSUME NEW c \in Client, Aside(c), NEW n \in Name
    PROVE  /\ Shared(n) \in Nat /\ Shared(n)' \in Nat
           /\ Shared(n)' + Share(c, n) = Shared(n) + Share(c, n)'
<1>1. /\ Logged(n) \subseteq Client /\ Mine(n) \subseteq Client /\ Held(n) \subseteq Client
      /\ Firsts(n) \subseteq Client /\ Seconds(n) \subseteq Client
  BY DEF Logged, Mine, Held, Firsts, Seconds
<1>2. /\ IsFiniteSet(Logged(n)) /\ IsFiniteSet(Mine(n)) /\ IsFiniteSet(Held(n))
      /\ IsFiniteSet(Firsts(n)) /\ IsFiniteSet(Seconds(n))
  BY <1>1, ClientFinite, FS_Subset
<1>3. \A d : d # c => /\ d \in Logged(n) <=> d \in Logged(n)'
                      /\ d \in Mine(n) <=> d \in Mine(n)'
                      /\ d \in Held(n) <=> d \in Held(n)'
                      /\ d \in Firsts(n) <=> d \in Firsts(n)'
                      /\ d \in Seconds(n) <=> d \in Seconds(n)'
  BY DEF Aside, Logged, Mine, Held, Firsts, Seconds
<1>4. /\ Cardinality(Logged(n)) \in Nat /\ Cardinality(Logged(n)') \in Nat
      /\ Cardinality(Logged(n)') + One(c \in Logged(n))
           = Cardinality(Logged(n)) + One(c \in Logged(n)')
  BY <1>2, <1>3, OneMoved
<1>5. /\ Cardinality(Mine(n)) \in Nat /\ Cardinality(Mine(n)') \in Nat
      /\ Cardinality(Mine(n)') + One(c \in Mine(n))
           = Cardinality(Mine(n)) + One(c \in Mine(n)')
  BY <1>2, <1>3, OneMoved
<1>6. /\ Cardinality(Held(n)) \in Nat /\ Cardinality(Held(n)') \in Nat
      /\ Cardinality(Held(n)') + One(c \in Held(n))
           = Cardinality(Held(n)) + One(c \in Held(n)')
  BY <1>2, <1>3, OneMoved
<1>7. /\ Cardinality(Firsts(n)) \in Nat /\ Cardinality(Firsts(n)') \in Nat
      /\ Cardinality(Firsts(n)') + One(c \in Firsts(n))
           = Cardinality(Firsts(n)) + One(c \in Firsts(n)')
  BY <1>2, <1>3, OneMoved
<1>8. /\ Cardinality(Seconds(n)) \in Nat /\ Cardinality(Seconds(n)') \in Nat
      /\ Cardinality(Seconds(n)') + One(c \in Seconds(n))
           = Cardinality(Seconds(n)) + One(c \in Seconds(n)')
  BY <1>2, <1>3, OneMoved
<1>9. Shared(n) \in Nat /\ Shared(n)' \in Nat
  BY <1>4, <1>5, <1>6, <1>7, <1>8 DEF Shared
<1>10. Share(c, n) = One(c \in Logged(n)) + One(c \in Mine(n)) + One(c \in Held(n))
                     + One(c \in Firsts(n)) + One(c \in Seconds(n))
  BY DEF Share, Logged, Mine, Held, Firsts, Seconds
<1>11. Share(c, n)' = One(c \in Logged(n)') + One(c \in Mine(n)') + One(c \in Held(n)')
                      + One(c \in Firsts(n)') + One(c \in Seconds(n)')
  BY DEF Share, Logged, Mine, Held, Firsts, Seconds
<1> QED
  BY <1>4, <1>5, <1>6, <1>7, <1>8, <1>9, <1>10, <1>11 DEF Shared, One

\* What the parts of a count are.
LEMMA EntriesFinite ==
    ASSUME NEW n \in Name
    PROVE  /\ IsFiniteSet(Entries(n)) /\ Cardinality(Entries(n)) \in Nat
           /\ IsFiniteSet(Entries(n)') /\ Cardinality(Entries(n)') \in Nat
<1>1. IsFiniteSet(1 .. Places)
  BY PlacesAssumption, FS_Interval
<1>2. IsFiniteSet(Client \X (1 .. Places))
  BY <1>1, ClientFinite, FS_Product
<1>3. /\ Entries(n) \subseteq Client \X (1 .. Places)
      /\ Entries(n)' \subseteq Client \X (1 .. Places)
  BY DEF Entries
<1> QED
  BY <1>2, <1>3, FS_Subset, FS_CardinalityType

\* The count stays exact when the step changes it by as much as the thread's
\* share of it.
LEMMA ExactKept ==
    ASSUME NEW c \in Client, Aside(c), NEW n \in Name, Exact(n),
           pref[n] \in Int, leaked[n] \in Int, leaked'[n] \in Int,
           pref'[n] - pref[n] = (One(id'[n] # 0) - One(id[n] # 0))
                                + (Share(c, n)' - Share(c, n))
                                + (Cardinality(Entries(n)') - Cardinality(Entries(n)))
                                + (leaked'[n] - leaked[n]),
           pref'[n] \in Int
    PROVE  Exact(n)'
<1>1. Share(c, n) \in Int /\ Share(c, n)' \in Int
  BY DEF Share, One
<1>2. Cardinality(Entries(n)) \in Nat /\ Cardinality(Entries(n)') \in Nat
  BY EntriesFinite
<1>3. One(id[n] # 0) \in Int /\ One(id'[n] # 0) \in Int
  BY DEF One
<1>4. pref[n] = One(id[n] # 0) + Shared(n) + Cardinality(Entries(n)) + leaked[n]
  BY DEF Exact
<1>5. /\ Shared(n) \in Nat /\ Shared(n)' \in Nat
      /\ Shared(n)' + Share(c, n) = Shared(n) + Share(c, n)'
  BY SharedMoves
<1>6. pref'[n] = One(id'[n] # 0) + Shared(n)' + Cardinality(Entries(n)') + leaked'[n]
  BY <1>1, <1>2, <1>3, <1>4, <1>5
<1> QED
  BY <1>6 DEF Exact

\* What a step by one thread has to keep in order.
Settled(c) ==
    /\ Aside(c) /\ Typed' /\ Keeps(c)' /\ Lists(c)'
    /\ \A n \in Name : id'[n] = 0 => id[n] = 0 /\ pref'[n] <= pref[n]

LEMMA OwnedKept ==
    ASSUME Inv, Owned, NEW c \in Client, Settled(c),
           \A n \in Name :
              pref'[n] - pref[n] = (One(id'[n] # 0) - One(id[n] # 0))
                                   + (Share(c, n)' - Share(c, n))
                                   + (Cardinality(Entries(n)') - Cardinality(Entries(n)))
                                   + (leaked'[n] - leaked[n])
    PROVE  Owned'
<1>1. ASSUME NEW n \in Name PROVE Exact(n)'
  <2>1. /\ pref[n] \in Int /\ pref'[n] \in Int
        /\ leaked[n] \in Int /\ leaked'[n] \in Int
    BY DEF Owned, Settled, Typed
  <2> QED
    BY <2>1, ExactKept DEF Owned, Settled
<1>2. Uncreated'
  <2> SUFFICES ASSUME NEW n \in Name, id'[n] = 0 PROVE pref'[n] = 0
    BY DEF Uncreated
  <2>1. pref[n] = 0 /\ pref'[n] <= 0
    BY DEF Settled, Owned, Uncreated
  <2>2. Shared(n)' \in Nat /\ Cardinality(Entries(n)') \in Nat
    BY SharedMoves, EntriesFinite DEF Settled
  <2>3. leaked'[n] \in Nat /\ One(id'[n] # 0) \in Nat /\ pref'[n] \in Int
    BY DEF Settled, Typed, One
  <2> QED
    BY <1>1, <2>1, <2>2, <2>3 DEF Exact
<1>3. ASSUME NEW d \in Client PROVE Keeps(d)' /\ Lists(d)'
  <2>1. CASE d = c
    BY <2>1 DEF Settled
  <2>2. CASE d # c
    BY <2>2 DEF Settled, Aside, Owned, Keeps, Lists
  <2> QED
    BY <2>1, <2>2
<1> QED
  BY <1>1, <1>2, <1>3 DEF Owned, Settled

LEMMA OwnedPlain ==
    ASSUME Inv, Owned, NEW c \in Client, Settled(c), out' = out,
           \A n \in Name :
              pref'[n] - pref[n] = (One(id'[n] # 0) - One(id[n] # 0))
                                   + (Share(c, n)' - Share(c, n))
                                   + (leaked'[n] - leaked[n])
    PROVE  Owned'
<1>1. ASSUME NEW n \in Name
      PROVE  Cardinality(Entries(n)') - Cardinality(Entries(n)) = 0
  <2>1. Entries(n)' = Entries(n)
    BY DEF Entries
  <2> QED
    BY <2>1, EntriesFinite
<1>2. \A n \in Name : /\ Share(c, n) \in Int /\ Share(c, n)' \in Int
                      /\ pref[n] \in Int /\ pref'[n] \in Int
                      /\ leaked[n] \in Int /\ leaked'[n] \in Int
                      /\ One(id[n] # 0) \in Int /\ One(id'[n] # 0) \in Int
  BY DEF Share, One, Owned, Settled, Typed
<1>3. \A n \in Name :
        pref'[n] - pref[n] = (One(id'[n] # 0) - One(id[n] # 0))
                             + (Share(c, n)' - Share(c, n))
                             + (Cardinality(Entries(n)') - Cardinality(Entries(n)))
                             + (leaked'[n] - leaked[n])
  BY <1>1, <1>2
<1> QED
  BY <1>3, OwnedKept

\* A step that hands no reference over.
LEMMA OwnedAlone ==
    ASSUME Inv, Owned, NEW c \in Client, Settled(c), UNCHANGED <<pref, id, leaked, out>>,
           \A n \in Name : Share(c, n)' = Share(c, n)
    PROVE  Owned'
<1>1. \A n \in Name : /\ Share(c, n) \in Int /\ pref[n] \in Int /\ leaked[n] \in Int
                      /\ One(id[n] # 0) \in Int
  BY DEF Share, One, Owned, Typed
<1> QED
  BY <1>1, OwnedPlain

-----------------------------------------------------------------------------
\* The steps that hand nothing over.

LEMMA OwnedConnect == ASSUME Inv, Owned, NEW c \in Client, Connect(c) PROVE Owned'
<1> USE DEF Connect, At, Goto, players, clients, history, Pc
<1>1. Aside(c)
  BY DEF Aside, Inv, Types
<1>2. pc'[c] = "ready" /\ pc[c] = "free"
  BY DEF Inv, Types
<1>3. Keeps(c)' /\ Lists(c)'
  BY <1>2 DEF Owned, Keeps, Lists, Holding, Posting
<1>4. Settled(c)
  BY <1>1, <1>3 DEF Settled, Owned, Typed
<1>5. \A n \in Name : Share(c, n)' = Share(c, n)
  BY <1>2 DEF Share, Holding
<1> QED
  BY <1>4, <1>5, OwnedAlone

LEMMA OwnedLookup ==
    ASSUME Inv, Owned, NEW c \in Client, Lookup(c) \/ Scan(c) \/ NotFound(c)
    PROVE  Owned'
<1> USE DEF Lookup, Scan, NotFound, At, Goto, players, clients, history
<1>1. Aside(c) /\ UNCHANGED <<pref, id, leaked, out, cnt, posts, alive>>
  BY DEF Aside, Inv, Types
<1>2. pc[c] \in Holding /\ pc'[c] \in {"scan", "set"}
  BY DEF Inv, Types, Holding
<1>3. /\ np'[c] = np[c] /\ me'[c] = me[c] /\ player'[c] = player[c] /\ post'[c] = post[c]
      /\ crm' \in Client \cup {Nobody}
  BY DEF Owned, Typed
<1>4. player[c] = NoName
  BY DEF Owned, Keeps
<1>5. idx' \in [Client -> 0 .. Places + 1]
  <2>1. idx[c] \in 0 .. Places + 1 /\ Places \in Nat
    BY PlacesAssumption DEF Owned, Typed
  <2>2. CASE Lookup(c)
    BY <2>1, <2>2 DEF Owned, Typed
  <2>3. CASE Scan(c)
    <3>1. idx[c] + 1 \in 0 .. Places + 1
      BY <2>1, <2>3
    <3>2. idx' = [idx EXCEPT ![c] = idx[c] + 1]
      BY <2>3
    <3> QED
      BY <3>1, <3>2 DEF Owned, Typed
  <2>4. CASE NotFound(c)
    BY <2>1, <2>4 DEF Owned, Typed
  <2> QED
    BY <2>2, <2>3, <2>4
<1>6. Keeps(c)' /\ Lists(c)'
  BY <1>1, <1>2, <1>3, <1>4 DEF Owned, Keeps, Lists, Holding, Posting
<1>7. Settled(c)
  BY <1>1, <1>3, <1>5, <1>6 DEF Settled, Owned, Typed
<1>8. \A n \in Name : Share(c, n)' = Share(c, n)
  BY <1>2, <1>3 DEF Share, Holding
<1> QED
  BY <1>1, <1>7, <1>8, OwnedAlone

\* A walk of USERS, until the list is there.
LEMMA OwnedWalk ==
    ASSUME Inv, Owned, NEW c \in Client, Users(c) \/ Count(c) \/ Filled(c) \/ Told(c)
    PROVE  Owned'
<1> USE DEF Users, Count, Filled, Told, At, Goto, players, clients, history
<1>1. Aside(c) /\ UNCHANGED <<pref, id, leaked, out, posts, alive>>
  BY DEF Aside, Inv, Types, Owned, Typed
<1>2. /\ pc[c] \notin Holding \cup Posting \cup {"clear"}
      /\ pc'[c] \in {"count", "fill", "listed", "ready"}
  BY DEF Inv, Types, Holding, Posting
<1>3. /\ np'[c] = np[c] /\ me'[c] = me[c] /\ player'[c] = player[c] /\ post'[c] = post[c]
      /\ crm' \in Client \cup {Nobody}
  BY DEF Owned, Typed
<1>4. Places \in Nat /\ idx[c] \in 0 .. Places + 1 /\ cnt[c] \in 0 .. Places
  BY PlacesAssumption DEF Owned, Typed
<1>5. /\ idx' \in [Client -> 0 .. Places + 1] /\ cnt' \in [Client -> 0 .. Places]
      /\ Lists(c)'
  <2>1. CASE Users(c)
    <3>1. /\ pc[c] = "ready" /\ pc'[c] = "count" /\ idx' = [idx EXCEPT ![c] = 1]
          /\ idx'[c] = 1 /\ cnt' = cnt /\ out' = out
      BY <2>1 DEF Inv, Types
    <3>2. cnt[c] = 0 /\ out[c] = <<>>
      BY <3>1 DEF Owned, Lists
    <3> QED
      BY <1>4, <3>1, <3>2 DEF Owned, Typed, Lists
  <2>2. CASE Count(c) /\ idx[c] <= Places
    <3>1. /\ pc[c] = "count" /\ pc'[c] = "count" /\ idx' = [idx EXCEPT ![c] = idx[c] + 1]
          /\ cnt' = [cnt EXCEPT ![c] = cnt[c] + One(player[idx[c]] # NoName)] /\ out' = out
      BY <2>2 DEF Inv, Types
    <3>2. cnt[c] < idx[c] /\ out[c] = <<>>
      BY <3>1 DEF Owned, Lists
    <3>3. /\ idx[c] + 1 \in 0 .. Places + 1
          /\ cnt[c] + One(player[idx[c]] # NoName) \in 0 .. Places
          /\ cnt[c] + One(player[idx[c]] # NoName) < idx[c] + 1
      BY <1>4, <2>2, <3>2 DEF One
    <3>4. /\ idx' \in [Client -> 0 .. Places + 1] /\ cnt' \in [Client -> 0 .. Places]
          /\ cnt'[c] < idx'[c]
      BY <3>1, <3>3 DEF Owned, Typed
    <3> QED
      BY <1>4, <3>1, <3>2, <3>4 DEF Lists
  <2>3. CASE Count(c) /\ ~(idx[c] <= Places)
    <3>1. /\ pc[c] = "count" /\ pc'[c] = "fill" /\ idx' = [idx EXCEPT ![c] = 1]
          /\ idx'[c] = 1 /\ cnt' = cnt /\ out' = out
      BY <2>3 DEF Inv, Types
    <3>2. out[c] = <<>>
      BY <3>1 DEF Owned, Lists
    <3> QED
      BY <1>4, <3>1, <3>2 DEF Owned, Typed, Lists
  <2>4. CASE Filled(c)
    <3>1. /\ pc[c] = "fill" /\ pc'[c] = "listed" /\ idx' = [idx EXCEPT ![c] = 0]
          /\ cnt' = cnt /\ out' = out
      BY <2>4 DEF Inv, Types
    <3> QED
      BY <1>4, <3>1 DEF Owned, Typed, Lists
  <2>5. CASE Told(c)
    <3>1. /\ pc'[c] = "ready" /\ idx' = idx /\ cnt' = [cnt EXCEPT ![c] = 0]
          /\ cnt'[c] = 0 /\ out' = out /\ out[c] = <<>>
      BY <2>5 DEF Inv, Types, Owned, Typed
    <3> QED
      BY <1>4, <3>1 DEF Owned, Typed, Lists
  <2> QED
    BY <2>1, <2>2, <2>3, <2>4, <2>5
<1>6. Keeps(c)'
  BY <1>2, <1>3 DEF Owned, Keeps, Holding, Posting
<1>7. Settled(c)
  BY <1>1, <1>3, <1>5, <1>6 DEF Settled, Owned, Typed
<1>8. \A n \in Name : Share(c, n)' = Share(c, n)
  BY <1>2, <1>3 DEF Share, Holding
<1> QED
  BY <1>1, <1>7, <1>8, OwnedAlone

\* The ratings are locked and written.
LEMMA OwnedLock ==
    ASSUME Inv, Owned, NEW c \in Client, Lock1(c) \/ Lock2(c) \/ Write(c) PROVE Owned'
<1> USE DEF Lock1, Lock2, Write, At, Goto, clients, history
<1>1. UNCHANGED <<pref, id, leaked, out, player, me, np, idx, cnt, crm, posts, alive>>
  OBVIOUS
<1>2. pc[c] \in Posting /\ pc'[c] \in Posting /\ \A d \in Client \ {c} : pc'[d] = pc[d]
  BY DEF Inv, Types, Posting
<1>3. /\ post'[c].first = post[c].first /\ post'[c].second = post[c].second
      /\ post'[c].counted = post[c].counted
      /\ \A d \in Client \ {c} : post'[d] = post[d]
  <2>1. CASE post' = post
    BY <2>1
  <2>2. CASE Lock2(c)
    <3> DEFINE r == [post[c] EXCEPT !.r1 = rating[post[c].first],
                                    !.r2 = rating[post[c].second]]
    <3>1. post' = [post EXCEPT ![c] = r] /\ post[c] \in PostRecord
      BY <2>2 DEF Inv, Types
    <3>2. /\ r.first = post[c].first /\ r.second = post[c].second
          /\ r.counted = post[c].counted
      BY <3>1 DEF PostRecord
    <3> HIDE DEF r
    <3> QED
      BY <3>1, <3>2 DEF Inv, Types
  <2> QED
    BY <2>1, <2>2
<1>4. Aside(c)
  BY <1>1, <1>2, <1>3 DEF Aside
<1>5. Keeps(c)' /\ Lists(c)'
  BY <1>1, <1>2, <1>3 DEF Owned, Keeps, Lists, Holding, Posting
<1>6. Settled(c)
  BY <1>1, <1>4, <1>5 DEF Settled, Owned, Typed
<1>7. \A n \in Name : Share(c, n)' = Share(c, n)
  BY <1>1, <1>2, <1>3 DEF Share, Posting, Holding
<1> QED
  BY <1>1, <1>6, <1>7, OwnedAlone

LEMMA OwnedNone ==
    ASSUME Owned, UNCHANGED <<players, clients, locals, history>>, alive' \in BOOLEAN
    PROVE  Owned'
<1> USE DEF players, clients, locals, history
<1>1. Typed' /\ Uncreated' /\ \A c \in Client : Keeps(c)' /\ Lists(c)'
  BY DEF Owned, Typed, Uncreated, Keeps, Lists
<1>2. \A n \in Name : Exact(n)'
  BY DEF Owned, Exact, Shared, Logged, Mine, Held, Firsts, Seconds, Entries
<1> QED
  BY <1>1, <1>2 DEF Owned

-----------------------------------------------------------------------------
\* The steps that take or give a reference.

\* What a thread refers to has been created.
LEMMA CountedCreated ==
    ASSUME Inv, Owned, NEW c \in Client, NEW n \in Name, id[n] = 0
    PROVE  Share(c, n) = 0 /\ pref[n] = 0 /\ Cardinality(Entries(n)) = 0
<1>1. pref[n] = 0
  BY DEF Owned, Uncreated
<1>2. /\ Shared(n) \in Nat /\ Cardinality(Entries(n)) \in Nat /\ leaked[n] \in Nat
      /\ One(id[n] # 0) = 0
  BY PartsFinite, EntriesFinite DEF Owned, Typed, One
<1>3. Shared(n) = 0 /\ Cardinality(Entries(n)) = 0
  BY <1>1, <1>2 DEF Owned, Exact
<1>4. /\ Logged(n) = {} /\ Mine(n) = {} /\ Held(n) = {} /\ Firsts(n) = {} /\ Seconds(n) = {}
  <2>1. /\ Cardinality(Logged(n)) = 0 /\ Cardinality(Mine(n)) = 0 /\ Cardinality(Held(n)) = 0
        /\ Cardinality(Firsts(n)) = 0 /\ Cardinality(Seconds(n)) = 0
    BY <1>3, PartsFinite DEF Shared
  <2> QED
    BY <2>1, PartsFinite, FS_EmptySet
<1> QED
  BY <1>1, <1>3, <1>4 DEF Share, Logged, Mine, Held, Firsts, Seconds, One

LEMMA OwnedLogin ==
    ASSUME Inv, Owned, NEW c \in Client, NEW n \in Name, Login(c, n) PROVE Owned'
<1>1. /\ pc[c] = "ready" /\ pc' = [pc EXCEPT ![c] = "check"] /\ me[c] = NoName
      /\ np' = [np EXCEPT ![c] = n] /\ pc'[c] = "check" /\ np'[c] = n
      /\ UNCHANGED <<player, crm, me, idx, cnt, out, post, leaked, posts, alive>>
  BY DEF Login, At, Goto, clients, history, Inv, Types
<1>2. Aside(c)
  BY <1>1 DEF Aside, Inv, Types
<1>3. n # NoName /\ np[c] = NoName /\ ~post[c].counted
  BY <1>1, NameAssumption DEF Owned, Keeps, Holding, Posting
<1>4. Keeps(c)' /\ Lists(c)'
  BY <1>1, <1>3 DEF Owned, Keeps, Lists, Holding, Posting
<1>5. \A m \in Name : /\ Share(c, m)' = Share(c, m) + One(m = n)
                      /\ Share(c, m) \in Int
  BY <1>1, <1>3 DEF Share, Holding, One
<1>6. pref \in [Name -> Int] /\ id \in [Name -> Nat] /\ leaked \in [Name -> Nat]
  BY DEF Owned, Typed, Inv, Types
<1>7. CASE id[n] = 0
  <2>1. Cardinality(Created) \in Nat
    BY CreatedFinite
  <2>2. \A m \in Name : id'[m] = IF m = n THEN 1 + Cardinality(Created) ELSE id[m]
    BY <1>6, <1>7 DEF Login, Created
  <2>3. pref' = [pref EXCEPT ![n] = 2] /\ pref[n] = 0
    BY <1>7, CountedCreated DEF Login
  <2>4. Settled(c)
    <3>1. Typed'
      BY <1>1, <1>6, <2>3 DEF Owned, Typed
    <3>2. \A m \in Name : id'[m] = 0 => id[m] = 0 /\ pref'[m] <= pref[m]
      BY <1>6, <2>1, <2>2, <2>3
    <3> QED
      BY <1>2, <1>4, <3>1, <3>2 DEF Settled
  <2>5. \A m \in Name : pref'[m] - pref[m] = (One(id'[m] # 0) - One(id[m] # 0))
                                            + (Share(c, m)' - Share(c, m))
                                            + (leaked'[m] - leaked[m])
    BY <1>1, <1>5, <1>6, <1>7, <2>1, <2>2, <2>3 DEF One
  <2> QED
    BY <1>1, <2>4, <2>5, OwnedPlain
<1>8. CASE id[n] # 0
  <2>1. id' = id /\ pref' = [pref EXCEPT ![n] = pref[n] + 1]
    BY <1>8 DEF Login, Ref
  <2>2. Settled(c)
    <3>1. Typed'
      BY <1>1, <1>6, <2>1 DEF Owned, Typed
    <3>2. \A m \in Name : id'[m] = 0 => id[m] = 0 /\ pref'[m] <= pref[m]
      BY <1>6, <1>8, <2>1
    <3> QED
      BY <1>2, <1>4, <3>1, <3>2 DEF Settled
  <2>3. \A m \in Name : pref'[m] - pref[m] = (One(id'[m] # 0) - One(id[m] # 0))
                                            + (Share(c, m)' - Share(c, m))
                                            + (leaked'[m] - leaked[m])
    BY <1>1, <1>5, <1>6, <2>1 DEF One
  <2> QED
    BY <1>1, <2>2, <2>3, OwnedPlain
<1> QED
  BY <1>7, <1>8

LEMMA OwnedRefused ==
    ASSUME Inv, Owned, NEW c \in Client, AlreadyLoggedIn(c) \/ Found(c) PROVE Owned'
<1> USE DEF AlreadyLoggedIn, Found, Refused, Unref, At, Goto, clients
<1>1. /\ pc[c] \in {"check", "scan"} /\ pc' = [pc EXCEPT ![c] = "ready"]
      /\ np' = [np EXCEPT ![c] = NoName] /\ pc'[c] = "ready" /\ np'[c] = NoName
      /\ pref' = [pref EXCEPT ![np[c]] = @ - 1]
      /\ UNCHANGED <<id, player, me, cnt, out, post, leaked, posts, alive>>
      /\ crm' \in Client \cup {Nobody}
  BY DEF Inv, Types, Owned, Typed
<1>2. idx' \in [Client -> 0 .. Places + 1] /\ \A d \in Client \ {c} : idx'[d] = idx[d]
  BY PlacesAssumption DEF Owned, Typed
<1>3. Aside(c)
  BY <1>1, <1>2 DEF Aside, Inv, Types
<1>4. np[c] \in Name /\ ~post[c].counted /\ me[c] = NoName
  BY <1>1 DEF Owned, Keeps, Holding, Posting, Inv, Types
<1>5. Keeps(c)' /\ Lists(c)'
  BY <1>1, <1>4 DEF Owned, Keeps, Lists, Holding, Posting
<1>6. pref \in [Name -> Int] /\ id \in [Name -> Nat] /\ leaked \in [Name -> Nat]
  BY DEF Owned, Typed, Inv, Types
<1>7. Settled(c)
  <2>1. Typed'
    BY <1>1, <1>2, <1>4, <1>6 DEF Owned, Typed
  <2>2. \A m \in Name : id'[m] = 0 => id[m] = 0 /\ pref'[m] <= pref[m]
    BY <1>1, <1>6
  <2> QED
    BY <1>3, <1>5, <2>1, <2>2 DEF Settled
<1>8. \A m \in Name : /\ Share(c, m)' = Share(c, m) - One(m = np[c])
                      /\ Share(c, m) \in Int
  BY <1>1, <1>4, NameAssumption DEF Share, Holding, One
<1>9. \A m \in Name : pref'[m] - pref[m] = (One(id'[m] # 0) - One(id[m] # 0))
                                          + (Share(c, m)' - Share(c, m))
                                          + (leaked'[m] - leaked[m])
  BY <1>1, <1>4, <1>6, <1>8 DEF One
<1> QED
  BY <1>1, <1>7, <1>9, OwnedPlain

LEMMA OwnedLogIn == ASSUME Inv, Owned, NEW c \in Client, LogIn(c) PROVE Owned'
<1> USE DEF LogIn, Ref, SetPlayer, At, Goto
<1>1. /\ pc[c] = "set" /\ pc' = [pc EXCEPT ![c] = "ack"] /\ pc'[c] = "ack"
      /\ player' = [player EXCEPT ![c] = np[c]] /\ player'[c] = np[c]
      /\ pref' = [pref EXCEPT ![np[c]] = @ + 1]
      /\ UNCHANGED <<id, crm, me, np, idx, cnt, out, post, leaked, posts, alive>>
  BY DEF Inv, Types
<1>2. Aside(c)
  BY <1>1 DEF Aside, Inv, Types
<1>3. /\ np[c] \in Name /\ player[c] = NoName /\ me[c] = NoName /\ ~post[c].counted
      /\ id[np[c]] # 0
  BY <1>1 DEF Owned, Keeps, Holding, Posting, Inv, Types, Names
<1>4. Keeps(c)' /\ Lists(c)'
  BY <1>1, <1>3 DEF Owned, Keeps, Lists, Holding, Posting
<1>5. pref \in [Name -> Int] /\ id \in [Name -> Nat] /\ leaked \in [Name -> Nat]
  BY DEF Owned, Typed, Inv, Types
<1>6. Settled(c)
  <2>1. Typed'
    BY <1>1, <1>3, <1>5 DEF Owned, Typed
  <2>2. \A m \in Name : id'[m] = 0 => id[m] = 0 /\ pref'[m] <= pref[m]
    BY <1>1, <1>3, <1>5
  <2> QED
    BY <1>2, <1>4, <2>1, <2>2 DEF Settled
<1>7. \A m \in Name : /\ Share(c, m)' = Share(c, m) + One(m = np[c])
                      /\ Share(c, m) \in Int
  BY <1>1, <1>3, NameAssumption DEF Share, Holding, One
<1>8. \A m \in Name : pref'[m] - pref[m] = (One(id'[m] # 0) - One(id[m] # 0))
                                          + (Share(c, m)' - Share(c, m))
                                          + (leaked'[m] - leaked[m])
  BY <1>1, <1>3, <1>5, <1>7 DEF One
<1> QED
  BY <1>1, <1>6, <1>8, OwnedPlain

LEMMA OwnedAck == ASSUME Inv, Owned, NEW c \in Client, Ack(c) PROVE Owned'
<1> USE DEF Ack, At, Goto, players, clients
<1>1. /\ pc[c] = "ack" /\ pc' = [pc EXCEPT ![c] = "ready"] /\ pc'[c] = "ready"
      /\ np' = [np EXCEPT ![c] = NoName] /\ np'[c] = NoName
      /\ UNCHANGED <<id, pref, crm, player, idx, cnt, out, post, posts, alive>>
  BY DEF Inv, Types
<1>2. /\ \A d \in Client \ {c} : me'[d] = me[d]
      /\ \/ me'[c] = np[c] /\ leaked' = leaked
         \/ me'[c] = me[c] /\ leaked' = [leaked EXCEPT ![np[c]] = @ + 1]
  BY DEF Inv, Types
<1>3. Aside(c)
  BY <1>1, <1>2 DEF Aside, Inv, Types
<1>4. np[c] \in Name /\ me[c] = NoName /\ ~post[c].counted
  BY <1>1 DEF Owned, Keeps, Holding, Posting, Inv, Types
<1>5. Keeps(c)' /\ Lists(c)'
  BY <1>1, <1>4 DEF Owned, Keeps, Lists, Holding, Posting
<1>6. pref \in [Name -> Int] /\ id \in [Name -> Nat] /\ leaked \in [Name -> Nat]
  BY DEF Owned, Typed, Inv, Types
<1>7. Settled(c)
  BY <1>1, <1>2, <1>3, <1>4, <1>5, <1>6 DEF Settled, Owned, Typed
<1>8. \A m \in Name : /\ Share(c, m)' = Share(c, m) + One(m = me'[c]) - One(m = np[c])
                      /\ leaked'[m] = leaked[m] + One(m = np[c]) - One(m = me'[c])
                      /\ Share(c, m) \in Int
  BY <1>1, <1>2, <1>4, <1>6, NameAssumption DEF Share, Holding, One
<1>9. \A m \in Name : pref'[m] - pref[m] = (One(id'[m] # 0) - One(id[m] # 0))
                                          + (Share(c, m)' - Share(c, m))
                                          + (leaked'[m] - leaked[m])
  BY <1>1, <1>6, <1>8 DEF One
<1> QED
  BY <1>1, <1>7, <1>9, OwnedPlain

LEMMA OwnedPost ==
    ASSUME Inv, Owned, NEW c \in Client, NEW d \in Client, Post(c, d) PROVE Owned'
<1> USE DEF Post, At, Goto, clients
<1>1. /\ pc[c] \in {"ready", "leaving"} /\ pc' = [pc EXCEPT ![c] = "lock1"]
      /\ pc'[c] = "lock1" /\ player[c] \in Name /\ player[d] \in Name
      /\ UNCHANGED <<id, player, crm, me, np, idx, cnt, out, leaked, alive>>
  BY DEF Inv, Types
<1>2. posts' \in 0 .. MaxPosts
  BY BoundAssumption DEF Owned, Typed
<1>3. PICK f \in {c, d}, k \in BOOLEAN :
        LET s == IF f = c THEN d ELSE c IN
        /\ post' = [post EXCEPT ![c] = [first |-> player[f], second |-> player[s],
                                        counted |-> k, r1 |-> 0, r2 |-> 0]]
        /\ pref' = [n \in Name |-> pref[n] + One(k /\ n = player[c])
                                           + One(k /\ n = player[d])]
  OBVIOUS
<1>4. /\ post'[c].counted = k
      /\ \/ post'[c].first = player[c] /\ post'[c].second = player[d]
         \/ post'[c].first = player[d] /\ post'[c].second = player[c]
      /\ \A e \in Client \ {c} : post'[e] = post[e]
  BY <1>3 DEF Inv, Types
<1>5. Aside(c)
  BY <1>1, <1>4 DEF Aside, Inv, Types
<1>6. np[c] = NoName /\ ~post[c].counted
  BY <1>1 DEF Owned, Keeps, Holding, Posting
<1>7. Keeps(c)' /\ Lists(c)'
  BY <1>1, <1>6 DEF Owned, Keeps, Lists, Holding, Posting
<1>8. pref \in [Name -> Int] /\ id \in [Name -> Nat] /\ leaked \in [Name -> Nat]
  BY DEF Owned, Typed, Inv, Types
<1>9. id[player[c]] # 0 /\ id[player[d]] # 0
  BY <1>1, NameAssumption DEF Inv, Names
<1>10. \A m \in Name : /\ pref'[m] = pref[m] + One(k /\ m = player[c])
                                             + One(k /\ m = player[d])
                       /\ pref'[m] \in Int
  BY <1>3, <1>8 DEF One
<1>11. Settled(c)
  <2>1. Typed'
    <3>1. pref' \in [Name -> Int]
      BY <1>3, <1>10
    <3> QED
      BY <1>1, <1>2, <3>1 DEF Owned, Typed
  <2>2. \A m \in Name : id'[m] = 0 => id[m] = 0 /\ pref'[m] <= pref[m]
    BY <1>1, <1>8, <1>9, <1>10 DEF One
  <2> QED
    BY <1>5, <1>7, <2>1, <2>2 DEF Settled
<1>12. \A m \in Name : /\ Share(c, m)' = Share(c, m) + One(k /\ m = player[c])
                                                     + One(k /\ m = player[d])
                       /\ Share(c, m) \in Int
  BY <1>1, <1>4, <1>6 DEF Share, Holding, One
<1>13. \A m \in Name : pref'[m] - pref[m] = (One(id'[m] # 0) - One(id[m] # 0))
                                          + (Share(c, m)' - Share(c, m))
                                          + (leaked'[m] - leaked[m])
  BY <1>1, <1>8, <1>10, <1>12 DEF One
<1> QED
  BY <1>1, <1>11, <1>13, OwnedPlain

LEMMA OwnedUnlock == ASSUME Inv, Owned, NEW c \in Client, Unlock(c) PROVE Owned'
<1> USE DEF Unlock, At, Goto, clients, history
<1>1. /\ pc[c] = "unlock" /\ pc'[c] \in {"leaving", "ready"}
      /\ \A e \in Client \ {c} : pc'[e] = pc[e] /\ post'[e] = post[e]
      /\ ~post'[c].counted
      /\ UNCHANGED <<id, player, crm, me, np, idx, cnt, out, leaked, posts, alive>>
  BY DEF Inv, Types, NoPost
<1>2. Aside(c)
  BY <1>1 DEF Aside
<1>3. np[c] = NoName
  BY <1>1 DEF Owned, Keeps, Holding
<1>4. Keeps(c)' /\ Lists(c)'
  BY <1>1, <1>3 DEF Owned, Keeps, Lists, Holding, Posting
<1>5. pref \in [Name -> Int] /\ id \in [Name -> Nat] /\ leaked \in [Name -> Nat]
  BY DEF Owned, Typed, Inv, Types
<1>6. \A m \in Name : /\ pref'[m] = pref[m] - One(post[c].counted /\ m = post[c].first)
                                            - One(post[c].counted /\ m = post[c].second)
                      /\ pref'[m] \in Int
  BY <1>5 DEF One
<1>7. Settled(c)
  <2>1. Typed'
    <3>1. pref' \in [Name -> Int]
      BY <1>6
    <3> QED
      BY <1>1, <3>1 DEF Owned, Typed
  <2>2. \A m \in Name : id'[m] = 0 => id[m] = 0 /\ pref'[m] <= pref[m]
    BY <1>1, <1>5, <1>6 DEF One
  <2> QED
    BY <1>2, <1>4, <2>1, <2>2 DEF Settled
<1>8. \A m \in Name :
        /\ Share(c, m)' = Share(c, m) - One(post[c].counted /\ m = post[c].first)
                                      - One(post[c].counted /\ m = post[c].second)
        /\ Share(c, m) \in Int
  BY <1>1, <1>3, NameAssumption DEF Share, Holding, One
<1>9. \A m \in Name : pref'[m] - pref[m] = (One(id'[m] # 0) - One(id[m] # 0))
                                          + (Share(c, m)' - Share(c, m))
                                          + (leaked'[m] - leaked[m])
  BY <1>1, <1>5, <1>6, <1>8 DEF One
<1> QED
  BY <1>1, <1>7, <1>9, OwnedPlain

LEMMA OwnedEof == ASSUME Inv, Owned, NEW c \in Client, Eof(c) PROVE Owned'
<1> USE DEF Eof, Unref, At, Goto, clients, history
<1>1. /\ pc[c] = "ready" /\ pc'[c] \in {"leaving", "unreg"} /\ me'[c] = NoName
      /\ \A e \in Client \ {c} : pc'[e] = pc[e] /\ me'[e] = me[e]
      /\ UNCHANGED <<id, player, crm, np, idx, cnt, out, post, leaked, posts, alive>>
  BY DEF Inv, Types
<1>2. Aside(c)
  BY <1>1 DEF Aside
<1>3. np[c] = NoName /\ ~post[c].counted
  BY <1>1 DEF Owned, Keeps, Holding, Posting
<1>4. Keeps(c)' /\ Lists(c)'
  BY <1>1, <1>3 DEF Owned, Keeps, Lists, Holding, Posting
<1>5. pref \in [Name -> Int] /\ id \in [Name -> Nat] /\ leaked \in [Name -> Nat]
  BY DEF Owned, Typed, Inv, Types
<1>6. \A m \in Name : /\ pref'[m] = pref[m] - One(m = me[c])
                      /\ pref'[m] \in Int
  BY <1>5, NameAssumption DEF One
<1>7. pref' \in [Name -> Int]
  BY <1>5, <1>6
<1>8. Settled(c)
  <2>1. Typed'
    BY <1>1, <1>7 DEF Owned, Typed
  <2>2. \A m \in Name : id'[m] = 0 => id[m] = 0 /\ pref'[m] <= pref[m]
    BY <1>1, <1>5, <1>6 DEF One
  <2> QED
    BY <1>2, <1>4, <2>1, <2>2 DEF Settled
<1>9. \A m \in Name : Share(c, m)' = Share(c, m) - One(m = me[c]) /\ Share(c, m) \in Int
  BY <1>1, <1>3, NameAssumption DEF Share, Holding, One
<1>10. \A m \in Name : pref'[m] - pref[m] = (One(id'[m] # 0) - One(id[m] # 0))
                                          + (Share(c, m)' - Share(c, m))
                                          + (leaked'[m] - leaked[m])
  BY <1>1, <1>5, <1>6, <1>9 DEF One
<1> QED
  BY <1>1, <1>8, <1>10, OwnedPlain

LEMMA OwnedLogOut == ASSUME Inv, Owned, NEW c \in Client, LogOut(c) PROVE Owned'
<1> USE DEF LogOut, Unref, At, Goto, clients, history
<1>1. /\ pc[c] = "leaving" /\ pc'[c] = "clear"
      /\ \A e \in Client \ {c} : pc'[e] = pc[e]
      /\ UNCHANGED <<id, player, crm, me, np, idx, cnt, out, post, leaked, posts, alive>>
  BY DEF Inv, Types
<1>2. Aside(c)
  BY <1>1 DEF Aside
<1>3. np[c] = NoName /\ ~post[c].counted
  BY <1>1 DEF Owned, Keeps, Holding, Posting
<1>4. Keeps(c)' /\ Lists(c)'
  BY <1>1, <1>3 DEF Owned, Keeps, Lists, Holding, Posting
<1>5. pref \in [Name -> Int] /\ id \in [Name -> Nat] /\ leaked \in [Name -> Nat]
  BY DEF Owned, Typed, Inv, Types
<1>6. \A m \in Name : /\ pref'[m] = pref[m] - One(m = player[c])
                      /\ pref'[m] \in Int
  BY <1>5, NameAssumption DEF One
<1>7. pref' \in [Name -> Int]
  BY <1>5, <1>6
<1>8. Settled(c)
  <2>1. Typed'
    BY <1>1, <1>7 DEF Owned, Typed
  <2>2. \A m \in Name : id'[m] = 0 => id[m] = 0 /\ pref'[m] <= pref[m]
    BY <1>1, <1>5, <1>6 DEF One
  <2> QED
    BY <1>2, <1>4, <2>1, <2>2 DEF Settled
<1>9. \A m \in Name : /\ Share(c, m)' = Share(c, m) - One(m = player[c])
                      /\ Share(c, m) \in Int
  BY <1>1, <1>3 DEF Share, Holding, One
<1>10. \A m \in Name : pref'[m] - pref[m] = (One(id'[m] # 0) - One(id[m] # 0))
                                          + (Share(c, m)' - Share(c, m))
                                          + (leaked'[m] - leaked[m])
  BY <1>1, <1>5, <1>6, <1>9 DEF One
<1> QED
  BY <1>1, <1>8, <1>10, OwnedPlain

LEMMA OwnedClear == ASSUME Inv, Owned, NEW c \in Client, Clear(c) PROVE Owned'
<1> USE DEF Clear, SetPlayer, At, Goto, players
<1>1. /\ pc[c] = "clear" /\ pc'[c] = "unreg" /\ player'[c] = NoName
      /\ \A e \in Client \ {c} : pc'[e] = pc[e] /\ player'[e] = player[e]
      /\ UNCHANGED <<id, pref, crm, me, np, idx, cnt, out, post, leaked, posts, alive>>
  BY DEF Inv, Types
<1>2. Aside(c)
  BY <1>1 DEF Aside
<1>3. Keeps(c)' /\ Lists(c)'
  BY <1>1 DEF Owned, Keeps, Lists, Holding, Posting
<1>4. Settled(c)
  BY <1>1, <1>2, <1>3 DEF Settled, Owned, Typed
<1>5. \A n \in Name : Share(c, n)' = Share(c, n)
  BY <1>1, NameAssumption DEF Share, Holding
<1> QED
  BY <1>1, <1>4, <1>5, OwnedAlone

LEMMA OwnedUnregister == ASSUME Inv, Owned, NEW c \in Client, Unregister(c) PROVE Owned'
<1> USE DEF Unregister, SetPlayer, At, Goto, players
<1>1. /\ pc[c] = "unreg" /\ pc'[c] = "free" /\ player'[c] = NoName
      /\ \A e \in Client \ {c} : pc'[e] = pc[e] /\ player'[e] = player[e]
      /\ UNCHANGED <<id, pref, crm, me, np, idx, cnt, out, post, posts, alive>>
  BY DEF Inv, Types
<1>2. Aside(c)
  BY <1>1 DEF Aside
<1>3. Keeps(c)' /\ Lists(c)'
  BY <1>1 DEF Owned, Keeps, Lists, Holding, Posting
<1>4. pref \in [Name -> Int] /\ id \in [Name -> Nat] /\ leaked \in [Name -> Nat]
  BY DEF Owned, Typed, Inv, Types
<1>5. \A m \in Name : leaked'[m] = leaked[m] + One(m = player[c])
  OBVIOUS
<1>6. leaked' \in [Name -> Nat]
  BY <1>4, <1>5 DEF One
<1>7. Settled(c)
  BY <1>1, <1>2, <1>3, <1>4, <1>6 DEF Settled, Owned, Typed
<1>8. \A m \in Name : /\ Share(c, m)' = Share(c, m) - One(m = player[c])
                      /\ Share(c, m) \in Int
  BY <1>1, NameAssumption DEF Share, Holding, One
<1>9. \A m \in Name : pref'[m] - pref[m] = (One(id'[m] # 0) - One(id[m] # 0))
                                          + (Share(c, m)' - Share(c, m))
                                          + (leaked'[m] - leaked[m])
  BY <1>1, <1>4, <1>5, <1>8 DEF One
<1> QED
  BY <1>1, <1>7, <1>9, OwnedPlain

\* Of a list, an entry is added at the end.
LEMMA EntryAdded ==
    ASSUME NEW c \in Client, NEW n \in Name, NEW m \in Name,
           out \in [Client -> Seq(Name)], Len(out[c]) < Places,
           out' = [out EXCEPT ![c] = Append(out[c], n)]
    PROVE  Cardinality(Entries(m)') = Cardinality(Entries(m)) + One(m = n)
<1>0. PICK s \in Seq(Name) : s = out[c]
  OBVIOUS
<1> DEFINE k == Len(s) + 1
<1>1. k \in 1 .. Places /\ Len(s) \in Nat
  BY <1>0, PlacesAssumption
<1>2. /\ out'[c] = Append(s, n) /\ Len(out'[c]) = k /\ out'[c][k] = n
      /\ \A i \in 1 .. Len(s) : out'[c][i] = s[i]
      /\ \A d \in Client \ {c} : out'[d] = out[d]
  BY <1>0
<1> HIDE DEF k
<1>3. <<c, k>> \notin Entries(m) /\ IsFiniteSet(Entries(m))
  <2>1. ~(k <= Len(out[c]))
    BY <1>0, <1>1 DEF k
  <2>2. <<c, k>> \notin Entries(m)
    BY <2>1 DEF Entries
  <2> QED
    BY <2>2, EntriesFinite
<1>4. ASSUME NEW e \in Client \X (1 .. Places)
      PROVE  e \in Entries(m)' <=> e \in Entries(m) \/ (e = <<c, k>> /\ m = n)
  <2>1. CASE e[1] # c
    BY <1>2, <2>1 DEF Entries
  <2>2. CASE e[1] = c
    <3>1. e = <<c, e[2]>> /\ e[2] \in 1 .. Places
      BY <2>2
    <3>2. e \in Entries(m)' <=> e[2] <= k /\ out'[c][e[2]] = m
      BY <1>2, <3>1, <2>2 DEF Entries
    <3>3. e \in Entries(m) <=> e[2] <= Len(s) /\ s[e[2]] = m
      BY <1>0, <3>1, <2>2 DEF Entries
    <3>4. CASE e[2] <= Len(s)
      BY <1>1, <1>2, <3>1, <3>2, <3>3, <3>4 DEF k
    <3>5. CASE e[2] = k
      BY <1>1, <1>2, <3>1, <3>2, <3>3, <3>5 DEF k
    <3>6. CASE e[2] > k
      BY <1>1, <1>2, <3>1, <3>2, <3>3, <3>6 DEF k
    <3> QED
      BY <1>1, <3>1, <3>4, <3>5, <3>6 DEF k
  <2> QED
    BY <2>1, <2>2
<1>5. /\ Entries(m)' \subseteq Client \X (1 .. Places)
      /\ Entries(m) \subseteq Client \X (1 .. Places)
      /\ <<c, k>> \in Client \X (1 .. Places)
  BY <1>1 DEF Entries
<1>6. CASE m = n
  <2>1. Entries(m)' = Entries(m) \cup {<<c, k>>}
    BY <1>4, <1>5, <1>6
  <2>2. Cardinality(Entries(m)') = Cardinality(Entries(m)) + 1
    BY <1>3, <2>1, FS_AddElement
  <2> QED
    BY <1>6, <2>2 DEF One
<1>7. CASE m # n
  <2>1. Entries(m)' = Entries(m)
    BY <1>4, <1>5, <1>7
  <2> QED
    BY <1>7, <2>1, EntriesFinite DEF One
<1> QED
  BY <1>6, <1>7

\* The first entry is taken from a list: the others move up.
LEMMA EntryTaken ==
    ASSUME NEW c \in Client, NEW s \in Seq(Name), NEW m \in Name,
           out \in [Client -> Seq(Name)], s = out[c], s # <<>>, Len(s) <= Places,
           out' = [out EXCEPT ![c] = Tail(s)]
    PROVE  Cardinality(Entries(m)') = Cardinality(Entries(m)) - One(m = Head(s))
<1> DEFINE S == Entries(m) \ {<<c, 1>>}
           up == [e \in Entries(m)' |-> IF e[1] = c THEN <<c, e[2] + 1>> ELSE e]
<1>1. /\ Len(s) \in Nat \ {0} /\ Len(Tail(s)) = Len(s) - 1
      /\ \A i \in 1 .. Len(s) - 1 : Tail(s)[i] = s[i + 1]
      /\ Head(s) = s[1]
  OBVIOUS
<1>2. /\ out'[c] = Tail(s) /\ Len(out'[c]) = Len(s) - 1
      /\ \A d \in Client \ {c} : out'[d] = out[d]
      /\ \A e \in Entries(m)' : up[e] = IF e[1] = c THEN <<c, e[2] + 1>> ELSE e
      /\ up = [e \in Entries(m)' |-> up[e]]
  BY <1>1
<1> HIDE DEF up
<1>3. ASSUME NEW e \in Entries(m)'
      PROVE  /\ up[e] \in S /\ e[1] \in Client /\ e[2] \in 1 .. Places /\ e = <<e[1], e[2]>>
             /\ up[e][1] = e[1] /\ up[e][2] = IF e[1] = c THEN e[2] + 1 ELSE e[2]
  <2>1. /\ e[1] \in Client /\ e[2] \in 1 .. Places /\ e = <<e[1], e[2]>>
        /\ e[2] <= Len(out'[e[1]]) /\ out'[e[1]][e[2]] = m
    BY DEF Entries
  <2>2. CASE e[1] = c
    <3>1. e[2] \in 1 .. Len(s) - 1 /\ s[e[2] + 1] = m
      BY <1>1, <1>2, <2>1, <2>2
    <3>2. /\ e[2] + 1 \in 1 .. Places /\ e[2] + 1 <= Len(s) /\ e[2] + 1 # 1
      BY <1>1, <3>1, PlacesAssumption
    <3>3. <<c, e[2] + 1>> \in Entries(m)
      BY <3>1, <3>2 DEF Entries
    <3>4. up[e] = <<c, e[2] + 1>>
      BY <1>2, <2>2
    <3>5. <<c, e[2] + 1>> \in S
      BY <3>2, <3>3
    <3> HIDE DEF S
    <3> QED
      BY <2>1, <2>2, <3>4, <3>5
  <2>3. CASE e[1] # c
    <3>1. e[2] <= Len(out[e[1]]) /\ out[e[1]][e[2]] = m /\ e # <<c, 1>>
      BY <1>2, <2>1, <2>3
    <3>2. e \in Entries(m)
      BY <2>1, <3>1 DEF Entries
    <3> QED
      BY <1>2, <2>1, <2>3, <3>1, <3>2
  <2> QED
    BY <2>1, <2>2, <2>3
<1>4. ASSUME NEW t \in S PROVE \E e \in Entries(m)' : up[e] = t
  <2>1. /\ t[1] \in Client /\ t[2] \in 1 .. Places /\ t = <<t[1], t[2]>>
        /\ t[2] <= Len(out[t[1]]) /\ out[t[1]][t[2]] = m /\ t # <<c, 1>>
    BY DEF Entries
  <2>2. CASE t[1] = c
    <3>1. t[2] - 1 \in 1 .. Len(s) - 1 /\ s[t[2]] = m /\ t[2] - 1 + 1 = t[2]
      BY <1>1, <2>1, <2>2
    <3>2. t[2] - 1 \in 1 .. Places /\ t[2] - 1 <= Len(out'[c]) /\ out'[c][t[2] - 1] = m
      <4>1. t[2] - 1 \in 1 .. Places
        BY <1>1, <2>1, <3>1, PlacesAssumption
      <4>2. Tail(s)[t[2] - 1] = s[t[2]]
        BY <1>1, <3>1
      <4> QED
        BY <1>1, <1>2, <3>1, <4>1, <4>2
    <3>3. <<c, t[2] - 1>> \in Entries(m)'
      BY <3>2 DEF Entries
    <3>4. up[<<c, t[2] - 1>>] = t
      BY <1>2, <2>1, <2>2, <3>1, <3>3
    <3> QED
      BY <3>3, <3>4
  <2>3. CASE t[1] # c
    <3>1. t \in Entries(m)'
      BY <1>2, <2>1, <2>3 DEF Entries
    <3> QED
      BY <1>2, <2>3, <3>1
  <2> QED
    BY <2>2, <2>3
<1>5. ASSUME NEW a \in Entries(m)', NEW b \in Entries(m)', up[a] = up[b] PROVE a = b
  <2>1. a[1] = b[1]
    BY <1>3, <1>5
  <2>2. /\ up[a][2] = (IF a[1] = c THEN a[2] + 1 ELSE a[2])
        /\ up[b][2] = (IF b[1] = c THEN b[2] + 1 ELSE b[2])
        /\ a[2] \in Int /\ b[2] \in Int
    BY <1>3
  <2>3. a[2] = b[2]
    BY <1>5, <2>1, <2>2
  <2> QED
    BY <1>3, <2>1, <2>3
<1>6. up \in [Entries(m)' -> S]
  BY <1>2, <1>3
<1>7. ExistsBijection(Entries(m)', S)
  <2> HIDE DEF S
  <2> QED
    BY <1>4, <1>5, <1>6 DEF ExistsBijection, Bijection, Injection, Surjection, IsInjective
<1>8. Cardinality(S) = Cardinality(Entries(m)')
  BY <1>7, EntriesFinite, FS_Bijection
<1>9. <<c, 1>> \in Entries(m) <=> m = Head(s)
  <2>1. 1 \in 1 .. Places
    BY PlacesAssumption
  <2> QED
    BY <1>1, <2>1 DEF Entries
<1>10. Cardinality(S) = Cardinality(Entries(m)) - One(<<c, 1>> \in Entries(m))
  <2>1. Cardinality(S) = IF <<c, 1>> \in Entries(m) THEN Cardinality(Entries(m)) - 1
                         ELSE Cardinality(Entries(m))
    BY EntriesFinite, FS_RemoveElement
  <2>2. Cardinality(Entries(m)) \in Nat
    BY EntriesFinite
  <2> HIDE DEF S
  <2> QED
    BY <2>1, <2>2 DEF One
<1> QED
  BY <1>8, <1>9, <1>10

LEMMA OwnedFill == ASSUME Inv, Owned, NEW c \in Client, Fill(c) PROVE Owned'
<1> DEFINE n == player[idx[c]]
<1> USE DEF Fill, Ref, At, clients, history
<1>1. /\ pc[c] = "fill" /\ idx[c] \in 1 .. Places /\ idx' = [idx EXCEPT ![c] = @ + 1]
      /\ UNCHANGED <<id, player, crm, pc, me, np, cnt, post, leaked, posts, alive>>
  BY DEF Inv, Types
<1>2. /\ out[c] \in Seq(Name) /\ out \in [Client -> Seq(Name)] /\ Len(out[c]) \in Nat
      /\ Len(out[c]) < idx[c]
  BY <1>1 DEF Inv, Types, Owned, Lists
<1>3. pref \in [Name -> Int] /\ id \in [Name -> Nat] /\ leaked \in [Name -> Nat]
  BY DEF Owned, Typed, Inv, Types
<1>4. n \in Name \cup {NoName}
  BY <1>1 DEF Inv, Types, Client
<1>5. /\ idx[c] + 1 \in 0 .. Places + 1 /\ idx'[c] = idx[c] + 1
      /\ idx' \in [Client -> 0 .. Places + 1]
      /\ \A d \in Client \ {c} : idx'[d] = idx[d]
  BY <1>1, PlacesAssumption DEF Owned, Typed
<1>6. \A m \in Name : Share(c, m)' = Share(c, m) /\ Share(c, m) \in Int
  BY <1>1 DEF Share, One
<1>7. Keeps(c)'
  BY <1>1 DEF Owned, Keeps
<1>8. CASE n # NoName
  <2>1. out' = [out EXCEPT ![c] = Append(out[c], n)] /\ n \in Name
    BY <1>4, <1>8
  <2>2. /\ out'[c] = Append(out[c], n) /\ Len(out'[c]) = Len(out[c]) + 1
        /\ \A d \in Client \ {c} : out'[d] = out[d]
    BY <1>2, <2>1
  <2>3. Len(out[c]) < Places /\ Len(out'[c]) < idx'[c] /\ Len(out'[c]) <= Places
    BY <1>1, <1>2, <1>5, <2>2, PlacesAssumption
  <2>4. pref' = [pref EXCEPT ![n] = @ + 1]
    BY <1>8
  <2>5. id[n] # 0
    BY <1>1, <1>8 DEF Inv, Names, Client
  <2>6. Settled(c)
    <3>1. Aside(c)
      BY <1>1, <1>5, <2>2 DEF Aside
    <3>2. Typed'
      BY <1>1, <1>3, <1>5, <2>1, <2>4 DEF Owned, Typed
    <3>3. Lists(c)'
      BY <1>1, <2>3 DEF Owned, Lists
    <3>4. \A m \in Name : id'[m] = 0 => id[m] = 0 /\ pref'[m] <= pref[m]
      BY <1>1, <1>3, <2>1, <2>4, <2>5
    <3> QED
      BY <1>7, <3>1, <3>2, <3>3, <3>4 DEF Settled
  <2>8. \A m \in Name : pref'[m] - pref[m] = One(m = n)
    BY <1>3, <2>1, <2>4 DEF One
  <2> HIDE DEF n, Fill, Ref, At
  <2>7. \A m \in Name : /\ Cardinality(Entries(m)') = Cardinality(Entries(m)) + One(m = n)
                        /\ Cardinality(Entries(m)) \in Int
    <3> SUFFICES ASSUME NEW m \in Name
                 PROVE  /\ Cardinality(Entries(m)') = Cardinality(Entries(m)) + One(m = n)
                        /\ Cardinality(Entries(m)) \in Int
      OBVIOUS
    <3>1. Cardinality(Entries(m)) \in Int
      BY EntriesFinite
    <3>2. Cardinality(Entries(m)') = Cardinality(Entries(m)) + One(m = n)
      BY <1>2, <2>1, <2>3, EntryAdded
    <3> QED
      BY <3>1, <3>2
  <2>9. \A m \in Name : pref'[m] - pref[m]
                          = (One(id'[m] # 0) - One(id[m] # 0))
                            + (Share(c, m)' - Share(c, m))
                            + (Cardinality(Entries(m)') - Cardinality(Entries(m)))
                            + (leaked'[m] - leaked[m])
    BY <1>1, <1>3, <1>6, <2>7, <2>8 DEF One
  <2> QED
    BY <2>6, <2>9, OwnedKept
<1>9. CASE n = NoName
  <2>1. UNCHANGED <<pref, out>>
    BY <1>9
  <2>2. Settled(c)
    <3>1. Aside(c)
      BY <1>1, <1>5, <2>1 DEF Aside
    <3>2. Typed'
      BY <1>1, <1>3, <1>5, <2>1 DEF Owned, Typed
    <3>3. Lists(c)'
      BY <1>1, <1>2, <1>5, <2>1 DEF Owned, Lists
    <3>4. \A m \in Name : id'[m] = 0 => id[m] = 0 /\ pref'[m] <= pref[m]
      BY <1>1, <1>3, <2>1
    <3> QED
      BY <1>7, <3>1, <3>2, <3>3, <3>4 DEF Settled
  <2> QED
    BY <1>1, <1>6, <2>1, <2>2, OwnedAlone
<1> QED
  BY <1>8, <1>9

LEMMA OwnedTell == ASSUME Inv, Owned, NEW c \in Client, Tell(c) PROVE Owned'
<1> DEFINE n == Head(out[c])
<1> USE DEF Tell, Unref, At, Goto, clients
<1>1. /\ pc[c] \in {"listed", "tell"} /\ pc' = [pc EXCEPT ![c] = "tell"]
      /\ out' = [out EXCEPT ![c] = Tail(out[c])] /\ out[c] # <<>>
      /\ pref' = [pref EXCEPT ![n] = @ - 1]
      /\ UNCHANGED <<id, player, crm, me, np, idx, cnt, post, leaked, posts, alive>>
  BY DEF Inv, Types
<1>2. /\ out[c] \in Seq(Name) /\ out \in [Client -> Seq(Name)] /\ Len(out[c]) \in Nat
      /\ Len(out[c]) <= Places
  BY DEF Inv, Types, Owned, Lists
<1>3. pref \in [Name -> Int] /\ id \in [Name -> Nat] /\ leaked \in [Name -> Nat]
  BY DEF Owned, Typed, Inv, Types
<1>4. /\ n \in Name /\ Len(out'[c]) = Len(out[c]) - 1 /\ pc'[c] = "tell"
      /\ \A d \in Client \ {c} : out'[d] = out[d] /\ pc'[d] = pc[d]
  BY <1>1, <1>2 DEF Inv, Types
<1>5. Aside(c)
  BY <1>1, <1>4 DEF Aside
<1>6. Keeps(c)' /\ Lists(c)'
  BY <1>1, <1>2, <1>4, PlacesAssumption DEF Owned, Keeps, Lists, Holding, Posting
<1>7. \A m \in Name : pref'[m] - pref[m] = 0 - One(m = n)
  BY <1>1, <1>3, <1>4 DEF One
<1>8. pref' \in [Name -> Int]
  BY <1>1, <1>3, <1>4
<1>9. Settled(c)
  <2>1. Typed'
    BY <1>1, <1>8 DEF Owned, Typed
  <2>2. \A m \in Name : id'[m] = 0 => id[m] = 0 /\ pref'[m] <= pref[m]
    BY <1>1, <1>3, <1>7, <1>8 DEF One
  <2> QED
    BY <1>5, <1>6, <2>1, <2>2 DEF Settled
<1>10. \A m \in Name : Share(c, m)' = Share(c, m) /\ Share(c, m) \in Int
  BY <1>1, <1>4 DEF Share, One, Holding
<1> HIDE DEF n, Tell, Unref, At, Goto
<1>11. \A m \in Name : /\ Cardinality(Entries(m)') = Cardinality(Entries(m)) - One(m = n)
                       /\ Cardinality(Entries(m)) \in Int
  <2> SUFFICES ASSUME NEW m \in Name
               PROVE  /\ Cardinality(Entries(m)') = Cardinality(Entries(m)) - One(m = n)
                      /\ Cardinality(Entries(m)) \in Int
    OBVIOUS
  <2>1. Cardinality(Entries(m)) \in Int
    BY EntriesFinite
  <2>2. Cardinality(Entries(m)') = Cardinality(Entries(m)) - One(m = n)
    BY <1>1, <1>2, EntryTaken DEF n
  <2> QED
    BY <2>1, <2>2
<1>12. \A m \in Name : pref'[m] - pref[m]
                         = (One(id'[m] # 0) - One(id[m] # 0))
                           + (Share(c, m)' - Share(c, m))
                           + (Cardinality(Entries(m)') - Cardinality(Entries(m)))
                           + (leaked'[m] - leaked[m])
  BY <1>1, <1>3, <1>7, <1>10, <1>11 DEF One
<1> QED
  BY <1>9, <1>12, OwnedKept

-----------------------------------------------------------------------------
LEMMA OwnedInit == Init => Owned
<1> SUFFICES ASSUME Init PROVE Owned
  OBVIOUS
<1>1. Typed
  BY PlacesAssumption, BoundAssumption DEF Init, Typed
<1>2. \A c \in Client : Keeps(c) /\ Lists(c)
  BY PlacesAssumption DEF Init, Keeps, Lists, Holding, Posting, NoPost
<1>3. ASSUME NEW n \in Name PROVE Exact(n)
  <2>1. n # NoName
    BY NameAssumption
  <2>2. /\ Logged(n) = {} /\ Mine(n) = {} /\ Held(n) = {} /\ Firsts(n) = {}
        /\ Seconds(n) = {}
    BY <2>1 DEF Init, Logged, Mine, Held, Firsts, Seconds, NoPost
  <2>3. Entries(n) = {}
    BY DEF Init, Entries
  <2>4. Cardinality({}) = 0
    BY FS_EmptySet
  <2> QED
    BY <2>2, <2>3, <2>4 DEF Init, Exact, Shared, One
<1> QED
  BY <1>1, <1>2, <1>3 DEF Init, Owned, Uncreated

LEMMA OwnedStep == Inv /\ Owned /\ [Next]_vars => Owned'
<1> SUFFICES ASSUME Inv, Owned, [Next]_vars PROVE Owned'
  OBVIOUS
<1>1. ASSUME NEW c \in Client, Connect(c) \/ LogoutStep(c) PROVE Owned'
  BY <1>1, OwnedConnect, OwnedEof, OwnedLogOut, OwnedClear, OwnedUnregister DEF LogoutStep
<1>2. ASSUME NEW c \in Client, LoginStep(c) PROVE Owned'
  BY <1>2, OwnedLogin, OwnedRefused, OwnedLookup, OwnedLogIn, OwnedAck DEF LoginStep
<1>3. ASSUME NEW c \in Client, UsersStep(c) PROVE Owned'
  <2>1. CASE Overrun(c)
    BY <2>1, OwnedNone DEF Overrun
  <2> QED
    BY <1>3, <2>1, OwnedWalk, OwnedFill, OwnedTell DEF UsersStep
<1>4. ASSUME NEW c \in Client, PostStep(c) PROVE Owned'
  BY <1>4, OwnedPost, OwnedLock, OwnedUnlock DEF PostStep
<1>5. CASE Halted \/ UNCHANGED vars
  <2>1. alive' \in BOOLEAN
    BY <1>5 DEF Halted, vars, Owned, Typed
  <2> QED
    BY <1>5, <2>1, OwnedNone DEF Halted, vars
<1> QED
  BY <1>1, <1>2, <1>3, <1>4, <1>5 DEF Next

LEMMA AlwaysOwned == Spec => [](Inv /\ Owned)
<1>1. Init => Inv /\ Owned
  BY InitInv, OwnedInit
<1>2. Inv /\ Owned /\ [Next]_vars => Inv' /\ Owned'
  BY StepInv, OwnedStep
<1> QED
  BY <1>1, <1>2, PTL DEF Spec

\* At any moment a player's reference count is what the registry, the
\* clients, the threads, the lists of USERS and the movers have of him, and
\* what was leaked: no step drops or keeps one that it should not.
THEOREM RefsExact == Spec => []PlayerRefExact
<1>1. ASSUME Inv, Owned, NEW n \in Name PROVE pref[n] = Refs(n) + leaked[n]
  <2>1. /\ Cardinality(Logged(n)) \in Nat /\ Cardinality(Mine(n)) \in Nat
        /\ Cardinality(Held(n)) \in Nat /\ Cardinality(Firsts(n)) \in Nat
        /\ Cardinality(Seconds(n)) \in Nat /\ Cardinality(Entries(n)) \in Nat
        /\ leaked[n] \in Nat /\ One(id[n] # 0) \in Nat
    BY <1>1, PartsFinite, EntriesFinite DEF Owned, Typed, One
  <2>2. Refs(n) = One(id[n] # 0) + Cardinality(Logged(n)) + Cardinality(Mine(n))
                  + Cardinality(Held(n)) + Cardinality(Entries(n))
                  + Cardinality(Firsts(n)) + Cardinality(Seconds(n))
    BY DEF Refs, Logged, Mine, Held, Entries, Firsts, Seconds
  <2>3. pref[n] = One(id[n] # 0) + Shared(n) + Cardinality(Entries(n)) + leaked[n]
    BY <1>1 DEF Owned, Exact
  <2> QED
    BY <2>1, <2>2, <2>3 DEF Shared
<1>2. Inv /\ Owned => PlayerRefExact
  BY <1>1 DEF PlayerRefExact
<1> QED
  BY <1>2, AlwaysOwned, PTL

\* The types of all variables; a reference count is never negative.
THEOREM SessionsTyped == Spec => []TypeOK
<1>1. ASSUME Inv, Owned PROVE TypeOK
  <2>1. ASSUME NEW n \in Name PROVE pref[n] \in Nat
    BY <1>1, PartsFinite, EntriesFinite DEF Owned, Exact, Typed, One
  <2>2. pref \in [Name -> Nat]
    BY <1>1, <2>1 DEF Owned, Typed
  <2> QED
    BY <1>1, <2>2 DEF TypeOK, Inv, Types, Owned, Typed
<1>2. Inv /\ Owned => TypeOK
  BY <1>1
<1> QED
  BY <1>2, AlwaysOwned, PTL

-----------------------------------------------------------------------------
\* What the walks of USERS find.

\* Who was passed by the first walk and has been logged in all the time ...
Present(c) == {d \in Client : /\ player[d] # NoName /\ d \notin since[c]
                              /\ pc[c] = "count" => d < idx[c]}

\* ... and who was passed by the second and can have been found there.
Visited(c) == {d \in Client : /\ player[d] # NoName \/ d \in since[c]
                              /\ pc[c] = "fill" => d < idx[c]}

AllFound(c) == \A d \in Visited(c) \ since[c] :
                \E i \in DOMAIN out[c] : out[c][i] = player[d]

WalkOf(c) ==
    /\ pc[c] \in {"count", "fill", "listed"} => Cardinality(Present(c)) <= cnt[c]
    /\ pc[c] \in {"fill", "listed"} => Len(out[c]) <= Cardinality(Visited(c)) /\ AllFound(c)

Listing == \A c \in Client : WalkOf(c)

LEMMA WalkSets ==
    ASSUME NEW c \in Client
    PROVE  /\ IsFiniteSet(Present(c)) /\ IsFiniteSet(Visited(c))
           /\ IsFiniteSet(Present(c)') /\ IsFiniteSet(Visited(c)')
           /\ Cardinality(Present(c)) \in Nat /\ Cardinality(Visited(c)) \in Nat
           /\ Cardinality(Present(c)') \in Nat /\ Cardinality(Visited(c)') \in Nat
<1>1. /\ Present(c) \subseteq Client /\ Visited(c) \subseteq Client
      /\ Present(c)' \subseteq Client /\ Visited(c)' \subseteq Client
  BY DEF Present, Visited
<1> QED
  BY <1>1, ClientFinite, FS_Subset, FS_CardinalityType

\* Others log in and out beside a walk.
LEMMA WalkBeside ==
    ASSUME Inv, Owned, NEW c \in Client, WalkOf(c),
           UNCHANGED <<pc[c], idx[c], cnt[c], out[c]>>,
           pc[c] \in {"count", "fill", "listed"} =>
              /\ since[c] \subseteq since'[c]
              /\ \A d \in Client : player'[d] = player[d] \/ d \in since'[c]
    PROVE  WalkOf(c)'
<1> SUFFICES ASSUME pc[c] \in {"count", "fill", "listed"} PROVE WalkOf(c)'
  BY DEF WalkOf
<1>1. Present(c)' \subseteq Present(c) /\ Visited(c) \subseteq Visited(c)'
  BY DEF Present, Visited
<1>2. /\ Cardinality(Present(c)') <= Cardinality(Present(c))
      /\ Cardinality(Visited(c)) <= Cardinality(Visited(c)')
  BY <1>1, WalkSets, FS_Subset
<1>3. cnt[c] \in Nat /\ Len(out[c]) \in Nat
  BY DEF Owned, Typed, Inv, Types
<1>4. Visited(c)' \ since'[c] \subseteq Visited(c) \ since[c]
  BY DEF Visited
<1>5. AllFound(c) => AllFound(c)'
  BY <1>4 DEF AllFound, Visited
<1> QED
  BY <1>2, <1>3, <1>5, WalkSets DEF WalkOf

\* One client more is passed.
LEMMA WalkUsers == ASSUME Inv, Owned, NEW c \in Client, Users(c) PROVE WalkOf(c)'
<1>1. pc'[c] = "count" /\ idx'[c] = 1 /\ cnt'[c] = cnt[c] /\ pc[c] = "ready"
  BY DEF Users, At, Goto, Inv, Types, Owned, Typed
<1>2. Present(c)' = {}
  BY <1>1, ClientIds, PlacesAssumption DEF Present, Client
<1>3. Cardinality(Present(c)') = 0 /\ cnt[c] = 0
  BY <1>1, <1>2, FS_EmptySet DEF Owned, Lists
<1> QED
  BY <1>1, <1>3 DEF WalkOf

LEMMA WalkCount ==
    ASSUME Inv, Owned, NEW c \in Client, WalkOf(c), Count(c) PROVE WalkOf(c)'
<1>1. /\ pc[c] = "count" /\ idx[c] \in Nat \ {0} /\ cnt[c] \in Nat
      /\ UNCHANGED <<player, since, out>> /\ Places \in Nat
  BY PlacesAssumption DEF Count, At, clients, history, Inv, Types, Owned, Typed
<1>2. Cardinality(Present(c)) <= cnt[c]
  BY <1>1 DEF WalkOf
<1>3. CASE idx[c] <= Places
  <2>1. /\ pc'[c] = "count" /\ idx'[c] = idx[c] + 1 /\ idx[c] \in Client
        /\ cnt'[c] = cnt[c] + One(player[idx[c]] # NoName)
    BY SMTT(30), <1>1, <1>3 DEF Count, Inv, Types, Owned, Typed, Client
  <2>2. /\ idx[c] \notin Present(c)
        /\ Present(c)' = IF player[idx[c]] # NoName /\ idx[c] \notin since[c]
                         THEN Present(c) \cup {idx[c]} ELSE Present(c)
    BY <1>1, <2>1, ClientIds DEF Present
  <2>3. Cardinality(Present(c)') <= Cardinality(Present(c)) + One(player[idx[c]] # NoName)
    <3>1. CASE player[idx[c]] # NoName /\ idx[c] \notin since[c]
      <4>1. Cardinality(Present(c) \cup {idx[c]}) = Cardinality(Present(c)) + 1
        BY <2>2, WalkSets, FS_AddElement
      <4> QED
        BY <2>2, <3>1, <4>1, WalkSets DEF One
    <3>2. CASE ~(player[idx[c]] # NoName /\ idx[c] \notin since[c])
      BY <2>2, <3>2, WalkSets DEF One
    <3> QED
      BY <3>1, <3>2
  <2>4. Cardinality(Present(c)') <= cnt'[c]
    BY <1>1, <1>2, <2>1, <2>3, WalkSets DEF One
  <2> QED
    BY <2>1, <2>4 DEF WalkOf
<1>4. CASE ~(idx[c] <= Places)
  <2>1. pc'[c] = "fill" /\ idx'[c] = 1 /\ cnt'[c] = cnt[c]
    BY <1>1, <1>4 DEF Count, Goto, Inv, Types, Owned, Typed
  <2>2. Present(c)' = Present(c)
    BY <1>1, <1>4, <2>1 DEF Present, Client
  <2>3. Visited(c)' = {} /\ out[c] = <<>>
    BY <1>1, <2>1, PlacesAssumption DEF Visited, Client, Owned, Lists
  <2>4. Len(out'[c]) <= Cardinality(Visited(c)') /\ AllFound(c)'
    BY <1>1, <2>3, FS_EmptySet DEF AllFound
  <2> QED
    BY <1>2, <2>1, <2>2, <2>4 DEF WalkOf
<1> QED
  BY <1>3, <1>4

LEMMA WalkFill ==
    ASSUME Inv, Owned, NEW c \in Client, WalkOf(c), Fill(c) PROVE WalkOf(c)'
<1> DEFINE n == player[idx[c]]
<1>1. /\ pc[c] = "fill" /\ idx[c] \in Client /\ idx'[c] = idx[c] + 1
      /\ UNCHANGED <<player, since, cnt, pc>>
      /\ out' = IF n # NoName THEN [out EXCEPT ![c] = Append(@, n)] ELSE out
  <2>1. pc[c] = "fill" /\ idx[c] <= Places /\ idx[c] \in Nat /\ idx[c] # 0
    BY DEF Fill, At, Inv, Types
  <2>2. idx[c] \in Client /\ idx'[c] = idx[c] + 1
    BY <2>1, PlacesAssumption DEF Fill, Inv, Types, Client
  <2>3. out' = IF n # NoName THEN [out EXCEPT ![c] = Append(@, n)] ELSE out
    BY DEF Fill
  <2> QED
    BY <2>1, <2>2, <2>3 DEF Fill, clients, history
<1>2. /\ out[c] \in Seq(Name) /\ out \in [Client -> Seq(Name)] /\ Len(out[c]) \in Nat
      /\ n \in Name \cup {NoName}
  BY <1>1 DEF Inv, Types
<1>3. Present(c)' = Present(c)
  BY <1>1 DEF Present
<1>4. /\ idx[c] \notin Visited(c)
      /\ Visited(c)' = IF n # NoName \/ idx[c] \in since[c]
                       THEN Visited(c) \cup {idx[c]} ELSE Visited(c)
  BY <1>1, ClientIds DEF Visited
<1>5. Cardinality(Visited(c) \cup {idx[c]}) = Cardinality(Visited(c)) + 1
  BY <1>4, WalkSets, FS_AddElement
<1>6. Len(out[c]) <= Cardinality(Visited(c)) /\ AllFound(c)
  BY <1>1 DEF WalkOf
<1>7. CASE n # NoName
  <2>1. /\ out'[c] = Append(out[c], n) /\ Len(out'[c]) = Len(out[c]) + 1
        /\ DOMAIN out'[c] = 1 .. Len(out[c]) + 1 /\ out'[c][Len(out[c]) + 1] = n
        /\ \A i \in DOMAIN out[c] : i \in DOMAIN out'[c] /\ out'[c][i] = out[c][i]
    BY <1>1, <1>2, <1>7
  <2>2. Len(out'[c]) <= Cardinality(Visited(c)')
    BY <1>2, <1>4, <1>5, <1>6, <1>7, <2>1, WalkSets
  <2>3. AllFound(c)'
    <3> SUFFICES ASSUME NEW d \in Visited(c)' \ since[c]
                 PROVE  \E i \in DOMAIN out'[c] : out'[c][i] = player[d]
      BY <1>1 DEF AllFound
    <3>1. CASE d = idx[c]
      BY <1>2, <2>1, <3>1
    <3>2. CASE d # idx[c]
      BY <1>4, <1>6, <2>1, <3>2 DEF AllFound
    <3> QED
      BY <3>1, <3>2
  <2> QED
    BY <1>1, <1>3, <2>2, <2>3 DEF WalkOf
<1>8. CASE n = NoName
  <2>1. out' = out
    BY <1>1, <1>8
  <2>2. Len(out'[c]) <= Cardinality(Visited(c)')
    BY <1>2, <1>4, <1>5, <1>6, <2>1, WalkSets
  <2>3. AllFound(c)'
    <3>1. Visited(c)' \ since[c] = Visited(c) \ since[c]
      BY <1>4, <1>8
    <3> QED
      BY <1>1, <1>6, <2>1, <3>1 DEF AllFound
  <2> QED
    BY <1>1, <1>3, <2>2, <2>3 DEF WalkOf
<1> QED
  BY <1>7, <1>8

LEMMA WalkFilled ==
    ASSUME Inv, Owned, NEW c \in Client, WalkOf(c), Filled(c) PROVE WalkOf(c)'
<1>1. /\ pc[c] = "fill" /\ idx[c] > Places /\ pc'[c] = "listed"
      /\ UNCHANGED <<player, since, cnt, out>> /\ idx[c] \in Nat /\ Places \in Nat
  BY PlacesAssumption DEF Filled, At, Goto, history, Inv, Types
<1>2. Present(c)' = Present(c)
  BY <1>1 DEF Present
<1>3. Visited(c)' = Visited(c)
  BY <1>1 DEF Visited, Client
<1>4. AllFound(c) => AllFound(c)'
  BY <1>1, <1>3 DEF AllFound
<1> QED
  BY <1>1, <1>2, <1>3, <1>4 DEF WalkOf

\* What a thread's step does to the walk of another: nothing, but a log-in or
\* log-out.
LEMMA WalkOther ==
    ASSUME Inv, Owned, NEW t \in Client, NEW c \in Client, c # t, WalkOf(c),
           Connect(t) \/ LoginStep(t) \/ UsersStep(t) \/ PostStep(t) \/ LogoutStep(t)
    PROVE  WalkOf(c)'
<1> DEFINE Same == UNCHANGED <<pc[c], idx[c], cnt[c], out[c]>>
           Calm == player' = player /\ since'[c] = since[c]
<1> USE DEF At, Goto, players, clients, history
<1>1. ASSUME Same, Calm PROVE WalkOf(c)'
  BY <1>1, WalkBeside
<1>2. ASSUME Same, \E n : SetPlayer(t, n) PROVE WalkOf(c)'
  <2>1. \A d \in Client \ {t} : player'[d] = player[d]
    BY <1>2 DEF SetPlayer, Inv, Types
  <2>2. pc[c] \in {"count", "fill", "listed"}
          => since[c] \subseteq since'[c] /\ t \in since'[c]
    BY <1>2 DEF SetPlayer, Walking
  <2> QED
    BY <1>2, <2>1, <2>2, WalkBeside
<1>3. CASE LogIn(t) \/ Clear(t) \/ Unregister(t)
  <2>1. Same
    BY <1>3 DEF LogIn, Clear, Unregister, Inv, Types
  <2>2. \E n : SetPlayer(t, n)
    BY <1>3 DEF LogIn, Clear, Unregister
  <2> QED
    BY <1>2, <2>1, <2>2
<1>4. CASE Connect(t) \/ (LoginStep(t) /\ ~LogIn(t))
  <2>1. Same /\ Calm
    BY <1>4 DEF Connect, LoginStep, Login, AlreadyLoggedIn, Lookup, Scan, Found,
                NotFound, Ack, Refused, Inv, Types, Owned, Typed
  <2> QED
    BY <1>1, <2>1
<1>5. CASE UsersStep(t)
  <2>1. Same /\ Calm
    BY <1>5 DEF UsersStep, Users, Count, Fill, Filled, Overrun, Tell, Told, locals,
                Inv, Types, Owned, Typed
  <2> QED
    BY <1>1, <2>1
<1>6. CASE PostStep(t)
  <2>1. Same /\ Calm
    BY <1>6 DEF PostStep, Post, Lock1, Lock2, Write, Unlock, Inv, Types
  <2> QED
    BY <1>1, <2>1
<1>7. CASE LogoutStep(t) /\ ~Clear(t) /\ ~Unregister(t)
  <2>1. Same /\ Calm
    BY <1>7 DEF LogoutStep, Eof, LogOut, Inv, Types
  <2> QED
    BY <1>1, <2>1
<1> QED
  BY <1>3, <1>4, <1>5, <1>6, <1>7 DEF LoginStep, LogoutStep

\* What a thread's step does to its own walk, if it does not go on with it.
LEMMA WalkEnds ==
    ASSUME Inv, NEW c \in Client, pc'[c] \notin {"count", "fill", "listed"}
    PROVE  WalkOf(c)'
BY DEF WalkOf

LEMMA WalkOwn ==
    ASSUME Inv, Owned, NEW c \in Client, WalkOf(c),
           Connect(c) \/ LoginStep(c) \/ UsersStep(c) \/ PostStep(c) \/ LogoutStep(c)
    PROVE  WalkOf(c)'
<1> USE DEF At, Goto
<1>1. CASE Users(c) \/ Count(c) \/ Fill(c) \/ Filled(c)
  BY <1>1, WalkUsers, WalkCount, WalkFill, WalkFilled
<1>2. CASE Overrun(c)
  BY <1>2 DEF Overrun, players, clients, locals, history, WalkOf, Present, Visited, AllFound
<1>3. CASE Tell(c) \/ Told(c)
  BY <1>3, WalkEnds DEF Tell, Told, Inv, Types
<1>4. CASE Connect(c) \/ LoginStep(c)
  <2>1. pc'[c] \in {"ready", "check", "scan", "set", "ack"}
    BY <1>4 DEF Connect, LoginStep, Login, AlreadyLoggedIn, Lookup, Scan, Found,
                NotFound, LogIn, Ack, Refused, Inv, Types
  <2> QED
    BY <2>1, WalkEnds
<1>5. CASE PostStep(c)
  <2>1. pc'[c] \in {"lock1", "lock2", "write", "unlock", "leaving", "ready"}
    BY <1>5 DEF PostStep, Post, Lock1, Lock2, Write, Unlock, Inv, Types
  <2> QED
    BY <2>1, WalkEnds
<1>6. CASE LogoutStep(c)
  <2>1. pc'[c] \in {"leaving", "clear", "unreg", "free"}
    BY <1>6 DEF LogoutStep, Eof, LogOut, Clear, Unregister, Inv, Types
  <2> QED
    BY <2>1, WalkEnds
<1> QED
  BY <1>1, <1>2, <1>3, <1>4, <1>5, <1>6 DEF UsersStep

LEMMA ListingStep == Inv /\ Owned /\ Listing /\ [Next]_vars => Listing'
<1> SUFFICES ASSUME Inv, Owned, Listing, [Next]_vars, NEW c \in Client PROVE WalkOf(c)'
  BY DEF Listing
<1>1. WalkOf(c)
  BY DEF Listing
<1>2. ASSUME NEW t \in Client,
             Connect(t) \/ LoginStep(t) \/ UsersStep(t) \/ PostStep(t) \/ LogoutStep(t)
      PROVE  WalkOf(c)'
  BY <1>1, <1>2, WalkOwn, WalkOther
<1>3. CASE Halted \/ UNCHANGED vars
  BY <1>1, <1>3 DEF Halted, vars, players, clients, locals, history, WalkOf, Present,
                    Visited, AllFound
<1> QED
  BY <1>2, <1>3 DEF Next

LEMMA AlwaysListing == Spec => [](Inv /\ Owned /\ Listing)
<1>1. Init => Inv /\ Owned /\ Listing
  BY InitInv, OwnedInit DEF Init, Listing, WalkOf
<1>2. Inv /\ Owned /\ Listing /\ [Next]_vars => Inv' /\ Owned' /\ Listing'
  BY StepInv, OwnedStep, ListingStep
<1> QED
  BY <1>1, <1>2, PTL DEF Spec

\* The answer to USERS misses nobody who was logged in throughout, and its
\* array is too small by no more than came or went meanwhile.
THEOREM UsersComplete == Spec => []UsersListed
<1>1. ASSUME Inv, Owned, Listing, NEW c \in Client, pc[c] = "listed"
      PROVE  /\ \A d \in Client \ since[c] : player[d] # NoName
                  => \E i \in DOMAIN out[c] : out[c][i] = player[d]
             /\ Len(out[c]) <= cnt[c] + Cardinality(since[c])
  <2>1. /\ Cardinality(Present(c)) <= cnt[c]
        /\ Len(out[c]) <= Cardinality(Visited(c)) /\ AllFound(c)
    BY <1>1 DEF Listing, WalkOf
  <2>2. /\ IsFiniteSet(since[c]) /\ Cardinality(since[c]) \in Nat
        /\ cnt[c] \in Nat /\ Len(out[c]) \in Nat
    BY <1>1, ClientFinite, FS_Subset, FS_CardinalityType DEF Inv, Types, Owned, Typed
  <2>3. Visited(c) \subseteq Present(c) \cup since[c]
    BY <1>1 DEF Visited, Present
  <2>4. /\ IsFiniteSet(Present(c) \cup since[c])
        /\ Cardinality(Present(c) \cup since[c])
             <= Cardinality(Present(c)) + Cardinality(since[c])
        /\ Cardinality(Present(c) \cup since[c]) \in Nat
    <3>1. /\ IsFiniteSet(Present(c) \cup since[c])
          /\ Cardinality(Present(c) \cup since[c])
               = Cardinality(Present(c)) + Cardinality(since[c])
                 - Cardinality(Present(c) \cap since[c])
      BY <2>2, WalkSets, FS_Union
    <3>2. Cardinality(Present(c) \cap since[c]) \in Nat
      BY <2>2, FS_Intersection, FS_CardinalityType
    <3> QED
      BY <2>2, <3>1, <3>2, WalkSets, FS_CardinalityType
  <2>5. Cardinality(Visited(c)) <= Cardinality(Present(c) \cup since[c])
    BY <2>3, <2>4, FS_Subset
  <2>6. Len(out[c]) <= cnt[c] + Cardinality(since[c])
    BY <2>1, <2>2, <2>4, <2>5, WalkSets
  <2>7. \A d \in Client \ since[c] : player[d] # NoName => d \in Visited(c) \ since[c]
    BY <1>1 DEF Visited
  <2> QED
    BY <2>1, <2>6, <2>7 DEF AllFound
<1>2. Inv /\ Owned /\ Listing => UsersListed
  BY <1>1 DEF UsersListed
<1> QED
  BY <1>2, AlwaysListing, PTL
=============================================================================
