----------------------- MODULE InvitationsAgreeProofs -----------------------
(***************************************************************************)
(* The two lists of an invitation agree whenever no request is at work:    *)
(* for any number of clients and invitations, lists of any length and      *)
(* either allocator.                                                       *)
(*                                                                         *)
(* The argument: while one party lists an invitation and the other does    *)
(* not, some thread is there to put that right: the one that made it and   *)
(* has still to insert it or to take it back, or one that removed it from  *)
(* its own list and goes on to the other's.  The hard part is a thread     *)
(* that reaches an invitation while it is being made, through a pointer    *)
(* that was stale when the block was given out again: it may accept the    *)
(* invitation or close it, but finds it in no list of its own, and so      *)
(* never gets as far as the list of the maker.                             *)
(***************************************************************************)
EXTENDS InvitationsClientProofs

USE ClientAssumption, InvAssumption, CapAssumption

-----------------------------------------------------------------------------
\* Where a thread has made an invitation that is not in both lists yet.
Halfway == {"addsrc", "addtgt", "undo"}

\* The maker's invitation is its own and in its own list only, or in none.
Made(u) == pc[u] \in Halfway =>
    /\ inv[ptr[u]].src = u /\ inv[ptr[u]].tgt = peer[u] /\ peer[u] # u
    /\ ~Listed(peer[u], ptr[u])
    /\ pc[u] = "addsrc" <=> ~Listed(u, ptr[u])

\* How far a thread may have come with an invitation that is being made.
Early(d) == \/ pc[d] = "act"
            \/ pc[d] = "rmown" /\ op[d] # "move"
            \/ pc[d] \in {"search", "drop"} /\ op[d] = "accept"

Pair(u, d) == pc[u] \in Halfway /\ ptr[d] = ptr[u] =>
    /\ pc[d] \in Counting => Early(d)
    /\ d = peer[u] /\ inv[ptr[u]].game # "none" => pc[d] \in {"search", "drop"}

\* A thread that goes on to the other party's list is out of its own.
Gone(c) == pc[c] = "rmpeer" => ~Listed(c, ptr[c])

\* Only a party gets as far as to do something to the invitation.
Working == {"resign", "close", "place", "finish", "rmown", "rmpeer", "search", "over"}

AtWork(c) == pc[c] \in Working => c \in Parties(ptr[c])

\* Who will see to it that the lists of an invitation agree again.
Even(i) == \A c, d \in Client :
    c \in Parties(i) /\ Listed(d, i) /\ ~Listed(c, i) =>
      \/ pc[c] = "rmpeer" /\ ptr[c] = i
      \/ pc[d] \in {"addtgt", "undo"} /\ ptr[d] = i

AgreeInv == /\ ListInv
            /\ \A c \in Client : Made(c) /\ Gone(c) /\ AtWork(c)
            /\ \A c \in Client : \A d \in Client \ {c} : Pair(c, d)
            /\ \A i \in Inv : Even(i)

\* A step of thread c: nothing of another thread changes.
Apart(c) == Alone(c) /\ \A d \in Client \ {c} : op'[d] = op[d]

\* No game is started or ended.
SameGames == \A i \in Inv :
    Allocated(i) /\ Allocated(i)' => inv'[i].game = inv[i].game

-----------------------------------------------------------------------------
\* What is listed, or being made, is there and has two parties.
LEMMA ListedThere ==
    ASSUME ListInv, NEW c \in Client, NEW i \in Inv, Listed(c, i)
    PROVE  Allocated(i) /\ c \in Parties(i)
<1>1. NoDangling
  BY HeldIsThere DEF ListInv
<1> QED
  BY <1>1 DEF Listed, NoDangling, ListInv, Owned

LEMMA MakerThere ==
    ASSUME AgreeInv, NEW u \in Client, pc[u] \in Halfway
    PROVE  /\ ptr[u] \in Inv /\ peer[u] \in Client /\ Allocated(ptr[u])
           /\ Parties(ptr[u]) = {u, peer[u]}
<1>1. ptr[u] \in Inv /\ peer[u] \in Client
  BY DEF AgreeInv, ListInv, RefInv, Types, Control, Counting, Halfway
<1>2. Parties(ptr[u]) = {u, peer[u]}
  BY DEF AgreeInv, Made, Parties
<1>3. CASE pc[u] = "addsrc"
  <2>1. NoDangling
    BY HeldIsThere DEF AgreeInv, ListInv
  <2> QED
    BY <1>1, <1>2, <1>3, <2>1 DEF NoDangling, Counting
<1>4. CASE pc[u] # "addsrc"
  BY <1>1, <1>2, <1>4, ListedThere DEF AgreeInv, Made
<1> QED
  BY <1>1, <1>2, <1>3, <1>4

\* Nobody else finds the maker's invitation in a list.
LEMMA MakerAlone ==
    ASSUME AgreeInv, NEW u \in Client, pc[u] \in Halfway, NEW c \in Client \ {u}
    PROVE  ~Listed(c, ptr[u])
<1>1. /\ ptr[u] \in Inv /\ peer[u] \in Client /\ Allocated(ptr[u])
      /\ Parties(ptr[u]) = {u, peer[u]}
  BY MakerThere
<1> QED
  BY <1>1, ListedThere DEF AgreeInv, Made

\* Two threads never make the same invitation.
LEMMA MakersDiffer ==
    ASSUME AgreeInv, NEW u \in Client, pc[u] \in Halfway,
           NEW c \in Client \ {u}, pc[c] \in Halfway
    PROVE  ptr[u] # ptr[c]
BY DEF AgreeInv, Made

\* What is being made by another thread is not freed meanwhile.
LEMMA MakerStays ==
    ASSUME AgreeInv, ListInv', NEW u \in Client, pc[u] \in Halfway,
           pc'[u] = pc[u], ptr'[u] = ptr[u],
           Listed(u, ptr[u]) => \E k \in Slot : lst'[u][k] = ptr[u]
    PROVE  Allocated(ptr[u])'
<1>1. NoDangling'
  <2>1. RefInv'
    BY DEF ListInv
  <2> QED
    BY <2>1, HeldIsThere, PTL
<1>2. ptr[u] \in Inv
  BY MakerThere
<1>3. CASE pc[u] = "addsrc"
  BY <1>1, <1>3 DEF NoDangling, Counting, Allocated
<1>4. CASE pc[u] # "addsrc"
  <2>1. PICK k \in Slot : lst'[u][k] = ptr[u]
    BY <1>4 DEF AgreeInv, Made
  <2> QED
    BY <1>1, <1>2, <2>1 DEF NoDangling, Allocated
<1> QED
  BY <1>3, <1>4

-----------------------------------------------------------------------------
\* A step of thread c that changes lists, if at all, of its invitation only.
LEMMA AgreeStep ==
    ASSUME AgreeInv, ListInv', NEW c \in Client, Apart(c), SameParties,
           NEW i, i = ptr[c],
           \A d \in Client, j \in Inv : j # i => (Listed(d, j)' <=> Listed(d, j)),
           \A u \in Client \ {c} : pc[u] \in Halfway /\ ptr[u] = i =>
             \A d \in Client : Listed(d, i)' <=> Listed(d, i),
           \A u \in Client \ {c} : pc[u] \in Halfway /\ Allocated(ptr[u])' =>
             c = peer[u] \/ inv'[ptr[u]].game = inv[ptr[u]].game,
           \A d \in Client \ {c} : pc[d] = "rmpeer" /\ ptr[d] = i /\ Listed(d, i)' =>
             Listed(d, i),
           i \in Inv => Even(i)',
           Made(c)', Gone(c)', AtWork(c)',
           \A d \in Client \ {c} : Pair(c, d)' /\ Pair(d, c)'
    PROVE  AgreeInv'
<1>1. \A d \in Client \ {c} : /\ pc'[d] = pc[d] /\ ptr'[d] = ptr[d]
                              /\ peer'[d] = peer[d] /\ op'[d] = op[d]
  BY DEF Apart, Alone
<1>2. NoDangling /\ NoDangling'
  <2>1. NoDangling
    BY HeldIsThere DEF AgreeInv, ListInv
  <2>2. RefInv'
    BY DEF ListInv
  <2>3. NoDangling'
    BY <2>2, HeldIsThere, PTL
  <2> QED
    BY <2>1, <2>3
<1>3. ASSUME NEW u \in Client \ {c}, pc[u] \in Halfway
      PROVE  /\ ptr[u] \in Inv /\ peer[u] \in Client
             /\ \A d \in Client : Listed(d, ptr[u])' <=> Listed(d, ptr[u])
             /\ Allocated(ptr[u])' /\ Allocated(ptr[u])
             /\ inv'[ptr[u]].src = u /\ inv'[ptr[u]].tgt = peer[u] /\ peer[u] # u
  <2>1. ptr[u] \in Inv /\ peer[u] \in Client /\ Allocated(ptr[u])
    BY <1>3, MakerThere
  <2>2. \A d \in Client : (\E k \in Slot : lst'[d][k] = ptr[u]) <=> Listed(d, ptr[u])
    BY <1>3, <2>1 DEF Listed
  <2>3. Allocated(ptr[u])'
    BY <1>1, <1>3, <2>2, MakerStays
  <2>4. inv[ptr[u]].src = u /\ inv[ptr[u]].tgt = peer[u] /\ peer[u] # u
    BY <1>3 DEF AgreeInv, Made
  <2> QED
    BY <1>1, <2>1, <2>2, <2>3, <2>4 DEF SameParties, Allocated, Listed
<1>4. ASSUME NEW u \in Client \ {c} PROVE Made(u)'
  <2> SUFFICES ASSUME pc[u] \in Halfway PROVE Made(u)'
    BY <1>1 DEF Made
  <2> QED
    BY <1>1, <1>3 DEF AgreeInv, Made, Listed
<1>5. ASSUME NEW u \in Client, NEW d \in Client \ {u} PROVE Pair(u, d)'
  <2>1. CASE c \in {u, d}
    BY <2>1
  <2>2. CASE c \notin {u, d}
    <3> SUFFICES ASSUME pc[u] \in Halfway, ptr[d] = ptr[u] PROVE Pair(u, d)'
      BY <1>1, <2>2 DEF Pair
    <3>1. Pair(u, d)
      BY DEF AgreeInv
    <3>2. Allocated(ptr[u])'
      BY <1>3, <2>2
    <3>3. d = peer[u] => inv'[ptr[u]].game = inv[ptr[u]].game
      BY <2>2, <3>2
    <3> QED
      BY <1>1, <2>2, <3>1, <3>3 DEF Pair, Early
  <2> QED
    BY <2>1, <2>2
<1>6. ASSUME NEW d \in Client \ {c} PROVE Gone(d)' /\ AtWork(d)'
  <2>1. Gone(d)'
    <3> SUFFICES ASSUME pc[d] = "rmpeer" PROVE Gone(d)'
      BY <1>1 DEF Gone
    <3>1. ptr[d] \in Inv /\ ~Listed(d, ptr[d])
      BY DEF AgreeInv, Gone, ListInv, RefInv, Types, Control, Counting
    <3>2. ~\E k \in Slot : lst'[d][k] = ptr[d]
      BY <3>1 DEF Listed
    <3> QED
      BY <1>1, <3>2 DEF Gone, Listed
  <2>2. AtWork(d)'
    <3> SUFFICES ASSUME pc[d] \in Working PROVE AtWork(d)'
      BY <1>1 DEF AtWork, Working
    <3>1. ptr[d] \in Inv /\ pc[d] \in Counting
      BY DEF AgreeInv, ListInv, RefInv, Types, Control, Counting, Working
    <3>2. Allocated(ptr[d]) /\ inv'[ptr[d]].state \in {"open", "accepted", "closed"}
      BY <1>1, <1>2, <3>1 DEF NoDangling, Allocated
    <3>3. d \in Parties(ptr[d])
      BY DEF AgreeInv, AtWork, Working
    <3> QED
      BY <1>1, <3>1, <3>2, <3>3 DEF SameParties, Allocated, AtWork, Working, Parties
  <2> QED
    BY <2>1, <2>2
<1>7. ASSUME NEW j \in Inv PROVE Even(j)'
  <2>1. CASE j = i
    BY <2>1
  <2>2. CASE j # i
    <3> SUFFICES ASSUME NEW a \in Client, NEW b \in Client,
                        a \in Parties(j)', Listed(b, j)', ~Listed(a, j)'
                 PROVE  \/ pc'[a] = "rmpeer" /\ ptr'[a] = j
                        \/ pc'[b] \in {"addtgt", "undo"} /\ ptr'[b] = j
      BY DEF Even
    <3>1. Listed(b, j) /\ ~Listed(a, j)
      BY <2>2
    <3>2. Allocated(j)
      BY <3>1, ListedThere DEF AgreeInv
    <3>3. Allocated(j)'
      BY <1>2 DEF NoDangling, Listed, Allocated
    <3>4. a \in Parties(j)
      BY <3>2, <3>3 DEF SameParties, Parties
    <3>5. \/ pc[a] = "rmpeer" /\ ptr[a] = j
          \/ pc[b] \in {"addtgt", "undo"} /\ ptr[b] = j
      BY <3>1, <3>4 DEF AgreeInv, Even
    <3> QED
      BY <1>1, <2>2, <3>5
  <2> QED
    BY <2>1, <2>2
<1> QED
  BY <1>4, <1>5, <1>6, <1>7 DEF AgreeInv

-----------------------------------------------------------------------------
\* What a step of thread c may do with its pointer so that it does not get in
\* the way of a thread that is making an invitation: let go of it, read it
\* from its own list, or keep it while it is no further than the others may be.
Harmless(c) ==
    \/ ptr'[c] = NoInv
    \/ \E k \in Slot : ptr'[c] = lst[c][k]
    \/ /\ ptr'[c] = ptr[c]
       /\ \/ pc[c] \in Counting \cup Halfway /\ ~Early(c)
          \/ pc[c] \notin {"search", "drop"} /\ pc'[c] \notin Counting \ {"act"}
          \/ pc[c] = "search" /\ pc'[c] = "drop" /\ op' = op

LEMMA PairStep ==
    ASSUME AgreeInv, NEW c \in Client, Alone(c), SameGames,
           NEW u \in Client \ {c}, pc[u] \in Halfway => Allocated(ptr[u])',
           Harmless(c)
    PROVE  Pair(u, c)'
<1>1. pc'[u] = pc[u] /\ ptr'[u] = ptr[u] /\ peer'[u] = peer[u]
  BY DEF Alone
<1> SUFFICES ASSUME pc[u] \in Halfway, ptr'[c] = ptr[u]
             PROVE  Pair(u, c)'
  BY <1>1 DEF Pair
<1>2. ptr[u] \in Inv /\ Allocated(ptr[u]) /\ ~Listed(c, ptr[u])
  BY MakerThere, MakerAlone
<1>3. inv'[ptr[u]].game = inv[ptr[u]].game
  BY <1>1, <1>2 DEF SameGames, Allocated
<1>4. ptr'[c] = ptr[c]
  BY <1>2 DEF Listed, Harmless
<1>5. ptr[c] = ptr[u] /\ Pair(u, c)
  BY <1>4 DEF AgreeInv
<1>6. pc[c] \notin Halfway
  BY <1>5, MakersDiffer
<1>7. ~(pc[c] \in Counting \cup Halfway /\ ~Early(c))
  BY <1>5, <1>6 DEF Pair
<1>8. CASE pc[c] \notin {"search", "drop"} /\ pc'[c] \notin Counting \ {"act"}
  BY <1>1, <1>3, <1>4, <1>5, <1>8 DEF Pair, Early
<1>9. CASE pc[c] = "search" /\ op' = op /\ pc'[c] = "drop"
  <2>1. op[c] = "accept"
    BY <1>5, <1>9 DEF Pair, Early, Counting
  <2> QED
    BY <1>1, <1>3, <1>4, <1>5, <1>9, <2>1 DEF Pair, Early
<1> QED
  BY <1>2, <1>4, <1>7, <1>8, <1>9 DEF Listed, Harmless

\* A step that changes no list leaves its own invitation to whoever saw to it.
LEMMA EvenKept ==
    ASSUME AgreeInv, ListInv', NEW c \in Client, Apart(c), SameParties, UNCHANGED lst,
           pc[c] \in {"rmpeer", "addtgt", "undo"} =>
             \A d \in Client : ~Listed(d, ptr[c]),
           NEW i \in Inv, i = ptr[c]
    PROVE  Even(i)'
<1> SUFFICES ASSUME NEW a \in Client, NEW b \in Client,
                    a \in Parties(i)', Listed(b, i), ~Listed(a, i)
             PROVE  \/ pc'[a] = "rmpeer" /\ ptr'[a] = i
                    \/ pc'[b] \in {"addtgt", "undo"} /\ ptr'[b] = i
  BY DEF Even, Listed
<1>1. Allocated(i)
  BY ListedThere DEF AgreeInv
<1>2. NoDangling'
  <2>1. RefInv'
    BY DEF ListInv
  <2> QED
    BY <2>1, HeldIsThere, PTL
<1>3. Allocated(i)'
  BY <1>2 DEF NoDangling, Allocated, Listed
<1>4. a \in Parties(i)
  BY <1>1, <1>3 DEF SameParties, Parties
<1>5. \/ pc[a] = "rmpeer" /\ ptr[a] = i
      \/ pc[b] \in {"addtgt", "undo"} /\ ptr[b] = i
  BY <1>4 DEF AgreeInv, Even
<1> QED
  BY <1>5 DEF Apart, Alone

\* A step that changes no list, and makes or inserts nothing.
LEMMA AsideAgree ==
    ASSUME AgreeInv, ListInv', NEW c \in Client, Apart(c), SameParties, SameGames,
           UNCHANGED lst,
           pc[c] \in {"rmpeer", "addtgt", "undo"} =>
             \A d \in Client : ~Listed(d, ptr[c]),
           pc'[c] \notin Halfway, Gone(c)', AtWork(c)',
           Harmless(c)
    PROVE  AgreeInv'
<1> DEFINE i == ptr[c]
<1>1. \A d \in Client, j \in Inv \cup {NoInv} : Listed(d, j)' <=> Listed(d, j)
  BY DEF Listed
<1>2. ASSUME NEW u \in Client \ {c}, pc[u] \in Halfway
      PROVE  Allocated(ptr[u])' /\ ptr'[u] = ptr[u]
  BY <1>2, MakerStays DEF Apart, Alone, Listed
<1>3. \A u \in Client \ {c} : Pair(u, c)'
  BY <1>2, PairStep DEF Apart
<1>4. Made(c)' /\ \A d \in Client : Pair(c, d)'
  BY DEF Made, Pair
<1>5. \A u \in Client \ {c} : pc[u] \in Halfway => inv'[ptr[u]].game = inv[ptr[u]].game
  BY <1>2, MakerThere DEF SameGames, Allocated
<1>6. \A j \in Inv : j = i => Even(j)'
  BY EvenKept
<1> HIDE DEF i
<1> QED
  BY <1>1, <1>3, <1>4, <1>5, <1>6, AgreeStep DEF i, Listed

\* A list that loses an invitation has it no more.
LEMMA ErasedListed ==
    ASSUME ListInv, NEW p \in Client, NEW i \in Inv, NEW k \in Slot, Erase(p, i, k),
           NEW d \in Client, NEW j \in Inv
    PROVE  /\ Listed(p, i)
           /\ Listed(d, j)' <=> Listed(d, j) /\ ~(d = p /\ j = i)
<1>1. /\ lst \in [Client -> [Slot -> Inv \cup {NoInv}]] /\ i # NoInv /\ j # NoInv
      /\ lst[p][k] = i /\ lst' = [lst EXCEPT ![p][k] = NoInv]
  BY DEF ListInv, RefInv, Types, TypeOK, Erase, IsFirst
<1>2. \A n \in Slot : lst[p][n] = i => n = k
  BY <1>1 DEF ListInv, Once
<1>3. CASE d = p
  BY <1>1, <1>2, <1>3 DEF Listed
<1>4. CASE d # p
  BY <1>1, <1>4 DEF Listed
<1> QED
  BY <1>1, <1>3, <1>4 DEF Listed

\* A step that takes its invitation out of a list.
LEMMA ErasedAgree ==
    ASSUME AgreeInv, ListInv', NEW c \in Client, Apart(c), SameParties, SameGames,
           NEW i \in Inv, i = ptr[c], NEW p \in Client, NEW k \in Slot, Erase(p, i, k),
           pc'[c] \notin Halfway, Gone(c)', AtWork(c)', ptr'[c] \in {i, NoInv},
           \A u \in Client \ {c} : pc[u] \in Halfway => ptr[u] # i,
           \/ p = c /\ pc'[c] = "rmpeer" /\ ptr'[c] = i
           \/ \A d \in Client \ {p} : ~Listed(d, i)
    PROVE  AgreeInv'
<1>1. /\ Listed(p, i)
      /\ \A d \in Client, j \in Inv : Listed(d, j)' <=> Listed(d, j) /\ ~(d = p /\ j = i)
  BY ErasedListed DEF AgreeInv
<1>2. ASSUME NEW u \in Client \ {c}, pc[u] \in Halfway
      PROVE  Allocated(ptr[u])' /\ ptr'[u] = ptr[u] /\ ptr[u] \in Inv
  <2>1. pc'[u] = pc[u] /\ ptr'[u] = ptr[u] /\ ptr[u] \in Inv /\ ptr[u] # i
    BY <1>2, MakerThere DEF Apart, Alone
  <2>2. Listed(u, ptr[u]) => \E n \in Slot : lst'[u][n] = ptr[u]
    BY <1>1, <2>1 DEF Listed
  <2> QED
    BY <1>2, <2>1, <2>2, MakerStays
<1>3. ASSUME NEW u \in Client \ {c} PROVE Pair(u, c)'
  BY <1>2 DEF Pair, Apart, Alone
<1>4. Made(c)' /\ \A d \in Client : Pair(c, d)'
  BY DEF Made, Pair
<1>5. \A u \in Client \ {c} : pc[u] \in Halfway => inv'[ptr[u]].game = inv[ptr[u]].game
  BY <1>2, MakerThere DEF SameGames, Allocated
<1>6. Even(i)'
  <2> SUFFICES ASSUME NEW a \in Client, NEW b \in Client,
                      a \in Parties(i)', Listed(b, i)', ~Listed(a, i)'
               PROVE  pc'[a] = "rmpeer" /\ ptr'[a] = i
    BY DEF Even
  <2>1. Listed(b, i) /\ b # p
    BY <1>1
  <2>2. p = c /\ pc'[c] = "rmpeer" /\ ptr'[c] = i
    BY <2>1
  <2>3. Allocated(i) /\ b \in Parties(i) /\ c \in Parties(i)
    BY <1>1, <2>1, <2>2, ListedThere DEF AgreeInv
  <2>4. inv'[i].state \in {"open", "accepted", "closed"} /\ b \in Parties(i)'
    <3>1. RefInv' /\ Owned'
      BY DEF ListInv
    <3>2. NoDangling'
      BY <3>1, HeldIsThere, PTL
    <3> QED
      BY <3>1, <3>2 DEF Listed, Owned, NoDangling, Allocated
  <2>5. a \in Parties(i)
    BY <2>3, <2>4 DEF SameParties, Parties, Allocated
  <2> QED
    BY <2>1, <2>2, <2>3, <2>5 DEF Parties
<1> QED
  BY <1>1, <1>3, <1>4, <1>5, <1>6, AgreeStep

-----------------------------------------------------------------------------
\* What the steps of a thread leave alone.

LEMMA ReturnApart ==
    ASSUME Types, NEW c \in Client, NEW ok, Return(c, ok)
    PROVE  /\ Apart(c) /\ pc'[c] \in {"idle", "ack", "scan"}
           /\ ptr'[c] = NoInv /\ Harmless(c)
<1>1. Alone(c) /\ pc'[c] \in {"idle", "ack", "scan"}
  BY ReturnAlone, ReturnFrame
<1>2. ptr'[c] = NoInv /\ \A d \in Client \ {c} : op'[d] = op[d]
  BY DEF Return, ScanOn, Types, TypeOK
<1> QED
  BY <1>1, <1>2 DEF Apart, Harmless

LEMMA GotoApart ==
    ASSUME Types, NEW c \in Client, NEW p, Goto(c, p),
           ptr' = ptr \/ \E x : ptr' = [ptr EXCEPT ![c] = x],
           peer' = peer \/ \E x : peer' = [peer EXCEPT ![c] = x],
           op' = op \/ \E x : op' = [op EXCEPT ![c] = x]
    PROVE  Apart(c) /\ pc'[c] = p
<1>1. Alone(c) /\ pc'[c] = p
  BY GotoAlone
<1>2. \A d \in Client \ {c} : op'[d] = op[d]
  BY DEF Types, TypeOK
<1> QED
  BY <1>1, <1>2 DEF Apart

LEMMA DropGames ==
    ASSUME Types, NEW i \in Inv, NEW gain, NEW loss, DropInv(i, gain, loss)
    PROVE  SameGames
<1>1. inv' = inv \/ inv' = [inv EXCEPT ![i] = Released]
  BY DEF DropInv
<1>2. ~(Released.state \in {"open", "accepted", "closed"})
  BY DEF Released, Blank
<1> QED
  BY <1>1, <1>2 DEF SameGames, Allocated, Types, TypeOK

\* The early returns.
LEMMA GiveUpAgree ==
    ASSUME AgreeInv, ListInv', NEW c \in Client, pc[c] \in Counting, NEW loss,
           GiveUp(c, loss), UNCHANGED lst,
           pc[c] \in {"rmpeer", "addtgt"} => \A d \in Client : ~Listed(d, ptr[c])
    PROVE  AgreeInv'
<1>1. Types /\ ptr[c] \in Inv
  BY DEF AgreeInv, ListInv, RefInv, Types, Control
<1>2. /\ Apart(c) /\ pc'[c] \in {"idle", "ack", "scan"} /\ Harmless(c)
  BY <1>1, ReturnApart DEF GiveUp
<1>3. SameParties /\ SameGames
  BY <1>1, DropParties, DropGames DEF GiveUp
<1>4. pc'[c] \notin Halfway /\ Gone(c)' /\ AtWork(c)'
  BY <1>2 DEF Halfway, Gone, AtWork, Working
<1>5. pc[c] # "undo"
  BY DEF Counting
<1> QED
  BY <1>2, <1>3, <1>4, <1>5, AsideAgree

-----------------------------------------------------------------------------
\* The maker of an invitation.

LEMMA CreateAgree ==
    ASSUME AgreeInv, ListInv', NEW c \in Client, NEW i \in Inv, Create(c, i)
    PROVE  AgreeInv'
<1> Types
  BY DEF AgreeInv, ListInv, RefInv
<1>1. /\ Goto(c, "addsrc") /\ ptr' = [ptr EXCEPT ![c] = i] /\ peer' = peer
      /\ op' = op /\ lst' = lst /\ pc[c] = "create" /\ peer[c] # c
      /\ inv' = [inv EXCEPT ![i] = Fresh(c, peer[c])] /\ ~Allocated(i)
      /\ peer[c] \in Client
  BY DEF Create, At, Allocated, Types, Control
<1>2. Apart(c) /\ pc'[c] = "addsrc"
  BY <1>1, GotoApart
<1>3. ptr'[c] = i /\ inv'[i] = Fresh(c, peer[c]) /\ \A j \in Inv \ {i} : inv'[j] = inv[j]
  BY <1>1 DEF Types, TypeOK
<1>4. /\ Fresh(c, peer[c]).src = c /\ Fresh(c, peer[c]).tgt = peer[c]
      /\ Fresh(c, peer[c]).game = "none"
  BY DEF Fresh, Blank
<1>5. NoDangling
  BY HeldIsThere DEF AgreeInv, ListInv
<1>6. \A d \in Client : \A k \in Slot : lst[d][k] # i
  BY <1>1, <1>5 DEF NoDangling
<1>7. \A d \in Client : pc[d] \in Counting => ptr[d] # i
  BY <1>1, <1>5 DEF NoDangling, Allocated
<1>8. ASSUME NEW u \in Client \ {c}, pc[u] \in Halfway
      PROVE  /\ ptr[u] \in Inv /\ ptr[u] # i /\ pc'[u] = pc[u] /\ ptr'[u] = ptr[u]
  BY <1>1, <1>2, <1>8, MakerThere DEF Apart, Alone
<1>9. Made(c)'
  BY <1>1, <1>2, <1>3, <1>4, <1>6 DEF Made, Listed
<1>10. Gone(c)' /\ AtWork(c)'
  BY <1>2 DEF Gone, AtWork, Working
<1>11. ASSUME NEW d \in Client \ {c} PROVE Pair(c, d)' /\ Pair(d, c)'
  <2>1. Pair(d, c)'
    BY <1>2, <1>3, <1>8 DEF Pair, Apart, Alone
  <2>2. Pair(c, d)'
    BY <1>2, <1>3, <1>4, <1>7 DEF Pair, Apart, Alone
  <2> QED
    BY <2>1, <2>2
<1>12. SameParties
  BY <1>1, <1>3 DEF SameParties
<1>13. \A d \in Client, j \in Inv : Listed(d, j)' <=> Listed(d, j)
  BY <1>1 DEF Listed
<1>14. \A u \in Client \ {c} : pc[u] \in Halfway => inv'[ptr[u]].game = inv[ptr[u]].game
  BY <1>3, <1>8
<1>15. ASSUME NEW j \in Inv, j = ptr[c] PROVE Even(j)'
  <2>1. CASE j = i
    BY <1>1, <1>6, <2>1 DEF Even, Listed
  <2>2. CASE j # i
    <3>1. inv'[j] = inv[j] /\ Even(j)
      BY <1>3, <2>2 DEF AgreeInv
    <3> SUFFICES ASSUME NEW a \in Client, NEW b \in Client,
                        a \in Parties(j)', Listed(b, j)', ~Listed(a, j)'
                 PROVE  \/ pc'[a] = "rmpeer" /\ ptr'[a] = j
                        \/ pc'[b] \in {"addtgt", "undo"} /\ ptr'[b] = j
      BY DEF Even
    <3>2. \/ pc[a] = "rmpeer" /\ ptr[a] = j
          \/ pc[b] \in {"addtgt", "undo"} /\ ptr[b] = j
      BY <1>13, <3>1 DEF Even, Parties
    <3> QED
      BY <1>1, <1>2, <3>2 DEF Apart, Alone
  <2> QED
    BY <2>1, <2>2
<1>16. \A u \in Client \ {c} : pc[u] \in Halfway /\ ptr[u] = ptr[c] =>
         \A d \in Client : Listed(d, ptr[u])' <=> Listed(d, ptr[u])
  BY <1>8, <1>13 DEF Listed
<1> QED
  BY <1>1, <1>2, <1>9, <1>10, <1>11, <1>12, <1>13, <1>14, <1>15, <1>16, AgreeStep DEF Listed

\* The maker goes on with its invitation, whose parties and game are kept.
LEMMA InsertAgree ==
    ASSUME AgreeInv, ListInv', NEW c \in Client, AddToSource(c) \/ AddToTarget(c)
    PROVE  AgreeInv'
<1> Types
  BY DEF AgreeInv, ListInv, RefInv
<1> DEFINE i == ptr[c]
           p == IF pc[c] = "addsrc" THEN c ELSE peer[c]
<1>1. /\ pc[c] \in {"addsrc", "addtgt"}
      /\ Goto(c, IF pc[c] = "addsrc" THEN "addtgt" ELSE "drop")
      /\ ptr' = ptr /\ peer' = peer /\ op' = op /\ inv' = inv
      /\ op[c] = "invite"
  BY DEF AddToSource, AddToTarget, At, Types, Control
<1>2. Apart(c) /\ pc'[c] = IF pc[c] = "addsrc" THEN "addtgt" ELSE "drop"
  BY <1>1, GotoApart
<1>3. /\ i \in Inv /\ peer[c] \in Client /\ Parties(i) = {c, peer[c]}
      /\ inv[i].src = c /\ inv[i].tgt = peer[c] /\ peer[c] # c
      /\ ~Listed(peer[c], i) /\ (pc[c] = "addsrc" <=> ~Listed(c, i))
  BY <1>1, MakerThere DEF AgreeInv, Made, Halfway
<1>4. PICK k \in Slot : Insert(p, i, k)
  BY <1>1 DEF AddToSource, AddToTarget, At
<1>5. p \in Client /\ p \in {c, peer[c]}
  BY <1>3
<1>6. \A d \in Client, j \in Inv : Listed(d, j)' <=> Listed(d, j) \/ (d = p /\ j = i)
  <2>1. /\ lst \in [Client -> [Slot -> Inv \cup {NoInv}]]
        /\ lst[p][k] = NoInv /\ lst' = [lst EXCEPT ![p][k] = i]
    BY <1>4 DEF Types, TypeOK, Insert, IsFirst
  <2> HIDE DEF p, i
  <2> QED
    BY <1>3, <1>5, <2>1 DEF Listed
<1>7. ASSUME NEW u \in Client \ {c}, pc[u] \in Halfway PROVE ptr[u] # i
  BY <1>1, <1>7, MakersDiffer DEF Halfway
<1>8. Made(c)'
  BY <1>1, <1>2, <1>3, <1>6 DEF Made, Halfway, Listed
<1>9. Gone(c)' /\ AtWork(c)'
  BY <1>2 DEF Gone, AtWork, Working
<1>10. ASSUME NEW d \in Client \ {c} PROVE Pair(c, d)' /\ Pair(d, c)'
  <2>1. Pair(d, c)'
    BY <1>1, <1>2, <1>7 DEF Pair, Apart, Alone
  <2>2. Pair(c, d)
    BY DEF AgreeInv
  <2>3. Pair(c, d)'
    BY <1>1, <1>2, <2>2 DEF Pair, Apart, Alone, Halfway, Early
  <2> QED
    BY <2>1, <2>3
<1>11. ASSUME NEW d \in Client \ {c}, pc[d] = "rmpeer" PROVE ptr[d] # i
  <2>1. Pair(c, d)
    BY DEF AgreeInv
  <2> QED
    BY <1>1, <1>11, <2>1 DEF Pair, Halfway, Early, Counting
<1>12. Even(i)'
  <2> SUFFICES ASSUME NEW a \in Client, NEW b \in Client,
                      a \in {c, peer[c]}, Listed(b, i)', ~Listed(a, i)'
               PROVE  pc'[b] \in {"addtgt", "undo"} /\ ptr'[b] = i
    BY <1>1, <1>3 DEF Even, Parties
  <2>1. b = p \/ Listed(b, i)
    BY <1>1, <1>3, <1>6 DEF Listed
  <2>2. b = p \/ b \in Parties(i)
    <3> HIDE DEF i, p
    <3> QED
      BY <1>3, <2>1, ListedThere DEF AgreeInv
  <2> QED
    BY <1>1, <1>2, <1>3, <1>5, <1>6, <2>2
<1>13. SameParties
  BY <1>1 DEF SameParties
<1>14. \A d \in Client, j \in Inv \cup {NoInv} : j \in Inv /\ j # i =>
         (Listed(d, j)' <=> Listed(d, j))
  BY <1>6
<1> QED
  BY <1>1, <1>2, <1>3, <1>6, <1>7, <1>8, <1>9, <1>10, <1>11, <1>12, <1>13, AgreeStep

LEMMA TargetFullAgree ==
    ASSUME AgreeInv, ListInv', NEW c \in Client, TargetFull(c)
    PROVE  AgreeInv'
<1> Types
  BY DEF AgreeInv, ListInv, RefInv
<1> DEFINE i == ptr[c]
<1>1. /\ pc[c] = "addtgt" /\ Goto(c, "undo") /\ ptr' = ptr /\ peer' = peer
      /\ op' = op /\ lst' = lst /\ DropInv(i, NoClient, NoClient)
  BY DEF TargetFull, At
<1>2. Apart(c) /\ pc'[c] = "undo"
  BY <1>1, GotoApart
<1>3. /\ i \in Inv /\ peer[c] \in Client /\ Parties(i) = {c, peer[c]} /\ Allocated(i)
      /\ inv[i].src = c /\ inv[i].tgt = peer[c] /\ peer[c] # c
      /\ ~Listed(peer[c], i) /\ Listed(c, i)
  BY <1>1, MakerThere DEF AgreeInv, Made, Halfway
<1>4. SameParties /\ SameGames
  BY <1>1, <1>3, DropParties, DropGames
<1>5. NoDangling'
  <2>1. RefInv'
    BY DEF ListInv
  <2> QED
    BY <2>1, HeldIsThere, PTL
<1>6. ASSUME NEW u \in Client, pc[u] \in Halfway
      PROVE  ptr[u] \in Inv /\ inv'[ptr[u]].game = inv[ptr[u]].game /\ Allocated(ptr[u])'
  <2>1. ptr[u] \in Inv /\ Allocated(ptr[u])
    BY <1>6, MakerThere
  <2>2. Allocated(ptr[u])'
    <3>1. CASE u = c
      BY <1>1, <1>3, <1>5, <3>1 DEF Listed, NoDangling, Allocated
    <3>2. CASE u # c
      BY <1>1, <1>2, <1>6, <3>2, MakerStays DEF Apart, Alone, Listed
    <3> QED
      BY <3>1, <3>2
  <2> QED
    BY <1>1, <1>4, <2>1, <2>2 DEF SameGames, Allocated
<1>7. inv'[i].src = c /\ inv'[i].tgt = peer[c] /\ inv'[i].game = inv[i].game
  BY <1>1, <1>3, <1>4, <1>6 DEF SameParties, Halfway, Allocated
<1>8. \A d \in Client, j \in Inv : Listed(d, j)' <=> Listed(d, j)
  BY <1>1 DEF Listed
<1>9. Made(c)'
  BY <1>1, <1>2, <1>3, <1>7 DEF Made, Listed
<1>10. Gone(c)' /\ AtWork(c)'
  BY <1>2 DEF Gone, AtWork, Working
<1>11. ASSUME NEW d \in Client \ {c} PROVE Pair(c, d)' /\ Pair(d, c)'
  <2>1. Pair(c, d) /\ Pair(d, c) /\ (pc[d] \in Halfway => ptr[d] # i)
    BY <1>1, MakersDiffer DEF AgreeInv, Halfway
  <2>2. Pair(d, c)'
    BY <1>1, <1>2, <2>1 DEF Pair, Apart, Alone
  <2>3. Pair(c, d)'
    BY <1>1, <1>2, <1>7, <2>1 DEF Pair, Apart, Alone, Halfway, Early
  <2> QED
    BY <2>2, <2>3
<1>12. Even(i)'
  <2> SUFFICES ASSUME NEW a \in Client, NEW b \in Client,
                      a \in {c, peer[c]}, Listed(b, i), ~Listed(a, i)
               PROVE  pc'[b] \in {"addtgt", "undo"} /\ ptr'[b] = i
    BY <1>1, <1>3, <1>7, <1>8 DEF Even, Parties
  <2>1. b \in Parties(i)
    <3> HIDE DEF i
    <3> QED
      BY <1>3, ListedThere DEF AgreeInv
  <2> QED
    BY <1>1, <1>2, <1>3, <2>1
<1> HIDE DEF i
<1> QED
  BY <1>1, <1>2, <1>3, <1>4, <1>6, <1>8, <1>9, <1>10, <1>11, <1>12, AgreeStep DEF i, Listed

LEMMA UndoAgree ==
    ASSUME AgreeInv, ListInv', NEW c \in Client, Undo(c)
    PROVE  AgreeInv'
<1> Types
  BY DEF AgreeInv, ListInv, RefInv
<1>1. /\ pc[c] = "undo" /\ DropInv(ptr[c], NoClient, peer[c]) /\ Return(c, TRUE)
  BY DEF Undo, At
<1>2. PICK k \in Slot : Erase(c, ptr[c], k)
  BY DEF Undo
<1>3. ptr[c] \in Inv /\ \A d \in Client \ {c} : ~Listed(d, ptr[c])
  BY <1>1, MakerThere, MakerAlone DEF Halfway
<1>4. /\ Apart(c) /\ pc'[c] \in {"idle", "ack", "scan"} /\ ptr'[c] = NoInv
  BY <1>1, ReturnApart
<1>5. SameParties /\ SameGames
  BY <1>1, <1>3, DropParties, DropGames
<1>6. pc'[c] \notin Halfway /\ Gone(c)' /\ AtWork(c)'
  BY <1>4 DEF Halfway, Gone, AtWork, Working
<1>7. \A u \in Client \ {c} : pc[u] \in Halfway => ptr[u] # ptr[c]
  BY <1>1, MakersDiffer DEF Halfway
<1> QED
  BY <1>2, <1>3, <1>4, <1>5, <1>6, <1>7, ErasedAgree

LEMMA InviteAgree ==
    ASSUME AgreeInv, ListInv', NEW c \in Client, Invite(c)
    PROVE  AgreeInv'
<1> Types
  BY DEF AgreeInv, ListInv, RefInv
<1>1. CASE CreateFails(c)
  <2>1. pc[c] = "create" /\ Return(c, FALSE) /\ UNCHANGED <<lst, inv>>
    BY <1>1 DEF CreateFails, At
  <2>2. Apart(c) /\ pc'[c] \in {"idle", "ack", "scan"} /\ Harmless(c)
    BY <2>1, ReturnApart
  <2>3. pc'[c] \notin Halfway /\ Gone(c)' /\ AtWork(c)'
    BY <2>2 DEF Halfway, Gone, AtWork, Working
  <2>4. SameParties /\ SameGames
    BY <2>1 DEF SameParties, SameGames
  <2> QED
    BY <2>1, <2>2, <2>3, <2>4, AsideAgree
<1>2. CASE SourceFull(c)
  BY <1>2, GiveUpAgree DEF SourceFull, At, Counting
<1> QED
  BY <1>1, <1>2, CreateAgree, InsertAgree, TargetFullAgree, UndoAgree DEF Invite

-----------------------------------------------------------------------------
\* A request that may do something to its invitation does it.
LEMMA ActAgree ==
    ASSUME AgreeInv, ListInv', NEW c \in Client, Act(c)
    PROVE  AgreeInv'
<1> Types
  BY DEF AgreeInv, ListInv, RefInv
<1> DEFINE i == ptr[c]
<1>1. /\ pc[c] = "act" /\ May(c, i) /\ Effect(c, i) /\ Goto(c, AfterAct(op[c]))
      /\ ptr' = ptr /\ peer' = peer /\ op' = op /\ lst' = lst
  BY DEF Act, At
<1>2. Apart(c) /\ pc'[c] = AfterAct(op[c])
  BY <1>1, GotoApart
<1>3. i \in Inv /\ op[c] \in Request /\ Allocated(i)
  <2>1. NoDangling
    BY HeldIsThere DEF AgreeInv, ListInv
  <2> QED
    BY <1>1, <2>1 DEF Types, Control, Counting, NoDangling
<1>4. SameParties
  BY ChangingParties DEF Changing
<1>5. c \in Parties(i)
  BY <1>1 DEF May, Entitled, Parties
<1>6. op[c] \in {"resign", "move"} => inv[i].game = "running"
  BY <1>1 DEF May, MayResign, MayMove
<1>7. /\ \A j \in Inv \ {i} : inv'[j] = inv[j]
      /\ op[c] \in {"revoke", "decline"} => inv'[i].game = inv[i].game
  <2>1. inv \in [Inv -> InvRecord] /\ inv[i] \in InvRecord
    BY <1>3 DEF Types, TypeOK
  <2>2. PICK new : inv' = [inv EXCEPT ![i] = new]
    BY ChangesKeep DEF Changing
  <2>3. op[c] \in {"revoke", "decline"} => Becomes(i, [inv[i] EXCEPT !.state = "closed"])
    BY <1>1 DEF Effect
  <2>4. ASSUME NEW m, m = [inv[i] EXCEPT !.state = "closed"]
        PROVE  [m EXCEPT !.early = @ \/ ~Shared(i)].game = inv[i].game
    BY <2>1, <2>4 DEF InvRecord
  <2> HIDE DEF i
  <2>5. ASSUME op[c] \in {"revoke", "decline"}
        PROVE  inv'[i] = [[inv[i] EXCEPT !.state = "closed"] EXCEPT !.early = @ \/ ~Shared(i)]
    BY <1>3, <2>1, <2>3, <2>5, Zenon DEF Becomes
  <2> QED
    BY <1>3, <2>1, <2>2, <2>4, <2>5
<1>8. ASSUME NEW u \in Client \ {c}, pc[u] \in Halfway
      PROVE  /\ ptr[u] \in Inv /\ (ptr[u] = i => c = peer[u])
             /\ c = peer[u] \/ inv'[ptr[u]].game = inv[ptr[u]].game
  BY <1>5, <1>7, <1>8, MakerThere
<1>9. ASSUME NEW u \in Client \ {c} PROVE Pair(u, c)'
  <2> SUFFICES ASSUME pc[u] \in Halfway, i = ptr[u] PROVE Pair(u, c)'
    BY <1>1, <1>2 DEF Pair, Apart, Alone
  <2>1. c = peer[u] /\ Pair(u, c)
    BY <1>8 DEF AgreeInv
  <2>2. inv[i].game = "none"
    BY <1>1, <2>1 DEF Pair
  <2>3. CASE op[c] \in {"revoke", "decline"}
    BY <1>1, <1>2, <1>7, <2>2, <2>3 DEF Pair, Apart, Alone, Early, AfterAct
  <2>4. CASE op[c] = "accept"
    BY <1>1, <1>2, <2>4 DEF Pair, Apart, Alone, Early, AfterAct
  <2> QED
    BY <1>3, <1>6, <2>2, <2>3, <2>4 DEF Request, Closing
<1>10. Made(c)' /\ Gone(c)' /\ \A d \in Client : Pair(c, d)'
  BY <1>2 DEF Made, Gone, Pair, Halfway, AfterAct
<1>11. AtWork(c)'
  <2>1. NoDangling'
    <3>1. RefInv'
      BY DEF ListInv
    <3> QED
      BY <3>1, HeldIsThere, PTL
  <2>2. Allocated(i)'
    BY <1>1, <1>2, <2>1 DEF NoDangling, Counting, Allocated, AfterAct
  <2> QED
    BY <1>1, <1>3, <1>4, <1>5, <2>2 DEF AtWork, Working, SameParties, Parties, Allocated
<1>12. \A d \in Client : \A j : Listed(d, j)' <=> Listed(d, j)
  BY <1>1 DEF Listed
<1>13. \A j \in Inv : j = i => Even(j)'
  BY <1>1, <1>2, <1>4, EvenKept
<1> HIDE DEF i
<1> QED
  BY <1>2, <1>3, <1>4, <1>8, <1>9, <1>10, <1>11, <1>12, <1>13, AgreeStep DEF i

\* A party goes on with its resignation or its move, of an invitation that
\* is not being made any more.
LEMMA OnwardAgree ==
    ASSUME AgreeInv, ListInv', NEW c \in Client,
           Resign(c) \/ Close(c) \/ Place(c) \/ Finish(c)
    PROVE  AgreeInv'
<1> Types
  BY DEF AgreeInv, ListInv, RefInv
<1> DEFINE i == ptr[c]
<1>1. /\ pc[c] \in {"resign", "close", "place", "finish"} /\ i \in Inv
      /\ UNCHANGED <<ptr, peer, op, lst>> /\ ~Early(c)
  BY DEF Resign, Close, Place, Finish, At, Types, Control, Counting, Early
<1>2. PICK new : inv' = [inv EXCEPT ![i] = new]
  BY ChangesKeep DEF Changing
<1>3. PICK q \in {"close", "rmown", "finish", "search"} : Goto(c, q)
  BY DEF Resign, Close, Place, Finish
<1>4. Apart(c) /\ pc'[c] = q
  BY <1>1, <1>3, GotoApart
<1>5. SameParties
  BY ChangingParties DEF Changing
<1>6. ASSUME NEW u \in Client \ {c}, pc[u] \in Halfway
      PROVE  ptr[u] \in Inv /\ ptr[u] # i
  <2>1. Pair(u, c) /\ ptr[u] \in Inv
    BY <1>6, MakerThere DEF AgreeInv
  <2> QED
    BY <1>1, <1>6, <2>1 DEF Pair, Counting
<1>7. \A u \in Client \ {c} : pc[u] \in Halfway => inv'[ptr[u]] = inv[ptr[u]]
  BY <1>1, <1>2, <1>6 DEF Types, TypeOK
<1>8. Made(c)' /\ Gone(c)' /\ \A d \in Client : Pair(c, d)'
  BY <1>4 DEF Made, Gone, Pair, Halfway
<1>9. \A u \in Client \ {c} : Pair(u, c)'
  BY <1>1, <1>4, <1>6 DEF Pair, Apart, Alone
<1>10. AtWork(c)'
  <2>1. NoDangling /\ NoDangling'
    <3>1. RefInv /\ RefInv'
      BY DEF ListInv, AgreeInv
    <3> QED
      BY <3>1, HeldIsThere, PTL
  <2>2. Allocated(i) /\ Allocated(i)'
    BY <1>1, <1>4, <2>1 DEF NoDangling, Counting, Allocated
  <2>3. c \in Parties(i)
    BY <1>1 DEF AgreeInv, AtWork, Working
  <2> QED
    BY <1>1, <1>5, <2>2, <2>3 DEF AtWork, SameParties, Parties, Allocated
<1>11. \A d \in Client : \A j : Listed(d, j)' <=> Listed(d, j)
  BY <1>1 DEF Listed
<1>12. \A j \in Inv : j = i => Even(j)'
  BY <1>1, <1>4, <1>5, EvenKept
<1> HIDE DEF i
<1> QED
  BY <1>4, <1>5, <1>7, <1>8, <1>9, <1>10, <1>11, <1>12, AgreeStep DEF i

\* What the scans of the code find is what is listed.
LEMMA ScansFind ==
    ASSUME ListInv, NEW c \in Client, NEW i \in Inv
    PROVE  InList(c, i) <=> Listed(c, i)
<1>1. ASSUME NEW k \in Slot, lst[c][k] = i PROVE len[c] # 0
  <2>1. k \in Filled(c)
    BY <1>1 DEF Filled
  <2>2. Cardinality(Filled(c)) # 0
    BY <2>1, FilledFinite, FS_EmptySet
  <2> QED
    BY <2>2 DEF ListInv, Counted
<1> QED
  BY <1>1 DEF InList, Listed

\* Only the two parties list an invitation.
LEMMA OnlyParties ==
    ASSUME AgreeInv, NEW c \in Client, pc[c] \in {"rmown", "rmpeer"}, NEW d \in Client,
           Listed(d, ptr[c])
    PROVE  d \in {c, Opponent(ptr[c], c)}
<1>1. ptr[c] \in Inv
  BY DEF AgreeInv, ListInv, RefInv, Types, Control, Counting
<1>2. d \in Parties(ptr[c]) /\ c \in Parties(ptr[c])
  BY <1>1, ListedThere DEF AgreeInv, AtWork, Working
<1> QED
  BY <1>2 DEF Parties, Opponent

LEMMA EraseOwnAgree ==
    ASSUME AgreeInv, ListInv', NEW c \in Client, EraseOwn(c)
    PROVE  AgreeInv'
<1> Types
  BY DEF AgreeInv, ListInv, RefInv
<1>1. /\ pc[c] = "rmown" /\ DropInv(ptr[c], NoClient, NoClient) /\ Goto(c, "rmpeer")
      /\ ptr' = ptr /\ peer' = peer /\ op' = op
  BY DEF EraseOwn, At
<1>2. PICK k \in Slot : Erase(c, ptr[c], k)
  BY DEF EraseOwn
<1>3. Apart(c) /\ pc'[c] = "rmpeer"
  BY <1>1, GotoApart
<1>4. ptr[c] \in Inv /\ c \in Parties(ptr[c])
  BY <1>1 DEF Types, Control, Counting, AgreeInv, AtWork, Working
<1>5. SameParties /\ SameGames
  BY <1>1, <1>4, DropParties, DropGames
<1>6. /\ Listed(c, ptr[c]) /\ Allocated(ptr[c])
      /\ \A j \in Inv : j = ptr[c] => ~Listed(c, j)'
  BY <1>2, <1>4, ErasedListed, ListedThere DEF AgreeInv
<1>7. Gone(c)'
  BY <1>1, <1>4, <1>6 DEF Gone, Listed
<1>8. AtWork(c)'
  <2>1. NoDangling'
    <3>1. RefInv'
      BY DEF ListInv
    <3> QED
      BY <3>1, HeldIsThere, PTL
  <2>2. Allocated(ptr[c])'
    BY <1>1, <1>3, <2>1 DEF NoDangling, Counting, Allocated
  <2> QED
    BY <1>1, <1>4, <1>5, <1>6, <2>2 DEF AtWork, Working, SameParties, Parties, Allocated
<1>9. \A u \in Client \ {c} : pc[u] \in Halfway => ptr[u] # ptr[c]
  BY <1>6, MakerAlone
<1>10. pc'[c] \notin Halfway
  BY <1>3 DEF Halfway
<1> QED
  BY <1>1, <1>2, <1>3, <1>4, <1>5, <1>7, <1>8, <1>9, <1>10, ErasedAgree

LEMMA ErasePeerAgree ==
    ASSUME AgreeInv, ListInv', NEW c \in Client, ErasePeer(c)
    PROVE  AgreeInv'
<1> Types
  BY DEF AgreeInv, ListInv, RefInv
<1> DEFINE p == Opponent(ptr[c], c)
<1>1. pc[c] = "rmpeer" /\ ptr' = ptr /\ op' = op /\ peer' = [peer EXCEPT ![c] = p]
  BY DEF ErasePeer, At
<1>2. PICK k \in Slot : Erase(p, ptr[c], k)
  BY DEF ErasePeer
<1>3. PICK gain : DropInv(ptr[c], gain, NoClient)
  BY DEF ErasePeer
<1>4. PICK q \in {"post", "drop"} : Goto(c, q)
  BY DEF ErasePeer
<1>5. ptr[c] \in Inv /\ p \in Client
  <2>1. ptr[c] \in Inv /\ Holds(c, ptr[c])
    BY <1>1 DEF Types, Control, Counting, Holds
  <2> QED
    BY <2>1, HeldAllocated DEF AgreeInv, ListInv, RefInv, Named, Opponent
<1>6. \A d \in Client \ {p} : ~Listed(d, ptr[c])
  BY <1>1, OnlyParties DEF AgreeInv, Gone
<1> HIDE DEF p
<1>7. Apart(c) /\ pc'[c] = q
  BY <1>1, <1>4, GotoApart
<1>8. SameParties /\ SameGames
  BY <1>3, <1>5, DropParties, DropGames
<1>9. pc'[c] \notin Halfway /\ Gone(c)' /\ AtWork(c)'
  BY <1>7 DEF Halfway, Gone, AtWork, Working
<1>10. \A u \in Client \ {c} : pc[u] \in Halfway => ptr[u] # ptr[c]
  BY <1>1 DEF AgreeInv, Pair, Early, Counting
<1> QED
  BY <1>1, <1>2, <1>5, <1>6, <1>7, <1>8, <1>9, <1>10, ErasedAgree

LEMMA RemovedAgree ==
    ASSUME AgreeInv, ListInv', NEW c \in Client, OwnGone(c) \/ PeerGone(c)
    PROVE  AgreeInv'
<1> Types
  BY DEF AgreeInv, ListInv, RefInv
<1>1. /\ lst' = lst /\ ptr[c] \in Inv /\ pc[c] \in Counting
      /\ pc[c] \in {"rmown", "rmpeer"}
  BY DEF OwnGone, PeerGone, At, Types, Control, Counting
<1>2. ~Listed(c, ptr[c])
  <2>1. CASE OwnGone(c)
    BY <1>1, <2>1, ScansFind DEF OwnGone, AgreeInv
  <2>2. CASE PeerGone(c)
    BY <2>2 DEF PeerGone, At, AgreeInv, Gone
  <2> QED
    BY <2>1, <2>2
<1>3. pc[c] = "rmpeer" => \A d \in Client : ~Listed(d, ptr[c])
  <2> SUFFICES ASSUME pc[c] = "rmpeer", NEW d \in Client, Listed(d, ptr[c])
               PROVE  FALSE
    OBVIOUS
  <2>1. d = Opponent(ptr[c], c)
    BY <1>2, OnlyParties
  <2>2. ~InList(Opponent(ptr[c], c), ptr[c])
    BY DEF OwnGone, PeerGone, At
  <2>3. ~InList(d, ptr[c])
    BY <2>1, <2>2
  <2> QED
    BY <1>1, <2>3, ScansFind DEF AgreeInv
<1>4. CASE op[c] = "move"
  <2>1. PICK q \in {"rmpeer", "post"} : Goto(c, q)
    BY <1>4 DEF OwnGone, PeerGone
  <2>2. UNCHANGED <<inv, op, ptr, peer>>
    BY <1>4 DEF OwnGone, PeerGone
  <2>3. Apart(c) /\ pc'[c] = q
    BY <2>1, <2>2, GotoApart
  <2>4. SameParties /\ SameGames
    BY <2>2 DEF SameParties, SameGames
  <2>5. pc'[c] \notin Halfway /\ Gone(c)' /\ AtWork(c)'
    BY <1>1, <1>2, <2>2, <2>3 DEF Halfway, Gone, AtWork, Working, Listed, Parties, AgreeInv
  <2>6. Harmless(c)
    BY <1>1, <1>4, <2>2 DEF Harmless, Early
  <2>7. pc[c] \in {"rmpeer", "addtgt", "undo"} => \A d \in Client : ~Listed(d, ptr[c])
    BY <1>1, <1>3
  <2> QED
    BY <1>1, <2>3, <2>4, <2>5, <2>6, <2>7, AsideAgree
<1>5. CASE op[c] # "move"
  <2>1. GiveUp(c, NoClient)
    BY <1>5 DEF OwnGone, PeerGone
  <2>2. pc[c] \in {"rmpeer", "addtgt"} => \A d \in Client : ~Listed(d, ptr[c])
    BY <1>1, <1>3
  <2> QED
    BY <1>1, <2>1, <2>2, GiveUpAgree
<1> QED
  BY <1>4, <1>5

\* A step that changes neither a list nor a game, nor a place that matters.
LEMMA QuietStep ==
    ASSUME AgreeInv, ListInv', NEW c \in Client, Apart(c), SameParties, SameGames,
           UNCHANGED lst, Harmless(c), pc[c] \notin {"rmpeer", "addtgt", "undo"},
           pc'[c] \notin Halfway \cup Working
    PROVE  AgreeInv'
<1>1. Gone(c)' /\ AtWork(c)'
  BY DEF Gone, AtWork, Working
<1> QED
  BY <1>1, AsideAgree

LEMMA ServeAgree ==
    ASSUME AgreeInv, ListInv', NEW c \in Client, Serve(c)
    PROVE  AgreeInv'
<1> Types
  BY DEF AgreeInv, ListInv, RefInv
<1> USE DEF At
<1>1. CASE Take(c)
  <2>1. UNCHANGED <<lst, inv, ptr, peer, op>> /\ pc[c] = "peeked"
        /\ (pc' = pc \/ Goto(c, "act"))
    BY <1>1 DEF Take
  <2>2. Apart(c) /\ pc'[c] \in {"peeked", "act"}
    <3>1. CASE pc' = pc
      BY <2>1, <3>1 DEF Apart, Alone
    <3>2. CASE Goto(c, "act")
      BY <2>1, <3>2, GotoApart
    <3> QED
      BY <2>1, <3>1, <3>2
  <2>3. Harmless(c)
    BY <2>1, <2>2 DEF Harmless, Counting
  <2>4. SameParties /\ SameGames
    BY <2>1 DEF SameParties, SameGames
  <2> QED
    BY <2>1, <2>2, <2>3, <2>4, QuietStep DEF Halfway, Working
<1>2. CASE Refuse(c) \/ RefuseMove(c) \/ SearchFails(c)
  BY <1>2, GiveUpAgree DEF Refuse, RefuseMove, SearchFails, Counting
<1>3. CASE Search(c)
  <2>1. /\ UNCHANGED <<lst, inv, ptr, op>> /\ pc[c] = "search"
        /\ Goto(c, IF op[c] = "move" THEN "over" ELSE "drop")
    BY <1>3 DEF Search
  <2>2. Apart(c) /\ pc'[c] = IF op[c] = "move" THEN "over" ELSE "drop"
    BY <1>3, <2>1, GotoApart DEF Search
  <2>3. Harmless(c)
    BY <2>1, <2>2 DEF Harmless, Early, Counting
  <2>4. SameParties /\ SameGames
    BY <2>1 DEF SameParties, SameGames
  <2>5. pc'[c] \notin Halfway /\ Gone(c)' /\ AtWork(c)'
    BY <2>1, <2>2 DEF Halfway, Gone, AtWork, Working, AgreeInv, Parties
  <2> QED
    BY <2>1, <2>2, <2>3, <2>4, <2>5, AsideAgree
<1>4. CASE CheckOver(c)
  <2>1. UNCHANGED lst /\ ptr[c] \in Inv /\ pc[c] = "over"
    BY <1>4 DEF CheckOver, Types, Control, Counting
  <2>2. CASE inv[ptr[c]].game = "over"
    <3>1. Goto(c, "rmown") /\ UNCHANGED <<inv, ptr, peer, op>>
      BY <1>4, <2>2 DEF CheckOver
    <3>2. Apart(c) /\ pc'[c] = "rmown"
      BY <3>1, GotoApart
    <3>3. Harmless(c)
      BY <2>1, <3>1 DEF Harmless, Early, Counting
    <3>4. SameParties /\ SameGames
      BY <3>1 DEF SameParties, SameGames
    <3>5. pc'[c] \notin Halfway /\ Gone(c)' /\ AtWork(c)'
      BY <2>1, <3>1, <3>2 DEF Halfway, Gone, AtWork, Working, AgreeInv, Parties
    <3> QED
      BY <2>1, <3>2, <3>3, <3>4, <3>5, AsideAgree
  <2>3. CASE inv[ptr[c]].game # "over"
    <3>1. DropInv(ptr[c], NoClient, peer[c]) /\ Return(c, TRUE)
      BY <1>4, <2>3 DEF CheckOver
    <3>2. Apart(c) /\ pc'[c] \in {"idle", "ack", "scan"} /\ Harmless(c)
      BY <3>1, ReturnApart
    <3>3. SameParties /\ SameGames
      BY <2>1, <3>1, DropParties, DropGames
    <3> QED
      BY <2>1, <3>2, <3>3, QuietStep DEF Halfway, Working
  <2> QED
    BY <2>2, <2>3
<1>5. CASE Post(c)
  <2>1. Goto(c, "drop") /\ UNCHANGED <<lst, ptr, peer, op>> /\ pc[c] = "post"
    BY <1>5 DEF Post
  <2>2. Apart(c) /\ pc'[c] = "drop"
    BY <2>1, GotoApart
  <2>3. Harmless(c)
    BY <2>1 DEF Harmless, Early, Counting
  <2>4. SameGames
    <3>1. inv \in [Inv -> InvRecord] /\ ptr[c] \in Inv
      BY <2>1 DEF Types, TypeOK, Control, Counting
    <3> DEFINE new == [inv[ptr[c]] EXCEPT !.posted = @ + 1]
    <3>2. new.game = inv[ptr[c]].game
      BY <3>1 DEF InvRecord
    <3>3. inv' \in {inv, [inv EXCEPT ![ptr[c]] = new]}
      BY <1>5 DEF Post
    <3> HIDE DEF new
    <3> QED
      BY <3>1, <3>2, <3>3 DEF SameGames
  <2>5. SameParties
    BY <1>5, ChangingParties DEF Changing
  <2> QED
    BY <2>1, <2>2, <2>3, <2>4, <2>5, QuietStep DEF Halfway, Working
<1>6. CASE Drop(c)
  <2>1. UNCHANGED lst /\ ptr[c] \in Inv /\ pc[c] = "drop"
    BY <1>6 DEF Drop, Types, Control, Counting
  <2>2. PICK loss : DropInv(ptr[c], NoClient, loss)
    BY <1>6 DEF Drop
  <2>3. SameParties /\ SameGames
    BY <2>1, <2>2, DropParties, DropGames
  <2>4. Apart(c) /\ pc'[c] \in {"idle", "ack", "scan", "notify"} /\ Harmless(c)
    <3>1. CASE op[c] \in {"move", "resign"}
      BY <1>6, <3>1, ReturnApart DEF Drop
    <3>2. CASE op[c] \notin {"move", "resign"}
      <4>1. /\ Goto(c, "notify") /\ ptr' = [ptr EXCEPT ![c] = NoInv]
            /\ peer' = peer /\ op' = op
        BY <1>6, <3>2 DEF Drop
      <4>2. Apart(c) /\ pc'[c] = "notify"
        BY <4>1, GotoApart, Zenon
      <4>3. ptr'[c] = NoInv
        BY <4>1 DEF Types, TypeOK
      <4> QED
        BY <4>2, <4>3 DEF Harmless
    <3> QED
      BY <3>1, <3>2
  <2> QED
    BY <2>1, <2>3, <2>4, QuietStep DEF Halfway, Working
<1>7. CASE Notify(c)
  <2>1. PICK ok : Return(c, ok)
    BY <1>7 DEF Notify
  <2>2. Apart(c) /\ pc'[c] \in {"idle", "ack", "scan"} /\ Harmless(c)
    BY <2>1, ReturnApart
  <2>3. SameParties /\ SameGames
    BY <1>7 DEF Notify, SameParties, SameGames
  <2> QED
    BY <1>7, <2>2, <2>3, QuietStep DEF Notify, Halfway, Working
<1>8. CASE Ack(c)
  <2>1. /\ Goto(c, "idle") /\ UNCHANGED <<lst, inv, ptr, peer>> /\ pc[c] = "ack"
        /\ op' = [op EXCEPT ![c] = "none"]
    BY <1>8 DEF Ack, objects
  <2>2. Apart(c) /\ pc'[c] = "idle"
    BY <2>1, GotoApart, Zenon
  <2>3. Harmless(c) /\ SameParties /\ SameGames
    BY <2>1, <2>2 DEF Harmless, Counting, SameParties, SameGames
  <2> QED
    BY <2>1, <2>2, <2>3, QuietStep DEF Halfway, Working
<1> QED
  BY <1>1, <1>2, <1>3, <1>4, <1>5, <1>6, <1>7, <1>8,
     ActAgree, OnwardAgree, EraseOwnAgree, ErasePeerAgree, RemovedAgree DEF Serve

\* A request arrives, or the thread logs out.
Elsewhere == {"create", "peeked", "idle", "ack", "scan", "unregister", "gone"}

LEMMA OtherApart ==
    ASSUME Types, NEW c \in Client, Arrive(c) \/ Logout(c)
    PROVE  /\ UNCHANGED <<lst, inv>> /\ Apart(c) /\ Harmless(c)
           /\ pc[c] \in {"idle", "scan", "unregister"} /\ pc'[c] \in Elsewhere
<1> USE DEF At
<1>1. UNCHANGED <<lst, inv>>
  BY DEF Arrive, Lookup, Ask, Logout, Leave, ScanEmpty, ScanPeek, LoggedOut,
         Unregister, objects
<1>2. pc[c] \in {"idle", "scan", "unregister"}
  BY DEF Arrive, Lookup, Ask, Logout, Leave, ScanEmpty, ScanPeek, LoggedOut, Unregister
<1>3. Apart(c) /\ pc'[c] \in Elsewhere /\ Harmless(c)
  <2>1. ASSUME NEW p \in Elsewhere, Goto(c, p),
               ptr' = ptr \/ \E k \in Slot : ptr' = [ptr EXCEPT ![c] = lst[c][k]],
               peer' = peer \/ \E x : peer' = [peer EXCEPT ![c] = x],
               op' = op \/ \E x : op' = [op EXCEPT ![c] = x]
        PROVE  Apart(c) /\ pc'[c] \in Elsewhere /\ Harmless(c)
    <3>1. Apart(c) /\ pc'[c] = p
      BY <2>1, GotoApart, Zenon
    <3>2. ptr'[c] = ptr[c] \/ \E k \in Slot : ptr'[c] = lst[c][k]
      BY <2>1 DEF Types, TypeOK
    <3>3. pc[c] \notin {"search", "drop"} /\ p \notin Counting \ {"act"}
      BY <1>2 DEF Counting, Elsewhere
    <3> QED
      BY <3>1, <3>2, <3>3 DEF Harmless
  <2>2. /\ "create" \in Elsewhere /\ "peeked" \in Elsewhere /\ "scan" \in Elsewhere
        /\ "unregister" \in Elsewhere /\ "gone" \in Elsewhere
    BY DEF Elsewhere
  <2>3. ASSUME NEW t \in Client, Lookup(c, t)
        PROVE  Apart(c) /\ pc'[c] \in Elsewhere /\ Harmless(c)
    BY <2>1, <2>2, <2>3 DEF Lookup
  <2>4. ASSUME NEW o \in Request, NEW k \in Slot, Ask(c, o, k)
        PROVE  Apart(c) /\ pc'[c] \in Elsewhere /\ Harmless(c)
    BY <2>1, <2>2, <2>4 DEF Ask
  <2>5. CASE ScanPeek(c)
    BY <2>1, <2>2, <2>5 DEF ScanPeek
  <2>6. CASE Leave(c) \/ LoggedOut(c) \/ Unregister(c)
    BY <2>1, <2>2, <2>6 DEF Leave, LoggedOut, Unregister
  <2>7. CASE ScanEmpty(c)
    BY <2>7, ReturnApart DEF ScanEmpty, Elsewhere
  <2> QED
    BY <2>3, <2>4, <2>5, <2>6, <2>7 DEF Arrive, Logout
<1> QED
  BY <1>1, <1>2, <1>3

LEMMA OtherAgree ==
    ASSUME AgreeInv, ListInv', NEW c \in Client, Arrive(c) \/ Logout(c)
    PROVE  AgreeInv'
<1>1. /\ UNCHANGED <<lst, inv>> /\ Apart(c) /\ Harmless(c)
      /\ pc[c] \in {"idle", "scan", "unregister"} /\ pc'[c] \in Elsewhere
  BY OtherApart DEF AgreeInv, ListInv, RefInv
<1>2. SameParties /\ SameGames
  BY <1>1 DEF SameParties, SameGames
<1> QED
  BY <1>1, <1>2, QuietStep DEF Halfway, Working, Elsewhere

LEMMA AgreeInit == Init => AgreeInv
<1> SUFFICES ASSUME Init PROVE AgreeInv
  OBVIOUS
<1>1. ListInv
  BY ListsInit
<1>2. \A c \in Client : pc[c] = "idle" /\ \A i \in Inv : ~Listed(c, i)
  BY DEF Init, Listed
<1> QED
  BY <1>1, <1>2 DEF AgreeInv, Made, Gone, AtWork, Working, Pair, Even, Halfway

LEMMA AgreeNext == AgreeInv /\ [Next]_vars => AgreeInv'
<1> SUFFICES ASSUME AgreeInv, [Next]_vars PROVE AgreeInv'
  OBVIOUS
<1>1. ListInv'
  BY ListsStep DEF AgreeInv
<1>2. CASE UNCHANGED vars \/ \E c \in Client : Disconnect(c)
  <2>1. UNCHANGED <<objects, threads>>
    BY <1>2 DEF vars, Disconnect
  <2> QED
    BY <1>1, <2>1 DEF objects, threads, AgreeInv, Made, Gone, AtWork, Working, Pair, Early, Even,
                      Listed, Parties
<1>3. ASSUME NEW c \in Client, Arrive(c) \/ Work(c) PROVE AgreeInv'
  BY <1>1, <1>3, InviteAgree, ServeAgree, OtherAgree DEF Work
<1> QED
  BY <1>2, <1>3 DEF Next, Halted

\* When no request is being served, an invitation is in both lists or in
\* neither, whatever requests, early returns and logouts went before
\* (client_make_invitation and its undoing of a half-made invitation, the two
\* client_remove_invitation calls of every request that ends one).
THEOREM ListsComeToAgree == Spec => []ListsAgree
<1>1. AgreeInv => ListsAgree
  <2> SUFFICES ASSUME AgreeInv, Quiet, NEW i \in Inv, Allocated(i),
                      NEW c \in Parties(i), NEW d \in Parties(i), InList(d, i)
               PROVE  InList(c, i)
    BY DEF ListsAgree
  <2>1. c \in Client /\ d \in Client
    BY DEF AgreeInv, ListInv, RefInv, Named, Parties
  <2>2. pc[c] \in {"idle", "gone"} /\ pc[d] \in {"idle", "gone"}
    BY <2>1 DEF Quiet
  <2> QED
    BY <2>1, <2>2, ScansFind DEF AgreeInv, Even
<1> QED
  BY <1>1, AgreeInit, AgreeNext, PTL DEF Spec
=============================================================================
