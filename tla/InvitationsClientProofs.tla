----------------------- MODULE InvitationsClientProofs -----------------------
(***************************************************************************)
(* The CLIENT objects: their lists are sound and their reference counts    *)
(* exact, for any number of clients and invitations, lists of any length   *)
(* and either allocator.                                                   *)
(*                                                                         *)
(* Lists: an invitation enters a list only by the hand of the one thread   *)
(* that made it, which knows that it is not there yet; everybody else only *)
(* takes invitations out.  That no other thread makes the same one follows *)
(* from its source, and that a listed one keeps its parties from the exact *)
(* reference counts of invitations.                                        *)
(*                                                                         *)
(* Counts: every step changes the count of a client by what it changes in  *)
(* the parties of invitations and in the peer of its own thread.           *)
(***************************************************************************)
EXTENDS InvitationsProofs

USE ClientAssumption, InvAssumption, CapAssumption

-----------------------------------------------------------------------------
\* Where a thread has an invitation of its own making still to insert.
Inserting == {"addsrc", "addtgt"}

Making(c) == pc[c] \in Inserting =>
    /\ inv[ptr[c]].src = c /\ inv[ptr[c]].tgt = peer[c] /\ peer[c] # c
    /\ \A k \in Slot : lst[peer[c]][k] # ptr[c]
    /\ pc[c] = "addsrc" => \A k \in Slot : lst[c][k] # ptr[c]

\* The three parts of ListsSound.
Filled(c) == {k \in Slot : lst[c][k] # NoInv}

Owned == \A c \in Client, k \in Slot :
    lst[c][k] # NoInv => c \in Parties(lst[c][k])

Once == \A c \in Client : \A j, k \in Slot :
    lst[c][j] = lst[c][k] => j = k \/ lst[c][j] = NoInv

Counted == \A c \in Client : len[c] = Cardinality(Filled(c))

ListInv == RefInv /\ Owned /\ Once /\ Counted /\ \A c \in Client : Making(c)

LEMMA ListInvSound == ListInv => ListsSound
BY DEF ListInv, Owned, Once, Counted, Filled, ListsSound

\* A step of thread c: nothing of another thread changes.
Alone(c) == \A d \in Client \ {c} :
    pc'[d] = pc[d] /\ ptr'[d] = ptr[d] /\ peer'[d] = peer[d]

\* No invitation changes hands.
SameParties == \A i \in Inv : Allocated(i) /\ Allocated(i)' =>
    inv'[i].src = inv[i].src /\ inv'[i].tgt = inv[i].tgt

\* Nothing enters a list.
Fewer == \A c \in Client, k \in Slot : lst'[c][k] \in {lst[c][k], NoInv}

-----------------------------------------------------------------------------
\* A step that inserts nothing keeps the lists sound.
LEMMA ListsFewer ==
    ASSUME ListInv, RefInv', NEW c \in Client, Alone(c), SameParties, Fewer, Counted',
           Making(c)'
    PROVE  ListInv'
<1>1. NoDangling /\ NoDangling'
  <2>1. NoDangling
    BY HeldIsThere DEF ListInv
  <2>2. NoDangling'
    BY HeldIsThere, PTL
  <2> QED
    BY <2>1, <2>2
<1>2. Owned'
  <2> SUFFICES ASSUME NEW d \in Client, NEW k \in Slot, lst'[d][k] # NoInv
               PROVE  d \in {inv'[lst'[d][k]].src, inv'[lst'[d][k]].tgt}
    BY DEF Owned, Parties
  <2>1. lst'[d][k] = lst[d][k] /\ lst[d][k] # NoInv /\ lst[d][k] \in Inv
    BY DEF Fewer, ListInv, RefInv, Types, TypeOK
  <2>2. Allocated(lst[d][k]) /\ Allocated(lst[d][k])'
    BY <1>1, <2>1 DEF NoDangling, Allocated
  <2> QED
    BY <2>1, <2>2 DEF ListInv, Owned, SameParties, Parties
<1>3. Once'
  BY DEF Fewer, ListInv, Once
<1>4. ASSUME NEW d \in Client \ {c} PROVE Making(d)'
  <2> SUFFICES ASSUME pc'[d] \in Inserting PROVE Making(d)'
    BY DEF Making
  <2>1. pc'[d] = pc[d] /\ ptr'[d] = ptr[d] /\ peer'[d] = peer[d] /\ pc[d] \in Counting
    BY DEF Alone, Inserting, Counting
  <2>2. ptr[d] \in Inv /\ peer[d] \in Client
    BY <2>1 DEF Inserting, ListInv, RefInv, Types, Control
  <2>3. Allocated(ptr[d]) /\ Allocated(ptr[d])'
    BY <1>1, <2>1 DEF NoDangling, Allocated
  <2>4. inv'[ptr[d]].src = inv[ptr[d]].src /\ inv'[ptr[d]].tgt = inv[ptr[d]].tgt
    BY <2>1, <2>2, <2>3 DEF SameParties, Allocated
  <2>5. ptr[d] # NoInv
    BY <2>2
  <2>6. /\ inv[ptr[d]].src = d /\ inv[ptr[d]].tgt = peer[d] /\ peer[d] # d
        /\ \A k \in Slot : lst[peer[d]][k] # ptr[d]
        /\ pc[d] = "addsrc" => \A k \in Slot : lst[d][k] # ptr[d]
    BY <2>1 DEF ListInv, Making
  <2>7. \A k \in Slot : lst'[peer[d]][k] # ptr[d]
    BY <2>2, <2>5, <2>6 DEF Fewer
  <2>8. pc[d] = "addsrc" => \A k \in Slot : lst'[d][k] # ptr[d]
    BY <2>5, <2>6 DEF Fewer
  <2> QED
    BY <2>1, <2>4, <2>6, <2>7, <2>8 DEF Making
<1> QED
  BY <1>2, <1>3, <1>4 DEF ListInv

LEMMA FilledFinite ==
    ASSUME NEW c
    PROVE  IsFiniteSet(Filled(c)) /\ Cardinality(Filled(c)) \in Nat
<1>1. IsFiniteSet(Slot)
  BY FS_Interval DEF Slot
<1>2. IsFiniteSet(Filled(c))
  BY <1>1, FS_Subset DEF Filled
<1> QED
  BY <1>2, FS_CardinalityType

LEMMA SameLists ==
    ASSUME ListInv, UNCHANGED <<lst, len>>
    PROVE  Fewer /\ Counted'
BY DEF ListInv, Counted, Filled, Fewer

\* A slot is emptied, and len decremented.
LEMMA ErasedLists ==
    ASSUME ListInv, NEW p \in Client, NEW i \in Inv, NEW k \in Slot, Erase(p, i, k)
    PROVE  Fewer /\ Counted'
<1>1. /\ lst \in [Client -> [Slot -> Inv \cup {NoInv}]] /\ len \in [Client -> Int]
      /\ lst[p][k] = i /\ i # NoInv
      /\ lst' = [lst EXCEPT ![p][k] = NoInv] /\ len' = [len EXCEPT ![p] = @ - 1]
  BY DEF ListInv, RefInv, Types, TypeOK, Erase, IsFirst
<1>2. Fewer
  BY <1>1 DEF Fewer
<1>3. ASSUME NEW d \in Client PROVE len'[d] = Cardinality(Filled(d)')
  <2>1. CASE d = p
    <3>1. Filled(p)' = Filled(p) \ {k} /\ k \in Filled(p)
      BY <1>1 DEF Filled
    <3>2. Cardinality(Filled(p) \ {k}) = Cardinality(Filled(p)) - 1
      BY <3>1, FilledFinite, FS_RemoveElement
    <3> QED
      BY <1>1, <2>1, <3>1, <3>2 DEF ListInv, Counted
  <2>2. CASE d # p
    <3>1. Filled(d)' = Filled(d) /\ len'[d] = len[d]
      BY <1>1, <2>2 DEF Filled
    <3> QED
      BY <3>1 DEF ListInv, Counted
  <2> QED
    BY <2>1, <2>2
<1> QED
  BY <1>2, <1>3 DEF Counted

\* The maker of an invitation puts it into a list where it is not yet.
LEMMA ListsInserted ==
    ASSUME ListInv, RefInv', NEW c \in Client, Alone(c), UNCHANGED <<inv, ptr, peer>>,
           NEW p \in Client, NEW k \in Slot, Insert(p, ptr[c], k),
           \/ pc[c] = "addsrc" /\ p = c /\ pc'[c] = "addtgt"
           \/ pc[c] = "addtgt" /\ p = peer[c] /\ pc'[c] = "drop"
    PROVE  ListInv'
<1> DEFINE i == ptr[c]
<1>1. /\ lst \in [Client -> [Slot -> Inv \cup {NoInv}]] /\ len \in [Client -> Int]
      /\ i \in Inv /\ i # NoInv /\ peer[c] \in Client
  BY DEF ListInv, RefInv, Types, TypeOK, Control, Counting
<1>2. /\ inv[i].src = c /\ inv[i].tgt = peer[c] /\ peer[c] # c
      /\ \A j \in Slot : lst[peer[c]][j] # i
      /\ \A j \in Slot : lst[p][j] # i
  BY DEF ListInv, Making, Inserting
<1>3. /\ lst[p][k] = NoInv /\ lst' = [lst EXCEPT ![p][k] = i]
      /\ len' = [len EXCEPT ![p] = @ + 1]
  BY DEF Insert, IsFirst
<1> HIDE DEF i
<1>4. \A d \in Client, j \in Slot :
        lst'[d][j] = IF d = p /\ j = k THEN i ELSE lst[d][j]
  BY <1>1, <1>3
<1>5. Owned'
  <2> SUFFICES ASSUME NEW d \in Client, NEW j \in Slot, lst'[d][j] # NoInv
               PROVE  d \in Parties(lst'[d][j])
    BY DEF Owned, Parties
  <2>1. CASE d = p /\ j = k
    <3>1. lst'[d][j] = i /\ p \in {c, peer[c]}
      BY <1>4, <2>1
    <3> QED
      BY <1>2, <2>1, <3>1 DEF Parties
  <2>2. CASE ~(d = p /\ j = k)
    BY <1>4, <2>2 DEF ListInv, Owned
  <2> QED
    BY <2>1, <2>2
<1>6. Once'
  BY <1>2, <1>4 DEF ListInv, Once
<1>7. ASSUME NEW d \in Client PROVE len'[d] = Cardinality(Filled(d)')
  <2>1. CASE d = p
    <3>1. Filled(p)' = Filled(p) \cup {k} /\ k \notin Filled(p)
      BY <1>1, <1>3, <1>4 DEF Filled
    <3>2. Cardinality(Filled(p) \cup {k}) = Cardinality(Filled(p)) + 1
      BY <3>1, FilledFinite, FS_AddElement
    <3> QED
      BY <1>1, <1>3, <2>1, <3>1, <3>2 DEF ListInv, Counted
  <2>2. CASE d # p
    <3>1. Filled(d)' = Filled(d) /\ len'[d] = len[d]
      BY <1>1, <1>3, <1>4, <2>2 DEF Filled
    <3> QED
      BY <3>1 DEF ListInv, Counted
  <2> QED
    BY <2>1, <2>2
<1>8. ASSUME NEW d \in Client PROVE Making(d)'
  <2>1. CASE d = c
    <3>1. CASE pc'[c] = "addtgt"
      <4>1. p = c /\ p # peer[c]
        BY <1>2, <3>1
      <4>2. \A j \in Slot : lst'[peer[c]][j] # i
        BY <1>1, <1>2, <1>4, <4>1
      <4> QED
        BY <1>2, <2>1, <3>1, <4>2 DEF Making, i
    <3>2. CASE pc'[c] = "drop"
      BY <2>1, <3>2 DEF Making, Inserting
    <3> QED
      BY <3>1, <3>2
  <2>2. CASE d # c
    <3> SUFFICES ASSUME pc'[d] \in Inserting PROVE Making(d)'
      BY DEF Making
    <3>1. pc'[d] = pc[d] /\ pc[d] \in Inserting
      BY <2>2 DEF Alone
    <3>2. /\ inv[ptr[d]].src = d /\ inv[ptr[d]].tgt = peer[d] /\ peer[d] # d
          /\ \A j \in Slot : lst[peer[d]][j] # ptr[d]
          /\ pc[d] = "addsrc" => \A j \in Slot : lst[d][j] # ptr[d]
      BY <3>1 DEF ListInv, Making
    <3>3. ptr[d] # i /\ peer[d] \in Client
      BY <1>2, <2>2, <3>1, <3>2 DEF Inserting, ListInv, RefInv, Types, Control
    <3>4. /\ \A j \in Slot : lst'[peer[d]][j] # ptr[d]
          /\ pc[d] = "addsrc" => \A j \in Slot : lst'[d][j] # ptr[d]
      BY <1>4, <3>2, <3>3
    <3> QED
      BY <3>1, <3>2, <3>4 DEF Making
  <2> QED
    BY <2>1, <2>2
<1> QED
  BY <1>5, <1>6, <1>7, <1>8 DEF ListInv, Counted

-----------------------------------------------------------------------------
\* What every step of a thread leaves alone.

LEMMA ReturnAlone ==
    ASSUME Types, NEW c \in Client, NEW ok, Return(c, ok)
    PROVE  Alone(c) /\ pc'[c] \notin Inserting
<1>1. OnlyThread(c) /\ pc'[c] \in {"idle", "ack", "scan"}
  BY ReturnFrame
<1>2. \A d \in Client \ {c} : peer'[d] = peer[d]
  BY DEF Return, Types, TypeOK
<1> QED
  BY <1>1, <1>2 DEF Alone, OnlyThread, Inserting

LEMMA GotoAlone ==
    ASSUME Types, NEW c \in Client, NEW p, Goto(c, p),
           ptr' = ptr \/ \E x : ptr' = [ptr EXCEPT ![c] = x],
           peer' = peer \/ \E x : peer' = [peer EXCEPT ![c] = x]
    PROVE  Alone(c) /\ pc'[c] = p
<1>1. pc'[c] = p /\ \A d \in Client \ {c} : pc'[d] = pc[d]
  BY GotoFrame
<1>2. \A d \in Client \ {c} : ptr'[d] = ptr[d] /\ peer'[d] = peer[d]
  BY DEF Types, TypeOK
<1> QED
  BY <1>1, <1>2 DEF Alone

\* A reference that is dropped changes no parties, but of what is freed.
LEMMA DropParties ==
    ASSUME Types, NEW i \in Inv, NEW gain, NEW loss, DropInv(i, gain, loss)
    PROVE  SameParties
<1>1. inv' = inv \/ inv' = [inv EXCEPT ![i] = Released]
  BY DEF DropInv
<1>2. ~(Released.state \in {"open", "accepted", "closed"})
  BY DEF Released, Blank
<1> QED
  BY <1>1, <1>2 DEF SameParties, Allocated, Types, TypeOK

\* What a request does to its invitation does not change its parties.
LEMMA ChangingParties ==
    ASSUME Types, NEW c \in Client, Changing(c)
    PROVE  SameParties
<1>1. PICK new : inv' = [inv EXCEPT ![ptr[c]] = new] /\ Kept(inv[ptr[c]], new)
  BY ChangesKeep
<1> QED
  BY <1>1 DEF Kept, SameParties, Types, TypeOK

\* A step that inserts nothing, and leads to no insertion.
LEMMA StepAside ==
    ASSUME ListInv, RefInv', NEW c \in Client, Alone(c), pc'[c] \notin Inserting,
           SameParties,
           \/ UNCHANGED <<lst, len>>
           \/ \E p \in Client, i \in Inv, k \in Slot : Erase(p, i, k)
    PROVE  ListInv'
<1>1. Fewer /\ Counted'
  BY SameLists, ErasedLists
<1>2. Making(c)'
  BY DEF Making
<1> QED
  BY <1>1, <1>2, ListsFewer

\* The early returns.
LEMMA GiveUpLists ==
    ASSUME ListInv, RefInv', NEW c \in Client, pc[c] \in Counting, NEW loss,
           GiveUp(c, loss), UNCHANGED <<lst, len>>
    PROVE  ListInv'
<1>1. Types /\ ptr[c] \in Inv
  BY DEF ListInv, RefInv, Types, Control
<1>2. Alone(c) /\ pc'[c] \notin Inserting
  BY <1>1, ReturnAlone DEF GiveUp
<1>3. SameParties
  BY <1>1, DropParties DEF GiveUp
<1> QED
  BY <1>2, <1>3, StepAside

-----------------------------------------------------------------------------
\* Every action.

LEMMA InviteLists ==
    ASSUME ListInv, RefInv', NEW c \in Client, Invite(c)
    PROVE  ListInv'
<1> Types
  BY DEF ListInv, RefInv
<1> USE DEF At
<1>1. CASE CreateFails(c)
  <2>1. Alone(c) /\ pc'[c] \notin Inserting /\ SameParties /\ UNCHANGED <<lst, len>>
    BY <1>1, ReturnAlone DEF CreateFails, SameParties
  <2> QED
    BY <2>1, StepAside
<1>2. ASSUME NEW i \in Inv, Create(c, i) PROVE ListInv'
  <2>1. /\ Goto(c, "addsrc") /\ ptr' = [ptr EXCEPT ![c] = i] /\ peer' = peer
        /\ lst' = lst /\ len' = len /\ peer[c] # c
        /\ inv' = [inv EXCEPT ![i] = Fresh(c, peer[c])] /\ ~Allocated(i)
    BY <1>2 DEF Create, Allocated
  <2>2. Alone(c) /\ pc'[c] = "addsrc"
    BY <2>1, GotoAlone
  <2>3. SameParties
    BY <2>1 DEF SameParties, Types, TypeOK
  <2>4. ptr'[c] = i /\ inv'[i] = Fresh(c, peer[c]) /\ peer[c] \in Client
    BY <1>2, <2>1 DEF Types, TypeOK, Create, Control
  <2>5. Fresh(c, peer[c]).src = c /\ Fresh(c, peer[c]).tgt = peer[c]
    BY DEF Fresh, Blank
  <2>6. \A d \in Client, k \in Slot : lst[d][k] # i
    BY <2>1, HeldIsThere DEF ListInv, NoDangling
  <2>7. Making(c)'
    BY <2>1, <2>2, <2>4, <2>5, <2>6 DEF Making
  <2> QED
    BY <2>1, <2>2, <2>3, <2>7, SameLists, ListsFewer
<1>3. CASE AddToSource(c)
  <2>1. PICK k \in Slot : Insert(c, ptr[c], k)
    BY <1>3 DEF AddToSource
  <2>2. pc[c] = "addsrc" /\ Goto(c, "addtgt") /\ UNCHANGED <<inv, ptr, peer>>
    BY <1>3 DEF AddToSource
  <2>3. Alone(c) /\ pc'[c] = "addtgt"
    BY <2>2, GotoAlone
  <2> QED
    BY <2>1, <2>2, <2>3, ListsInserted
<1>4. CASE SourceFull(c)
  BY <1>4, GiveUpLists DEF SourceFull, Counting
<1>5. CASE AddToTarget(c)
  <2>1. PICK k \in Slot : Insert(peer[c], ptr[c], k)
    BY <1>5 DEF AddToTarget
  <2>2. pc[c] = "addtgt" /\ Goto(c, "drop") /\ UNCHANGED <<inv, ptr, peer>>
    BY <1>5 DEF AddToTarget
  <2>3. Alone(c) /\ pc'[c] = "drop" /\ peer[c] \in Client
    BY <2>2, GotoAlone DEF Types, Control
  <2> QED
    BY <2>1, <2>2, <2>3, ListsInserted
<1>6. CASE TargetFull(c)
  <2>1. Alone(c) /\ pc'[c] = "undo" /\ ptr[c] \in Inv
    BY <1>6, GotoAlone DEF TargetFull, Types, Control, Counting
  <2>2. SameParties
    BY <1>6, <2>1, DropParties DEF TargetFull
  <2> QED
    BY <1>6, <2>1, <2>2, StepAside DEF TargetFull, Inserting
<1>7. CASE Undo(c)
  <2>1. Alone(c) /\ pc'[c] \notin Inserting /\ ptr[c] \in Inv
    BY <1>7, ReturnAlone DEF Undo, Types, Control
  <2>2. SameParties
    BY <1>7, <2>1, DropParties DEF Undo
  <2>3. \E p \in Client, i \in Inv, k \in Slot : Erase(p, i, k)
    BY <1>7, <2>1 DEF Undo
  <2> QED
    BY <2>1, <2>2, <2>3, StepAside
<1> QED
  BY <1>1, <1>2, <1>3, <1>4, <1>5, <1>6, <1>7 DEF Invite

LEMMA ServeLists ==
    ASSUME ListInv, RefInv', NEW c \in Client, Serve(c)
    PROVE  ListInv'
<1> Types
  BY DEF ListInv, RefInv
<1> USE DEF At
<1>1. CASE Take(c)
  <2>1. UNCHANGED <<lst, len, inv, ptr, peer>> /\ pc[c] = "peeked"
        /\ (pc' = pc \/ Goto(c, "act"))
    BY <1>1 DEF Take
  <2>2. Alone(c) /\ pc'[c] \notin Inserting
    <3>1. CASE pc' = pc
      BY <2>1, <3>1 DEF Alone, Inserting
    <3>2. CASE Goto(c, "act")
      BY <2>1, <3>2, GotoAlone DEF Inserting
    <3> QED
      BY <2>1, <3>1, <3>2
  <2> QED
    BY <2>1, <2>2, StepAside DEF SameParties
<1>2. CASE Refuse(c) \/ RefuseMove(c) \/ SearchFails(c)
  BY <1>2, GiveUpLists DEF Refuse, RefuseMove, SearchFails, Counting
<1>3. CASE Changing(c)
  <2>1. PICK p : GoesOn(c, p)
    BY <1>3, ChangesKeep
  <2>2. UNCHANGED <<lst, len, ptr, peer>>
    BY <1>3, ChangesKeep
  <2>3. Alone(c) /\ pc'[c] \notin Inserting
    BY <2>1, <2>2, GotoAlone DEF GoesOn, Inserting
  <2> QED
    BY <1>3, <2>2, <2>3, ChangingParties, StepAside
<1>4. CASE EraseOwn(c)
  <2>1. Alone(c) /\ pc'[c] = "rmpeer" /\ ptr[c] \in Inv
    BY <1>4, GotoAlone DEF EraseOwn, Types, Control, Counting
  <2>2. SameParties
    BY <1>4, <2>1, DropParties DEF EraseOwn
  <2>3. \E p \in Client, i \in Inv, k \in Slot : Erase(p, i, k)
    BY <1>4, <2>1 DEF EraseOwn
  <2> QED
    BY <2>1, <2>2, <2>3, StepAside DEF Inserting
<1>5. CASE OwnGone(c) \/ PeerGone(c)
  <2>1. UNCHANGED <<lst, len>> /\ pc[c] \in Counting
    BY <1>5 DEF OwnGone, PeerGone, Counting
  <2>2. CASE op[c] = "move"
    <3>1. PICK p \in {"rmpeer", "post"} : Goto(c, p)
      BY <1>5, <2>2 DEF OwnGone, PeerGone
    <3>2. UNCHANGED <<inv, ptr, peer>>
      BY <1>5, <2>2 DEF OwnGone, PeerGone
    <3>3. Alone(c) /\ pc'[c] \notin Inserting
      BY <3>1, <3>2, GotoAlone DEF Inserting
    <3> QED
      BY <2>1, <3>2, <3>3, StepAside DEF SameParties
  <2>3. CASE op[c] # "move"
    BY <1>5, <2>1, <2>3, GiveUpLists DEF OwnGone, PeerGone
  <2> QED
    BY <2>2, <2>3
<1>6. CASE ErasePeer(c)
  <2>1. ptr[c] \in Inv /\ Holds(c, ptr[c])
    BY <1>6 DEF ErasePeer, Types, Control, Counting, Holds
  <2>2. Opponent(ptr[c], c) \in Client
    BY <2>1, HeldAllocated DEF ListInv, RefInv, Named, Opponent
  <2>3. \E p \in Client, i \in Inv, k \in Slot : Erase(p, i, k)
    BY <1>6, <2>1, <2>2 DEF ErasePeer
  <2>4. PICK gain : DropInv(ptr[c], gain, NoClient)
    BY <1>6 DEF ErasePeer
  <2>5. SameParties
    BY <2>1, <2>4, DropParties
  <2>6. PICK p \in {"post", "drop"} : Goto(c, p)
    BY <1>6 DEF ErasePeer
  <2>7. Alone(c) /\ pc'[c] \notin Inserting
    BY <1>6, <2>6, GotoAlone DEF ErasePeer, Inserting
  <2> QED
    BY <2>3, <2>5, <2>7, StepAside
<1>7. CASE Search(c)
  <2>1. PICK p \in {"over", "drop"} : Goto(c, p)
    BY <1>7 DEF Search
  <2>2. Alone(c) /\ pc'[c] \notin Inserting
    BY <1>7, <2>1, GotoAlone DEF Search, Inserting
  <2> QED
    BY <1>7, <2>2, StepAside DEF Search, SameParties
<1>8. CASE CheckOver(c)
  <2>1. UNCHANGED <<lst, len>> /\ ptr[c] \in Inv
    BY <1>8 DEF CheckOver, Types, Control, Counting
  <2>2. CASE inv[ptr[c]].game = "over"
    <3>1. Goto(c, "rmown") /\ UNCHANGED <<inv, ptr, peer>>
      BY <1>8, <2>2 DEF CheckOver
    <3>2. Alone(c) /\ pc'[c] \notin Inserting
      BY <3>1, GotoAlone DEF Inserting
    <3> QED
      BY <2>1, <3>1, <3>2, StepAside DEF SameParties
  <2>3. CASE inv[ptr[c]].game # "over"
    <3>1. DropInv(ptr[c], NoClient, peer[c]) /\ Return(c, TRUE)
      BY <1>8, <2>3 DEF CheckOver
    <3>2. Alone(c) /\ pc'[c] \notin Inserting /\ SameParties
      BY <2>1, <3>1, ReturnAlone, DropParties
    <3> QED
      BY <2>1, <3>2, StepAside
  <2> QED
    BY <2>2, <2>3
<1>9. CASE Drop(c)
  <2>1. UNCHANGED <<lst, len>> /\ ptr[c] \in Inv
    BY <1>9 DEF Drop, Types, Control, Counting
  <2>2. PICK loss : DropInv(ptr[c], NoClient, loss)
    BY <1>9 DEF Drop
  <2>3. SameParties
    BY <2>1, <2>2, DropParties
  <2>4. Alone(c) /\ pc'[c] \notin Inserting
    <3>1. CASE op[c] \in {"move", "resign"}
      BY <1>9, <3>1, ReturnAlone DEF Drop
    <3>2. CASE op[c] \notin {"move", "resign"}
      <4>1. Goto(c, "notify") /\ ptr' = [ptr EXCEPT ![c] = NoInv] /\ peer' = peer
        BY <1>9, <3>2 DEF Drop
      <4>2. Alone(c) /\ pc'[c] = "notify"
        BY <4>1, GotoAlone, Zenon
      <4> QED
        BY <4>2 DEF Inserting
    <3> QED
      BY <3>1, <3>2
  <2> QED
    BY <2>1, <2>3, <2>4, StepAside
<1>10. CASE Notify(c)
  <2>1. Alone(c) /\ pc'[c] \notin Inserting
    BY <1>10, ReturnAlone DEF Notify
  <2> QED
    BY <1>10, <2>1, StepAside DEF Notify, SameParties
<1>11. CASE Ack(c)
  <2>1. Alone(c) /\ pc'[c] = "idle"
    BY <1>11, GotoAlone DEF Ack
  <2> QED
    BY <1>11, <2>1, StepAside DEF Ack, objects, SameParties, Inserting
<1> QED
  BY <1>1, <1>2, <1>3, <1>4, <1>5, <1>6, <1>7, <1>8, <1>9, <1>10, <1>11
  DEF Serve, Changing

\* A request arrives, or the thread logs out.
LEMMA OtherLists ==
    ASSUME ListInv, RefInv', NEW c \in Client, Arrive(c) \/ Logout(c)
    PROVE  ListInv'
<1> Types
  BY DEF ListInv, RefInv
<1>1. UNCHANGED <<lst, len, inv>>
  BY DEF Arrive, Lookup, Ask, Logout, Leave, ScanEmpty, ScanPeek, LoggedOut,
         Unregister, objects
<1>2. Alone(c) /\ pc'[c] \notin Inserting
  <2>1. ASSUME NEW t \in Client, Lookup(c, t)
        PROVE  Alone(c) /\ pc'[c] \notin Inserting
    <3>1. /\ Goto(c, "create") /\ ptr' = ptr
          /\ peer' = [peer EXCEPT ![c] = t]
      BY <2>1 DEF Lookup
    <3>2. Alone(c) /\ pc'[c] = "create"
      BY <3>1, GotoAlone, Zenon
    <3> QED
      BY <3>2 DEF Inserting
  <2>2. ASSUME NEW o \in Request, NEW k \in Slot, Ask(c, o, k)
        PROVE  Alone(c) /\ pc'[c] \notin Inserting
    <3>1. /\ Goto(c, "peeked") /\ peer' = peer
          /\ ptr' = [ptr EXCEPT ![c] = lst[c][k]]
      BY <2>2 DEF Ask
    <3>2. Alone(c) /\ pc'[c] = "peeked"
      BY <3>1, GotoAlone, Zenon
    <3> QED
      BY <3>2 DEF Inserting
  <2>3. CASE ScanEmpty(c)
    BY <2>3, ReturnAlone DEF ScanEmpty
  <2>4. CASE ScanPeek(c)
    <3>1. /\ Goto(c, "peeked") /\ peer' = peer
          /\ ptr' = [ptr EXCEPT ![c] = lst[c][slot[c]]]
      BY <2>4 DEF ScanPeek
    <3>2. Alone(c) /\ pc'[c] = "peeked"
      BY <3>1, GotoAlone, Zenon
    <3> QED
      BY <3>2 DEF Inserting
  <2>5. CASE Leave(c) \/ LoggedOut(c) \/ Unregister(c)
    BY <2>5, GotoAlone DEF Leave, LoggedOut, Unregister, Inserting
  <2> QED
    BY <2>1, <2>2, <2>3, <2>4, <2>5 DEF Arrive, Logout
<1> QED
  BY <1>1, <1>2, StepAside DEF SameParties

LEMMA ListsInit == Init => ListInv
<1> SUFFICES ASSUME Init PROVE ListInv
  OBVIOUS
<1>1. RefInv
  BY RefsInit
<1>2. \A c \in Client : Filled(c) = {} /\ len[c] = 0 /\ pc[c] = "idle"
  BY DEF Init, Filled
<1>3. Owned /\ Once
  BY DEF Init, Owned, Once
<1> QED
  BY <1>1, <1>2, <1>3, FS_EmptySet DEF ListInv, Counted, Making, Inserting

LEMMA ListsStep == ListInv /\ [Next]_vars => ListInv'
<1> SUFFICES ASSUME ListInv, [Next]_vars PROVE ListInv'
  OBVIOUS
<1>1. RefInv'
  BY RefsStep DEF ListInv
<1>2. CASE UNCHANGED vars \/ \E c \in Client : Disconnect(c)
  <2>1. UNCHANGED <<objects, threads>>
    BY <1>2 DEF vars, Disconnect
  <2> QED
    BY <1>1, <2>1 DEF objects, threads, ListInv, Owned, Once, Counted, Filled,
                      Making, Parties
<1>3. ASSUME NEW c \in Client, Arrive(c) \/ Work(c) PROVE ListInv'
  BY <1>1, <1>3, InviteLists, ServeLists, OtherLists DEF Work
<1> QED
  BY <1>2, <1>3 DEF Next, Halted

\* A list holds invitations of its client only, none of them twice, and len
\* counts them (add_to_inv_lst, remove_from_inv_lst and their callers).
THEOREM ListsStaySound == Spec => []ListsSound
BY ListsInit, ListsStep, ListInvSound, PTL DEF Spec

-----------------------------------------------------------------------------
\* Reference counts of clients.

SrcOf(x) == {i \in Inv : inv[i].src = x}
TgtOf(x) == {i \in Inv : inv[i].tgt = x}
Live == {i \in Inv : Allocated(i)}

\* Only an invitation that is allocated names anybody, and they are finitely
\* many even if the heap is not.
Clean == \A i \in Inv :
    ~Allocated(i) => inv[i].src = NoClient /\ inv[i].tgt = NoClient

\* What is left of a client's count when its invitations are taken away.
Extra(x) == cref[x] - Cardinality(SrcOf(x)) - Cardinality(TgtOf(x))

\* Whom a thread refers to, where it matters to what it gives back.
PeerRight(c) ==
    /\ pc[c] \in {"idle", "ack", "peeked", "act", "resign", "close", "place",
                  "finish", "search", "scan", "unregister", "gone"}
         => peer[c] = NoClient
    /\ pc[c] \in {"rmown", "rmpeer"} /\ op[c] # "move" => peer[c] = NoClient
    /\ pc[c] \in {"rmown", "rmpeer"} /\ op[c] = "move"
         => peer[c] = Opponent(ptr[c], c)
    /\ pc[c] = "over" => op[c] = "move" /\ peer[c] = Opponent(ptr[c], c)

CountInv == /\ RefInv /\ Clean /\ IsFiniteSet(Live)
            /\ \A c \in Client : PeerRight(c)
            /\ ClientRefExact

\* Sets that differ in one element at most.
LEMMA SetMoved ==
    ASSUME NEW A, NEW B, NEW e, IsFiniteSet(A), A \ {e} = B \ {e}
    PROVE  /\ IsFiniteSet(B) /\ Cardinality(A) \in Nat /\ Cardinality(B) \in Nat
           /\ Cardinality(B) = Cardinality(A) - One(e \in A) + One(e \in B)
<1> DEFINE R == A \ {e}
<1>1. IsFiniteSet(R) /\ Cardinality(R) \in Nat /\ e \notin R
  BY FS_Subset, FS_CardinalityType
<1>2. IsFiniteSet(R \cup {e}) /\ Cardinality(R \cup {e}) = Cardinality(R) + 1
  BY <1>1, FS_AddElement
<1>3. A = (IF e \in A THEN R \cup {e} ELSE R) /\ B = (IF e \in B THEN R \cup {e} ELSE R)
  OBVIOUS
<1> HIDE DEF R
<1>4. Cardinality(A) = Cardinality(R) + One(e \in A)
  <2>1. CASE e \in A
    BY <1>2, <1>3, <2>1 DEF One
  <2>2. CASE e \notin A
    BY <1>1, <1>3, <2>2 DEF One
  <2> QED
    BY <2>1, <2>2
<1>5. IsFiniteSet(B) /\ Cardinality(B) = Cardinality(R) + One(e \in B)
  <2>1. CASE e \in B
    BY <1>2, <1>3, <2>1 DEF One
  <2>2. CASE e \notin B
    BY <1>1, <1>3, <2>2 DEF One
  <2> QED
    BY <2>1, <2>2
<1> QED
  BY <1>1, <1>4, <1>5 DEF One

LEMMA PartiesFinite ==
    ASSUME CountInv, NEW x \in Client
    PROVE  /\ IsFiniteSet(SrcOf(x)) /\ Cardinality(SrcOf(x)) \in Nat
           /\ IsFiniteSet(TgtOf(x)) /\ Cardinality(TgtOf(x)) \in Nat
           /\ IsFiniteSet(PeerRefs(x)) /\ Cardinality(PeerRefs(x)) \in Nat
           /\ cref[x] \in Int
           /\ Extra(x) = One(pc[x] # "gone") + Cardinality(PeerRefs(x))
<1>1. SrcOf(x) \subseteq Live /\ TgtOf(x) \subseteq Live
  BY DEF SrcOf, TgtOf, Live, CountInv, Clean
<1>2. IsFiniteSet(SrcOf(x)) /\ IsFiniteSet(TgtOf(x))
  BY <1>1, FS_Subset DEF CountInv
<1>3. IsFiniteSet(PeerRefs(x))
  BY FS_Subset DEF PeerRefs
<1>4. /\ Cardinality(SrcOf(x)) \in Nat /\ Cardinality(TgtOf(x)) \in Nat
      /\ Cardinality(PeerRefs(x)) \in Nat
  BY <1>2, <1>3, FS_CardinalityType
<1>5. cref[x] \in Int
  BY DEF CountInv, RefInv, Types, TypeOK
<1>6. cref[x] = One(pc[x] # "gone") + Cardinality(SrcOf(x)) + Cardinality(TgtOf(x))
                + Cardinality(PeerRefs(x))
  BY DEF CountInv, ClientRefExact, SrcOf, TgtOf
<1> QED
  BY <1>2, <1>3, <1>4, <1>5, <1>6 DEF Extra, One

\* A thread takes another peer: the sets of those who refer to a client.
LEMMA PeerMoved ==
    ASSUME NEW c \in Client, Alone(c), NEW x \in Client
    PROVE  /\ Cardinality(PeerRefs(x)) \in Nat
           /\ Cardinality(PeerRefs(x)') = Cardinality(PeerRefs(x))
                                          - One(peer[c] = x) + One(peer'[c] = x)
<1>1. IsFiniteSet(PeerRefs(x))
  BY FS_Subset DEF PeerRefs
<1>2. PeerRefs(x)' \ {c} = PeerRefs(x) \ {c}
  BY DEF PeerRefs, Alone
<1>3. (c \in PeerRefs(x) <=> peer[c] = x) /\ (c \in PeerRefs(x)' <=> peer'[c] = x)
  BY DEF PeerRefs
<1> QED
  BY <1>1, <1>2, <1>3, SetMoved DEF One

\* The invitations are as they were: so are the sets of them.
SameClients == \A i \in Inv : /\ Allocated(i)' <=> Allocated(i)
                              /\ inv'[i].src = inv[i].src /\ inv'[i].tgt = inv[i].tgt

LEMMA KeptParties ==
    ASSUME CountInv, SameClients
    PROVE  /\ \A x : SrcOf(x)' = SrcOf(x) /\ TgtOf(x)' = TgtOf(x)
           /\ Clean' /\ IsFiniteSet(Live') /\ SameParties
<1>1. Live' = Live
  BY DEF SameClients, Live
<1> QED
  BY <1>1 DEF SameClients, SrcOf, TgtOf, CountInv, Clean, SameParties

\* An invitation that is dropped gives its clients back when it is freed.
LEMMA DropParted ==
    ASSUME CountInv, NEW i \in Inv, Allocated(i), NEW gain, NEW loss,
           DropInv(i, gain, loss)
    PROVE  /\ \A x \in Client : Extra(x)' = Extra(x) + One(x = gain) - One(x = loss)
           /\ Clean' /\ IsFiniteSet(Live') /\ SameParties
<1>1. /\ inv \in [Inv -> InvRecord] /\ Types
      /\ inv[i].src \in Client /\ inv[i].tgt \in Client
  BY DEF CountInv, RefInv, Types, TypeOK, Named
<1>2. /\ Released.src = NoClient /\ Released.tgt = NoClient
      /\ ~(Released.state \in {"open", "accepted", "closed"})
  BY DEF Released, Blank
<1>3. SameParties
  BY <1>1, DropParties
<1>4. inv' = IF ref[i] = 1 THEN [inv EXCEPT ![i] = Released] ELSE inv
  BY DEF DropInv
<1>5. Clean' /\ IsFiniteSet(Live')
  <2>1. Live' \subseteq Live
    BY <1>1, <1>2, <1>4 DEF Live, Allocated
  <2>2. Clean'
    BY <1>1, <1>2, <1>4 DEF CountInv, Clean, Allocated
  <2> QED
    BY <2>1, <2>2, FS_Subset DEF CountInv
<1>6. ASSUME NEW x \in Client PROVE Extra(x)' = Extra(x) + One(x = gain) - One(x = loss)
  <2>1. cref'[x] = cref[x] + One(x = gain) - One(x = loss)
                   - One(ref[i] = 1 /\ x = inv[i].src) - One(ref[i] = 1 /\ x = inv[i].tgt)
    BY DEF DropInv
  <2>2. /\ Cardinality(SrcOf(x)) \in Nat
        /\ Cardinality(SrcOf(x)') = Cardinality(SrcOf(x)) - One(ref[i] = 1 /\ x = inv[i].src)
    <3>1. SrcOf(x) \ {i} = SrcOf(x)' \ {i}
      BY <1>1, <1>4 DEF SrcOf
    <3>2. (i \in SrcOf(x) <=> inv[i].src = x)
          /\ (i \in SrcOf(x)' <=> ref[i] # 1 /\ inv[i].src = x)
      BY <1>1, <1>2, <1>4 DEF SrcOf
    <3>3. IsFiniteSet(SrcOf(x))
      BY PartiesFinite
    <3> QED
      BY <3>1, <3>2, <3>3, SetMoved DEF One
  <2>3. /\ Cardinality(TgtOf(x)) \in Nat
        /\ Cardinality(TgtOf(x)') = Cardinality(TgtOf(x)) - One(ref[i] = 1 /\ x = inv[i].tgt)
    <3>1. TgtOf(x) \ {i} = TgtOf(x)' \ {i}
      BY <1>1, <1>4 DEF TgtOf
    <3>2. (i \in TgtOf(x) <=> inv[i].tgt = x)
          /\ (i \in TgtOf(x)' <=> ref[i] # 1 /\ inv[i].tgt = x)
      BY <1>1, <1>2, <1>4 DEF TgtOf
    <3>3. IsFiniteSet(TgtOf(x))
      BY PartiesFinite
    <3> QED
      BY <3>1, <3>2, <3>3, SetMoved DEF One
  <2>4. cref[x] \in Int
    BY <1>1 DEF Types, TypeOK
  <2> QED
    BY <2>1, <2>2, <2>3, <2>4 DEF Extra, One
<1> QED
  BY <1>3, <1>5, <1>6

\* A step of thread c whose counts balance with its peer.
LEMMA Balanced ==
    ASSUME CountInv, RefInv', NEW c \in Client, Alone(c),
           \A d \in Client \ {c} : op'[d] = op[d],
           pc[c] # "gone", pc'[c] # "gone", PeerRight(c)',
           SameParties, Clean', IsFiniteSet(Live'),
           \A x \in Client :
             Extra(x)' = Extra(x) + One(x = peer'[c]) - One(x = peer[c])
    PROVE  CountInv'
<1>1. ASSUME NEW d \in Client \ {c} PROVE PeerRight(d)'
  <2>1. pc'[d] = pc[d] /\ op'[d] = op[d] /\ ptr'[d] = ptr[d] /\ peer'[d] = peer[d]
    BY DEF Alone
  <2>2. ASSUME pc[d] \in {"rmown", "rmpeer", "over"}
        PROVE  Opponent(ptr[d], d)' = Opponent(ptr[d], d)
    <3>1. pc[d] \in Counting /\ pc'[d] \in Counting
      BY <2>1, <2>2 DEF Counting
    <3>2. ptr[d] \in Inv
      BY <3>1 DEF CountInv, RefInv, Types, Control
    <3>3. NoDangling /\ NoDangling'
      <4>1. NoDangling
        BY HeldIsThere DEF CountInv
      <4>2. NoDangling'
        BY HeldIsThere, PTL
      <4> QED
        BY <4>1, <4>2
    <3>4. Allocated(ptr[d]) /\ Allocated(ptr[d])'
      BY <3>1, <3>3 DEF NoDangling, Allocated
    <3>5. /\ inv'[ptr[d]].src = inv[ptr[d]].src
          /\ inv'[ptr[d]].tgt = inv[ptr[d]].tgt
      BY <2>1, <3>2, <3>4 DEF SameParties, Allocated
    <3> QED
      BY <2>1, <3>5 DEF Opponent
  <2>3. PeerRight(d)
    BY DEF CountInv
  <2> QED
    BY <2>1, <2>2, <2>3 DEF PeerRight
<1>2. CountInv /\ RefInv' /\ Clean' /\ IsFiniteSet(Live)' /\ \A d \in Client : PeerRight(d)'
  BY <1>1
<1>3. ASSUME NEW x \in Client
      PROVE  cref'[x] = One(pc'[x] # "gone") + Cardinality(SrcOf(x)')
                        + Cardinality(TgtOf(x)') + Cardinality(PeerRefs(x)')
  <2>1. Extra(x) = One(pc[x] # "gone") + Cardinality(PeerRefs(x))
    BY PartiesFinite
  <2>2. One(pc'[x] # "gone") = One(pc[x] # "gone")
    BY DEF Alone, One
  <2>3. /\ Cardinality(PeerRefs(x)) \in Nat
        /\ Cardinality(PeerRefs(x)') = Cardinality(PeerRefs(x))
                                       - One(peer[c] = x) + One(peer'[c] = x)
    BY PeerMoved
  <2>4. Extra(x)' = One(pc'[x] # "gone") + Cardinality(PeerRefs(x)')
    BY <2>1, <2>2, <2>3 DEF One
  <2>5. /\ Cardinality(SrcOf(x)') \in Nat /\ Cardinality(TgtOf(x)') \in Nat
        /\ cref'[x] \in Int /\ Cardinality(PeerRefs(x)') \in Int
    <3>1. SrcOf(x)' \subseteq Live' /\ TgtOf(x)' \subseteq Live'
      BY DEF SrcOf, TgtOf, Live, Clean
    <3>2. IsFiniteSet(SrcOf(x)') /\ IsFiniteSet(TgtOf(x)')
      BY <3>1, FS_Subset
    <3> QED
      BY <2>3, <3>2, FS_CardinalityType DEF RefInv, Types, TypeOK, One
  <2> QED
    BY <2>4, <2>5 DEF Extra, One
<1> QED
  BY <1>2, <1>3 DEF CountInv, ClientRefExact, SrcOf, TgtOf

\* A thread whose request has come to an end refers to nobody.
LEMMA ReturnPeer ==
    ASSUME Types, NEW c \in Client, NEW ok, Return(c, ok)
    PROVE  /\ Alone(c) /\ \A d \in Client \ {c} : op'[d] = op[d]
           /\ pc'[c] # "gone" /\ peer'[c] = NoClient /\ PeerRight(c)'
<1>1. OnlyThread(c) /\ pc'[c] \in {"idle", "ack", "scan"} /\ Alone(c)
  BY ReturnFrame, ReturnAlone
<1>2. peer'[c] = NoClient /\ \A d \in Client \ {c} : op'[d] = op[d]
  BY DEF Return, ScanOn, Types, TypeOK
<1> QED
  BY <1>1, <1>2 DEF PeerRight

\* It gives back its peer and nothing else ...
LEMMA ReturnCounts ==
    ASSUME CountInv, RefInv', NEW c \in Client, pc[c] # "gone", NEW ok, Return(c, ok),
           SameClients, \A x \in Client : cref'[x] = cref[x] - One(x = peer[c])
    PROVE  CountInv'
<1>1. /\ Alone(c) /\ \A d \in Client \ {c} : op'[d] = op[d]
      /\ pc'[c] # "gone" /\ peer'[c] = NoClient /\ PeerRight(c)'
  BY ReturnPeer DEF CountInv, RefInv
<1>2. /\ \A x : SrcOf(x)' = SrcOf(x) /\ TgtOf(x)' = TgtOf(x)
      /\ Clean' /\ IsFiniteSet(Live') /\ SameParties
  BY KeptParties
<1>3. ASSUME NEW x \in Client
      PROVE  Extra(x)' = Extra(x) + One(x = peer'[c]) - One(x = peer[c])
  <2>1. /\ cref[x] \in Int /\ Cardinality(SrcOf(x)) \in Nat
        /\ Cardinality(TgtOf(x)) \in Nat /\ x # NoClient
    BY PartiesFinite
  <2>2. Cardinality(SrcOf(x)') = Cardinality(SrcOf(x))
        /\ Cardinality(TgtOf(x)') = Cardinality(TgtOf(x))
    BY <1>2
  <2> QED
    BY <1>1, <2>1, <2>2 DEF Extra, One
<1> QED
  BY <1>1, <1>2, <1>3, Balanced

\* ... or its peer and the invitation it holds.
LEMMA DropReturnCounts ==
    ASSUME CountInv, RefInv', NEW c \in Client, pc[c] # "gone", NEW ok, Return(c, ok),
           ptr[c] \in Inv, Allocated(ptr[c]), DropInv(ptr[c], NoClient, peer[c])
    PROVE  CountInv'
<1>1. /\ Alone(c) /\ \A d \in Client \ {c} : op'[d] = op[d]
      /\ pc'[c] # "gone" /\ peer'[c] = NoClient /\ PeerRight(c)'
  BY ReturnPeer DEF CountInv, RefInv
<1>2. /\ \A x \in Client : Extra(x)' = Extra(x) + One(x = NoClient) - One(x = peer[c])
      /\ Clean' /\ IsFiniteSet(Live') /\ SameParties
  BY DropParted
<1> QED
  BY <1>1, <1>2, Balanced

LEMMA HeldPointer ==
    ASSUME CountInv, NEW c \in Client, pc[c] \in Counting
    PROVE  ptr[c] \in Inv /\ Allocated(ptr[c]) /\ pc[c] # "gone"
<1>1. ptr[c] \in Inv
  BY DEF CountInv, RefInv, Types, Control
<1>2. Allocated(ptr[c])
  BY <1>1, HeldAllocated DEF CountInv, Holds
<1> QED
  BY <1>1, <1>2 DEF Counting

LEMMA GiveUpCounts ==
    ASSUME CountInv, RefInv', NEW c \in Client, pc[c] \in Counting,
           NEW loss, loss = peer[c], GiveUp(c, loss)
    PROVE  CountInv'
BY HeldPointer, DropReturnCounts DEF GiveUp

\* A thread goes on, and no client and no invitation is counted otherwise.
LEMMA OnwardCounts ==
    ASSUME CountInv, RefInv', NEW c \in Client, NEW p, Goto(c, p), p # "gone", pc[c] # "gone",
           ptr' = ptr \/ \E x : ptr' = [ptr EXCEPT ![c] = x],
           UNCHANGED <<peer, cref>>, op' = op \/ \E x : op' = [op EXCEPT ![c] = x],
           SameClients, PeerRight(c)'
    PROVE  CountInv'
<1>1. Types
  BY DEF CountInv, RefInv
<1>2. Alone(c) /\ pc'[c] = p
  BY <1>1, GotoAlone
<1>3. \A d \in Client \ {c} : op'[d] = op[d]
  BY <1>1 DEF Types, TypeOK
<1>4. /\ \A x : SrcOf(x)' = SrcOf(x) /\ TgtOf(x)' = TgtOf(x)
      /\ Clean' /\ IsFiniteSet(Live') /\ SameParties
  BY KeptParties
<1>5. ASSUME NEW x \in Client
      PROVE  Extra(x)' = Extra(x) + One(x = peer'[c]) - One(x = peer[c])
  <2>1. /\ cref[x] \in Int /\ Cardinality(SrcOf(x)) \in Nat
        /\ Cardinality(TgtOf(x)) \in Nat
    BY PartiesFinite
  <2>2. Extra(x)' = Extra(x)
    BY <1>4 DEF Extra
  <2> QED
    BY <2>1, <2>2 DEF Extra, One
<1> QED
  BY <1>2, <1>3, <1>4, <1>5, Balanced

\* A thread drops its invitation and goes on; it may take a peer, unless it
\* has one.
LEMMA DropOnwardCounts ==
    ASSUME CountInv, RefInv', NEW c \in Client, NEW p, Goto(c, p), p # "gone", pc[c] # "gone",
           ptr' = ptr \/ \E x : ptr' = [ptr EXCEPT ![c] = x], UNCHANGED op,
           NEW i \in Inv, Allocated(i), NEW gain, DropInv(i, gain, NoClient),
           NEW q, peer' = [peer EXCEPT ![c] = q],
           \/ gain = NoClient /\ q = peer[c]
           \/ peer[c] = NoClient /\ q = gain,
           PeerRight(c)'
    PROVE  CountInv'
<1>1. Types
  BY DEF CountInv, RefInv
<1>2. Alone(c) /\ pc'[c] = p /\ peer'[c] = q
  BY <1>1, GotoAlone DEF Types, TypeOK
<1>3. /\ \A x \in Client : Extra(x)' = Extra(x) + One(x = gain) - One(x = NoClient)
      /\ Clean' /\ IsFiniteSet(Live') /\ SameParties
  BY DropParted
<1>4. ASSUME NEW x \in Client
      PROVE  Extra(x)' = Extra(x) + One(x = peer'[c]) - One(x = peer[c])
  <2>1. x # NoClient /\ Extra(x) \in Int
    <3>1. /\ cref[x] \in Int /\ Cardinality(SrcOf(x)) \in Nat
          /\ Cardinality(TgtOf(x)) \in Nat
      BY PartiesFinite
    <3> QED
      BY <3>1 DEF Extra
  <2>2. One(x = gain) - One(x = NoClient) = One(x = peer'[c]) - One(x = peer[c])
    BY <1>2, <2>1 DEF One
  <2>3. Extra(x)' = Extra(x) + One(x = gain) - One(x = NoClient)
    BY <1>3
  <2> HIDE DEF Extra
  <2>4. /\ One(x = gain) \in Int /\ One(x = NoClient) \in Int
        /\ One(x = peer'[c]) \in Int /\ One(x = peer[c]) \in Int
    BY DEF One
  <2> QED
    BY <2>1, <2>2, <2>3, <2>4
<1> QED
  BY <1>1, <1>2, <1>3, <1>4, Balanced

\* A thread that has no peer finds one.
LEMMA GainCounts ==
    ASSUME CountInv, RefInv', NEW c \in Client, NEW p, Goto(c, p), p # "gone", pc[c] # "gone",
           UNCHANGED <<ptr, inv>>, op' = op \/ \E x : op' = [op EXCEPT ![c] = x],
           NEW q, GainClient(q), peer' = [peer EXCEPT ![c] = q], peer[c] = NoClient,
           PeerRight(c)'
    PROVE  CountInv'
<1>1. Types
  BY DEF CountInv, RefInv
<1>2. Alone(c) /\ pc'[c] = p /\ peer'[c] = q
  BY <1>1, GotoAlone DEF Types, TypeOK
<1>3. \A d \in Client \ {c} : op'[d] = op[d]
  BY <1>1 DEF Types, TypeOK
<1>4. /\ \A x : SrcOf(x)' = SrcOf(x) /\ TgtOf(x)' = TgtOf(x)
      /\ Clean' /\ IsFiniteSet(Live') /\ SameParties
  BY KeptParties DEF SameClients, Allocated
<1>5. ASSUME NEW x \in Client
      PROVE  Extra(x)' = Extra(x) + One(x = peer'[c]) - One(x = peer[c])
  <2>1. /\ cref[x] \in Int /\ Cardinality(SrcOf(x)) \in Nat
        /\ Cardinality(TgtOf(x)) \in Nat /\ x # NoClient
    BY PartiesFinite
  <2>2. cref'[x] = cref[x] + One(x = q)
    BY DEF GainClient
  <2>3. Cardinality(SrcOf(x)') = Cardinality(SrcOf(x))
        /\ Cardinality(TgtOf(x)') = Cardinality(TgtOf(x))
    BY <1>4
  <2> QED
    BY <1>2, <2>1, <2>2, <2>3 DEF Extra, One
<1> QED
  BY <1>2, <1>3, <1>4, <1>5, Balanced

\* While a thread holds an invitation, the opponent it finds there stays.
LEMMA OpponentKept ==
    ASSUME CountInv, RefInv', SameParties, NEW c \in Client,
           pc[c] \in Counting, pc'[c] \in Counting, ptr'[c] = ptr[c]
    PROVE  Opponent(ptr[c], c)' = Opponent(ptr[c], c)
<1>1. ptr[c] \in Inv /\ Allocated(ptr[c])
  BY HeldPointer
<1>2. NoDangling'
  BY HeldIsThere, PTL
<1>3. Allocated(ptr[c])'
  BY <1>2 DEF NoDangling, Allocated
<1>4. inv'[ptr[c]].src = inv[ptr[c]].src /\ inv'[ptr[c]].tgt = inv[ptr[c]].tgt
  BY <1>1, <1>3 DEF SameParties, Allocated
<1> QED
  BY <1>4 DEF Opponent

\* An INVITE makes an invitation: one more for its source and its target.
LEMMA CreateCounts ==
    ASSUME CountInv, RefInv', NEW c \in Client, NEW i \in Inv, Create(c, i)
    PROVE  CountInv'
<1>1. Types /\ inv \in [Inv -> InvRecord]
  BY DEF CountInv, RefInv, Types, TypeOK
<1>2. /\ pc[c] = "create" /\ peer[c] # c /\ ~Allocated(i)
      /\ inv' = [inv EXCEPT ![i] = Fresh(c, peer[c])]
      /\ cref' = [x \in Client |-> cref[x] + One(x \in {c, peer[c]})]
      /\ ptr' = [ptr EXCEPT ![c] = i] /\ peer' = peer /\ op' = op /\ Goto(c, "addsrc")
  BY DEF Create, At, Allocated
<1>3. inv[i].src = NoClient /\ inv[i].tgt = NoClient
  BY <1>2 DEF CountInv, Clean
<1>4. /\ Fresh(c, peer[c]).src = c /\ Fresh(c, peer[c]).tgt = peer[c]
      /\ Fresh(c, peer[c]).state = "open"
  BY DEF Fresh, Blank
<1>5. /\ inv'[i].src = c /\ inv'[i].tgt = peer[c] /\ Allocated(i)'
      /\ \A j \in Inv \ {i} : inv'[j] = inv[j]
  BY <1>1, <1>2, <1>4 DEF Allocated
<1>6. Alone(c) /\ pc'[c] = "addsrc"
  BY <1>1, <1>2, GotoAlone
<1>7. SameParties /\ Clean'
  BY <1>2, <1>5 DEF SameParties, CountInv, Clean, Allocated
<1>8. IsFiniteSet(Live')
  <2>1. Live' = Live \cup {i}
    BY <1>5 DEF Live, Allocated
  <2> QED
    BY <2>1, FS_AddElement DEF CountInv
<1>9. ASSUME NEW x \in Client PROVE Extra(x)' = Extra(x)
  <2>1. /\ IsFiniteSet(SrcOf(x)) /\ IsFiniteSet(TgtOf(x)) /\ cref[x] \in Int
    BY PartiesFinite
  <2>2. x # NoClient
    OBVIOUS
  <2>3. Cardinality(SrcOf(x)) \in Nat
        /\ Cardinality(SrcOf(x)') = Cardinality(SrcOf(x)) + One(x = c)
    <3>1. SrcOf(x) \ {i} = SrcOf(x)' \ {i}
      BY <1>5 DEF SrcOf
    <3>2. i \notin SrcOf(x) /\ (i \in SrcOf(x)' <=> x = c)
      BY <1>3, <1>5, <2>2 DEF SrcOf
    <3> QED
      BY <2>1, <3>1, <3>2, SetMoved DEF One
  <2>4. Cardinality(TgtOf(x)) \in Nat
        /\ Cardinality(TgtOf(x)') = Cardinality(TgtOf(x)) + One(x = peer[c])
    <3>1. TgtOf(x) \ {i} = TgtOf(x)' \ {i}
      BY <1>5 DEF TgtOf
    <3>2. i \notin TgtOf(x) /\ (i \in TgtOf(x)' <=> x = peer[c])
      BY <1>3, <1>5, <2>2 DEF TgtOf
    <3> QED
      BY <2>1, <3>1, <3>2, SetMoved DEF One
  <2>5. cref'[x] = cref[x] + One(x = c) + One(x = peer[c])
    BY <1>2, <2>1 DEF One
  <2> QED
    BY <2>1, <2>3, <2>4, <2>5 DEF Extra, One
<1>10. ASSUME NEW x \in Client
       PROVE  Extra(x)' = Extra(x) + One(x = peer'[c]) - One(x = peer[c])
  <2>1. Extra(x) \in Int
    BY PartiesFinite DEF Extra
  <2>2. Extra(x)' = Extra(x)
    BY <1>9
  <2> HIDE DEF Extra
  <2> QED
    BY <1>2, <2>1, <2>2 DEF One
<1>11. PeerRight(c)'
  BY <1>6 DEF PeerRight
<1> QED
  BY <1>2, <1>6, <1>7, <1>8, <1>10, <1>11, Balanced

LEMMA InviteCounts ==
    ASSUME CountInv, RefInv', NEW c \in Client, Invite(c)
    PROVE  CountInv'
<1> Types
  BY DEF CountInv, RefInv
<1> USE DEF At
<1>1. CASE CreateFails(c)
  <2>1. SameClients
    BY <1>1 DEF CreateFails, SameClients, Allocated
  <2> QED
    BY <1>1, <2>1, ReturnCounts DEF CreateFails, LoseClient
<1>2. CASE AddToSource(c)
  <2>1. Goto(c, "addtgt") /\ UNCHANGED <<ptr, peer, op, cref, inv>>
    BY <1>2 DEF AddToSource
  <2>2. PeerRight(c)' /\ SameClients
    BY <2>1, GotoFrame DEF PeerRight, SameClients, Allocated
  <2> QED
    BY <1>2, <2>1, <2>2, OnwardCounts DEF AddToSource
<1>3. CASE SourceFull(c)
  BY <1>3, GiveUpCounts DEF SourceFull, Counting
<1>4. CASE AddToTarget(c)
  <2>1. Goto(c, "drop") /\ UNCHANGED <<ptr, peer, op, cref, inv>>
    BY <1>4 DEF AddToTarget
  <2>2. PeerRight(c)' /\ SameClients
    BY <2>1, GotoFrame DEF PeerRight, SameClients, Allocated
  <2> QED
    BY <1>4, <2>1, <2>2, OnwardCounts DEF AddToTarget
<1>5. CASE TargetFull(c)
  <2>1. /\ Goto(c, "undo") /\ UNCHANGED <<ptr, peer, op>>
        /\ DropInv(ptr[c], NoClient, NoClient) /\ pc[c] = "addtgt"
    BY <1>5 DEF TargetFull
  <2>2. ptr[c] \in Inv /\ Allocated(ptr[c])
    BY <2>1, HeldPointer DEF Counting
  <2>3. peer' = [peer EXCEPT ![c] = peer[c]]
    BY <2>1 DEF Types, TypeOK
  <2>4. PeerRight(c)'
    BY <2>1, GotoFrame DEF PeerRight
  <2> QED
    BY <2>1, <2>2, <2>3, <2>4, DropOnwardCounts
<1>6. CASE Undo(c)
  <2>1. PICK k \in Slot : Erase(c, ptr[c], k)
    BY <1>6 DEF Undo
  <2>2. /\ pc[c] = "undo" /\ ptr[c] \in Inv /\ Return(c, TRUE)
        /\ DropInv(ptr[c], NoClient, peer[c])
    BY <1>6 DEF Undo, Types, Control
  <2>3. Allocated(ptr[c])
    BY <2>1, <2>2, HeldAllocated DEF Erase, IsFirst, CountInv
  <2> QED
    BY <2>2, <2>3, DropReturnCounts
<1> QED
  BY <1>1, <1>2, <1>3, <1>4, <1>5, <1>6, CreateCounts DEF Invite

\* Nothing changes that counts.
LEMMA NothingCounts ==
    ASSUME CountInv, RefInv', UNCHANGED <<cref, inv, pc, op, ptr, peer>>
    PROVE  CountInv'
<1>1. /\ Live' = Live /\ Clean' /\ \A x \in Client : PeerRefs(x)' = PeerRefs(x)
      /\ \A x : SrcOf(x)' = SrcOf(x) /\ TgtOf(x)' = TgtOf(x)
  BY DEF Live, Allocated, CountInv, Clean, PeerRefs, SrcOf, TgtOf
<1>2. \A d \in Client : PeerRight(d)'
  BY DEF CountInv, PeerRight, Opponent
<1>3. ClientRefExact'
  BY <1>1 DEF CountInv, ClientRefExact, SrcOf, TgtOf
<1> QED
  BY <1>1, <1>2, <1>3 DEF CountInv

\* What a request does to its invitation keeps it allocated.
LEMMA ChangedInPlace ==
    ASSUME Types, NEW c \in Client, Changing(c), Allocated(ptr[c])
    PROVE  SameClients
<1>1. PICK new : inv' = [inv EXCEPT ![ptr[c]] = new] /\ Kept(inv[ptr[c]], new)
  BY ChangesKeep
<1> QED
  BY <1>1 DEF Kept, SameClients, Allocated, Types, TypeOK

LEMMA ServeCounts ==
    ASSUME CountInv, RefInv', NEW c \in Client, Serve(c)
    PROVE  CountInv'
<1> Types
  BY DEF CountInv, RefInv
<1> USE DEF At
<1>1. CASE Take(c)
  <2>1. CASE ref[ptr[c]] = 0
    BY <1>1, <2>1, NothingCounts DEF Take
  <2>2. CASE ref[ptr[c]] # 0
    <3>1. /\ Goto(c, "act") /\ UNCHANGED <<ptr, peer, op, cref, inv>>
          /\ pc[c] = "peeked"
      BY <1>1, <2>2 DEF Take
    <3>2. PeerRight(c)' /\ SameClients
      BY <3>1, GotoFrame DEF CountInv, PeerRight, SameClients, Allocated
    <3> QED
      BY <3>1, <3>2, OnwardCounts
  <2> QED
    BY <2>1, <2>2
<1>2. CASE Refuse(c) \/ RefuseMove(c) \/ SearchFails(c)
  <2>1. pc[c] \in {"act", "search"} /\ GiveUp(c, NoClient)
    BY <1>2 DEF Refuse, RefuseMove, SearchFails
  <2>2. peer[c] = NoClient
    BY <2>1 DEF CountInv, PeerRight
  <2> QED
    BY <2>1, <2>2, GiveUpCounts DEF Counting
<1>3. CASE Changing(c)
  <2>1. PICK p : GoesOn(c, p)
    BY <1>3, ChangesKeep
  <2>2. pc[c] \in Counting /\ UNCHANGED <<ptr, peer, op, cref>>
    BY <1>3, ChangesKeep
  <2>3. SameClients
    BY <1>3, <2>2, HeldPointer, ChangedInPlace
  <2>4. p # "drop" => peer[c] = NoClient
    BY <1>3, <2>1 DEF GoesOn, CountInv, PeerRight, Changing, Act, Resign, Close, Place,
                      Finish, Post
  <2>5. PeerRight(c)'
    BY <2>1, <2>2, <2>4, GotoFrame DEF GoesOn, PeerRight, Closing
  <2> QED
    BY <2>1, <2>2, <2>3, <2>5, OnwardCounts DEF GoesOn, Counting
<1>4. CASE EraseOwn(c)
  <2>1. ptr[c] \in Inv /\ Allocated(ptr[c])
    BY <1>4, HeldPointer DEF EraseOwn, Counting
  <2>2. /\ Goto(c, "rmpeer") /\ UNCHANGED <<ptr, peer, op>> /\ pc[c] = "rmown"
        /\ DropInv(ptr[c], NoClient, NoClient)
    BY <1>4 DEF EraseOwn
  <2>3. peer' = [peer EXCEPT ![c] = peer[c]] /\ pc'[c] = "rmpeer" /\ ptr'[c] = ptr[c]
    BY <2>2, GotoFrame DEF Types, TypeOK
  <2>4. SameParties
    BY <2>1, <2>2, DropParted
  <2>5. Opponent(ptr[c], c)' = Opponent(ptr[c], c)
    BY <2>2, <2>3, <2>4, OpponentKept DEF Counting
  <2>6. PeerRight(c)'
    BY <2>2, <2>3, <2>5 DEF CountInv, PeerRight
  <2> QED
    BY <2>1, <2>2, <2>3, <2>6, DropOnwardCounts
<1>5. CASE OwnGone(c) \/ PeerGone(c)
  <2>1. pc[c] \in {"rmown", "rmpeer"}
    BY <1>5 DEF OwnGone, PeerGone
  <2>2. CASE op[c] = "move"
    <3>1. PICK p \in {"rmpeer", "post"} : Goto(c, p)
      BY <1>5, <2>2 DEF OwnGone, PeerGone
    <3>2. UNCHANGED <<inv, ptr, peer, op, cref>>
      BY <1>5, <2>2 DEF OwnGone, PeerGone
    <3>3. PeerRight(c)' /\ SameClients
      BY <2>1, <2>2, <3>1, <3>2, GotoFrame
      DEF CountInv, PeerRight, SameClients, Allocated, Opponent
    <3> QED
      BY <2>1, <3>1, <3>2, <3>3, OnwardCounts
  <2>3. CASE op[c] # "move"
    <3>1. GiveUp(c, NoClient)
      BY <1>5, <2>3 DEF OwnGone, PeerGone
    <3>2. peer[c] = NoClient
      BY <2>1, <2>3 DEF CountInv, PeerRight
    <3> QED
      BY <2>1, <3>1, <3>2, GiveUpCounts DEF Counting
  <2> QED
    BY <2>2, <2>3
<1>6. CASE ErasePeer(c)
  <2> DEFINE q == Opponent(ptr[c], c)
             gain == IF op[c] = "move" THEN NoClient ELSE q
  <2>1. ptr[c] \in Inv /\ Allocated(ptr[c])
    BY <1>6, HeldPointer DEF ErasePeer, Counting
  <2>2. PICK p \in {"post", "drop"} : Goto(c, p)
    BY <1>6 DEF ErasePeer
  <2>3. /\ UNCHANGED <<ptr, op>> /\ pc[c] = "rmpeer" /\ peer' = [peer EXCEPT ![c] = q]
        /\ DropInv(ptr[c], gain, NoClient)
    BY <1>6 DEF ErasePeer
  <2>4. peer[c] = IF op[c] = "move" THEN q ELSE NoClient
    BY <2>3 DEF CountInv, PeerRight
  <2>5. PeerRight(c)'
    BY <2>2, GotoFrame DEF PeerRight
  <2> HIDE DEF q
  <2>6. (gain = NoClient /\ q = peer[c]) \/ (peer[c] = NoClient /\ q = gain)
    BY <2>4
  <2> HIDE DEF gain
  <2> QED
    BY <2>1, <2>2, <2>3, <2>5, <2>6, DropOnwardCounts
<1>7. CASE Search(c)
  <2> DEFINE q == Opponent(ptr[c], c)
  <2>1. PICK p \in {"over", "drop"} : Goto(c, p) /\ (p = "over" => op[c] = "move")
    BY <1>7 DEF Search
  <2>2. /\ UNCHANGED <<ptr, inv, op>> /\ pc[c] = "search" /\ GainClient(q)
        /\ peer' = [peer EXCEPT ![c] = q]
    BY <1>7 DEF Search
  <2>3. peer[c] = NoClient /\ peer'[c] = q
    BY <2>2 DEF CountInv, PeerRight, Types, TypeOK
  <2>4. PeerRight(c)'
    BY <2>1, <2>2, <2>3, GotoFrame DEF PeerRight, Opponent
  <2> HIDE DEF q
  <2> QED
    BY <2>1, <2>2, <2>3, <2>4, GainCounts
<1>8. CASE CheckOver(c)
  <2>1. pc[c] = "over"
    BY <1>8 DEF CheckOver
  <2>2. CASE inv[ptr[c]].game = "over"
    <3>1. Goto(c, "rmown") /\ UNCHANGED <<inv, ptr, peer, op, cref>>
      BY <1>8, <2>2 DEF CheckOver
    <3>2. PeerRight(c)' /\ SameClients
      BY <2>1, <3>1, GotoFrame DEF CountInv, PeerRight, SameClients, Allocated, Opponent
    <3> QED
      BY <2>1, <3>1, <3>2, OnwardCounts
  <2>3. CASE inv[ptr[c]].game # "over"
    BY <1>8, <2>1, <2>3, HeldPointer, DropReturnCounts DEF CheckOver, Counting
  <2> QED
    BY <2>2, <2>3
<1>9. CASE Drop(c)
  <2>1. ptr[c] \in Inv /\ Allocated(ptr[c]) /\ pc[c] = "drop"
    BY <1>9, HeldPointer DEF Drop, Counting
  <2>2. CASE op[c] \in {"move", "resign"}
    <3>1. PICK ok : Return(c, ok)
      BY <1>9, <2>2 DEF Drop
    <3> QED
      BY <1>9, <2>1, <2>2, <3>1, DropReturnCounts DEF Drop
  <2>3. CASE op[c] \notin {"move", "resign"}
    <3>1. /\ Goto(c, "notify") /\ ptr' = [ptr EXCEPT ![c] = NoInv]
          /\ UNCHANGED <<peer, op>> /\ DropInv(ptr[c], NoClient, NoClient)
      BY <1>9, <2>3 DEF Drop
    <3>2. peer' = [peer EXCEPT ![c] = peer[c]]
      BY <3>1 DEF Types, TypeOK
    <3>3. PeerRight(c)'
      BY <3>1, GotoFrame DEF PeerRight
    <3> QED
      BY <2>1, <3>1, <3>2, <3>3, DropOnwardCounts
  <2> QED
    BY <2>2, <2>3
<1>10. CASE Notify(c)
  <2>1. PICK ok : Return(c, ok)
    BY <1>10 DEF Notify
  <2>2. SameClients /\ \A x \in Client : cref'[x] = cref[x] - One(x = peer[c])
    BY <1>10 DEF Notify, SameClients, Allocated, LoseClient
  <2> QED
    BY <1>10, <2>1, <2>2, ReturnCounts DEF Notify
<1>11. CASE Ack(c)
  <2>1. /\ Goto(c, "idle") /\ UNCHANGED <<ptr, peer, cref, inv>> /\ pc[c] = "ack"
        /\ op' = [op EXCEPT ![c] = "none"]
    BY <1>11 DEF Ack, objects
  <2>2. PeerRight(c)' /\ SameClients
    BY <2>1, GotoFrame DEF CountInv, PeerRight, SameClients, Allocated
  <2> QED
    BY <2>1, <2>2, OnwardCounts
<1> QED
  BY <1>1, <1>2, <1>3, <1>4, <1>5, <1>6, <1>7, <1>8, <1>9, <1>10, <1>11
  DEF Serve, Changing

\* The last step of a connection: its thread gives the registration back.
LEMMA UnregisterCounts ==
    ASSUME CountInv, RefInv', NEW c \in Client, Unregister(c)
    PROVE  CountInv'
<1>1. /\ pc[c] = "unregister" /\ pc'[c] = "gone"
      /\ \A d \in Client \ {c} : pc'[d] = pc[d]
      /\ UNCHANGED <<inv, op, ptr, peer>>
      /\ cref' = [x \in Client |-> cref[x] - One(x = c)]
  BY GotoFrame DEF Unregister, At, LoseClient, CountInv, RefInv
<1>2. /\ Live' = Live /\ Clean' /\ \A x \in Client : PeerRefs(x)' = PeerRefs(x)
      /\ \A x : SrcOf(x)' = SrcOf(x) /\ TgtOf(x)' = TgtOf(x)
  BY <1>1 DEF Live, Allocated, CountInv, Clean, PeerRefs, SrcOf, TgtOf
<1>3. \A d \in Client : PeerRight(d)'
  BY <1>1 DEF CountInv, PeerRight, Opponent
<1>4. ASSUME NEW x \in Client
      PROVE  cref'[x] = One(pc'[x] # "gone") + Cardinality(SrcOf(x)')
                        + Cardinality(TgtOf(x)') + Cardinality(PeerRefs(x)')
  <2>1. /\ cref[x] = One(pc[x] # "gone") + Cardinality(SrcOf(x)) + Cardinality(TgtOf(x))
                     + Cardinality(PeerRefs(x))
        /\ Cardinality(SrcOf(x)) \in Nat /\ Cardinality(TgtOf(x)) \in Nat
        /\ Cardinality(PeerRefs(x)) \in Nat
    BY PartiesFinite DEF CountInv, ClientRefExact, SrcOf, TgtOf
  <2>2. One(pc'[x] # "gone") = One(pc[x] # "gone") - One(x = c)
    BY <1>1 DEF One
  <2>3. /\ Cardinality(SrcOf(x)') = Cardinality(SrcOf(x))
        /\ Cardinality(TgtOf(x)') = Cardinality(TgtOf(x))
        /\ Cardinality(PeerRefs(x)') = Cardinality(PeerRefs(x))
    BY <1>2
  <2> QED
    BY <1>1, <2>1, <2>2, <2>3 DEF One
<1> QED
  BY <1>2, <1>3, <1>4 DEF CountInv, ClientRefExact, SrcOf, TgtOf

LEMMA OtherCounts ==
    ASSUME CountInv, RefInv', NEW c \in Client, Arrive(c) \/ Logout(c)
    PROVE  CountInv'
<1> Types
  BY DEF CountInv, RefInv
<1> USE DEF At
<1>1. ASSUME NEW t \in Client, Lookup(c, t) PROVE CountInv'
  <2>1. /\ Goto(c, "create") /\ UNCHANGED <<ptr, inv>> /\ GainClient(t)
        /\ op' = [op EXCEPT ![c] = "invite"] /\ peer' = [peer EXCEPT ![c] = t]
        /\ pc[c] = "idle"
    BY <1>1 DEF Lookup
  <2>2. peer[c] = NoClient
    BY <2>1 DEF CountInv, PeerRight
  <2>3. PeerRight(c)'
    BY <2>1, GotoFrame DEF PeerRight
  <2> QED
    BY <2>1, <2>2, <2>3, GainCounts
<1>2. ASSUME NEW o \in Request, NEW k \in Slot, Ask(c, o, k) PROVE CountInv'
  <2>1. /\ Goto(c, "peeked") /\ UNCHANGED <<peer, cref, inv>> /\ pc[c] = "idle"
        /\ op' = [op EXCEPT ![c] = o] /\ ptr' = [ptr EXCEPT ![c] = lst[c][k]]
    BY <1>2 DEF Ask, objects
  <2>2. PeerRight(c)' /\ SameClients
    BY <2>1, GotoFrame DEF CountInv, PeerRight, SameClients, Allocated
  <2> QED
    BY <2>1, <2>2, OnwardCounts
<1>3. CASE Leave(c)
  <2>1. /\ Goto(c, "scan") /\ UNCHANGED <<ptr, peer, cref, inv>> /\ pc[c] = "idle"
        /\ op' = [op EXCEPT ![c] = FirstAttempt]
    BY <1>3 DEF Leave, objects
  <2>2. PeerRight(c)' /\ SameClients
    BY <2>1, GotoFrame DEF CountInv, PeerRight, SameClients, Allocated
  <2> QED
    BY <2>1, <2>2, OnwardCounts
<1>4. CASE ScanEmpty(c)
  <2>1. Return(c, FALSE) /\ UNCHANGED <<cref, inv>> /\ pc[c] = "scan"
    BY <1>4 DEF ScanEmpty, objects
  <2>2. peer[c] = NoClient /\ SameClients
    BY <2>1 DEF CountInv, PeerRight, SameClients, Allocated
  <2>3. ASSUME NEW x \in Client PROVE cref'[x] = cref[x] - One(x = peer[c])
    BY <2>1, <2>2 DEF One, Types, TypeOK
  <2> QED
    BY <2>1, <2>2, <2>3, ReturnCounts
<1>5. CASE ScanPeek(c)
  <2>1. /\ Goto(c, "peeked") /\ UNCHANGED <<op, peer, cref, inv>> /\ pc[c] = "scan"
        /\ ptr' = [ptr EXCEPT ![c] = lst[c][slot[c]]]
    BY <1>5 DEF ScanPeek, objects
  <2>2. PeerRight(c)' /\ SameClients
    BY <2>1, GotoFrame DEF CountInv, PeerRight, SameClients, Allocated
  <2> QED
    BY <2>1, <2>2, OnwardCounts
<1>6. CASE LoggedOut(c)
  <2>1. /\ Goto(c, "unregister") /\ UNCHANGED <<ptr, peer, cref, inv>> /\ pc[c] = "scan"
        /\ op' = [op EXCEPT ![c] = "none"]
    BY <1>6 DEF LoggedOut
  <2>2. PeerRight(c)' /\ SameClients
    BY <2>1, GotoFrame DEF CountInv, PeerRight, SameClients, Allocated
  <2> QED
    BY <2>1, <2>2, OnwardCounts
<1> QED
  BY <1>1, <1>2, <1>3, <1>4, <1>5, <1>6, UnregisterCounts DEF Arrive, Logout

LEMMA CountsInit == Init => CountInv
<1> SUFFICES ASSUME Init PROVE CountInv
  OBVIOUS
<1>1. RefInv
  BY RefsInit
<1>2. \A i \in Inv : inv[i].src = NoClient /\ inv[i].tgt = NoClient /\ ~Allocated(i)
  BY DEF Init, Blank, Allocated
<1>3. Clean /\ Live = {} /\ \A c \in Client : PeerRight(c)
  BY <1>2 DEF Clean, Live, PeerRight, Init
<1>4. ASSUME NEW c \in Client
      PROVE  /\ {i \in Inv : inv[i].src = c} = {} /\ {i \in Inv : inv[i].tgt = c} = {}
             /\ PeerRefs(c) = {} /\ cref[c] = 1 /\ pc[c] # "gone"
  <2>1. \A i \in Inv : inv[i].src # c /\ inv[i].tgt # c
    BY <1>2
  <2> QED
    BY <2>1 DEF Init, PeerRefs
<1>5. ClientRefExact
  BY <1>4, FS_EmptySet DEF ClientRefExact, One
<1> QED
  BY <1>1, <1>3, <1>5, FS_EmptySet DEF CountInv

LEMMA CountsStep == CountInv /\ [Next]_vars => CountInv'
<1> SUFFICES ASSUME CountInv, [Next]_vars PROVE CountInv'
  OBVIOUS
<1>1. RefInv'
  BY RefsStep DEF CountInv
<1>2. CASE UNCHANGED vars \/ \E c \in Client : Disconnect(c)
  <2>1. UNCHANGED <<objects, threads>>
    BY <1>2 DEF vars, Disconnect
  <2> QED
    BY <1>1, <2>1, NothingCounts DEF objects, threads
<1>3. ASSUME NEW c \in Client, Arrive(c) \/ Work(c) PROVE CountInv'
  BY <1>1, <1>3, InviteCounts, ServeCounts, OtherCounts DEF Work
<1> QED
  BY <1>2, <1>3 DEF Next, Halted

\* The reference count of a client is what refers to it: its registration,
\* the invitations that name it and the requests that have it as their peer
\* (client_ref, client_unref, inv_create, inv_unref and every early return).
THEOREM ClientRefsCorrect == Spec => []ClientRefExact
<1>1. CountInv => ClientRefExact
  BY DEF CountInv
<1> QED
  BY <1>1, CountsInit, CountsStep, PTL DEF Spec
=============================================================================
