------------------------- MODULE InvitationsProofs -------------------------
(***************************************************************************)
(* Theorems about Invitations, for any number of clients, any number of    *)
(* invitations and lists of any length.                                    *)
(*                                                                         *)
(* First what the variables hold (Types), then that the reference counts   *)
(* of invitations are exact (Refs), so that no list slot and no request at *)
(* work points to freed memory, and last that the requests that end an     *)
(* invitation exclude each other.                                          *)
(*                                                                         *)
(* The argument for the last: a thread past the checks of inv_close holds  *)
(* a reference to an invitation that is closed, or it is resigning and     *)
(* holds the state_mutex until it has closed it.  By RefExact that         *)
(* reference keeps the invitation from being freed, nothing reopens a      *)
(* closed one, and inv_close refuses it; so no other thread gets there     *)
(* until the reference is dropped.                                         *)
(***************************************************************************)
EXTENDS Invitations, FiniteSetTheorems, TLAPS

USE ClientAssumption, InvAssumption, CapAssumption, QuarantineAssumption

-----------------------------------------------------------------------------
\* Sets of references and their sizes.

\* The slots and the threads that refer to an invitation are finitely many.
LEMMA FiniteRefs ==
    ASSUME NEW i
    PROVE  /\ IsFiniteSet(SlotRefs(i)) /\ Cardinality(SlotRefs(i)) \in Nat
           /\ IsFiniteSet(ThreadRefs(i)) /\ Cardinality(ThreadRefs(i)) \in Nat
<1>1. IsFiniteSet(Slot)
  BY FS_Interval DEF Slot
<1>2. IsFiniteSet(Client \X Slot)
  BY <1>1, FS_Product
<1>3. SlotRefs(i) \in SUBSET (Client \X Slot) /\ ThreadRefs(i) \in SUBSET Client
  BY DEF SlotRefs, ThreadRefs
<1>4. IsFiniteSet(SlotRefs(i))
  BY <1>2, <1>3, FS_Subset
<1>5. IsFiniteSet(ThreadRefs(i))
  BY <1>3, FS_Subset
<1> QED
  BY <1>4, <1>5, FS_CardinalityType

\* A step that leaves the lists alone keeps every set of slots.
LEMMA SlotsKept ==
    ASSUME UNCHANGED lst, NEW i
    PROVE  Cardinality(SlotRefs(i)') = Cardinality(SlotRefs(i))
BY DEF SlotRefs

\* Filling an empty slot adds one reference, to the invitation put there.
LEMMA SlotFilled ==
    ASSUME lst \in [Client -> [Slot -> Inv \cup {NoInv}]],
           NEW c \in Client, NEW k \in Slot, NEW i \in Inv,
           lst[c][k] = NoInv, lst' = [lst EXCEPT ![c][k] = i],
           NEW j \in Inv
    PROVE  Cardinality(SlotRefs(j)') = Cardinality(SlotRefs(j)) + One(j = i)
<1>1. <<c, k>> \notin SlotRefs(j)
  BY DEF SlotRefs
<1>2. CASE j = i
  <2>1. SlotRefs(j)' = SlotRefs(j) \cup {<<c, k>>}
    BY <1>2 DEF SlotRefs
  <2> QED
    BY <1>1, <1>2, <2>1, FiniteRefs, FS_AddElement DEF One
<1>3. CASE j # i
  <2>1. SlotRefs(j)' = SlotRefs(j)
    BY <1>3 DEF SlotRefs
  <2> QED
    BY <1>3, <2>1, FiniteRefs DEF One
<1> QED
  BY <1>2, <1>3

\* Emptying a slot takes one reference away, from the invitation found there.
LEMMA SlotEmptied ==
    ASSUME lst \in [Client -> [Slot -> Inv \cup {NoInv}]],
           NEW c \in Client, NEW k \in Slot, NEW i \in Inv,
           lst[c][k] = i, lst' = [lst EXCEPT ![c][k] = NoInv],
           NEW j \in Inv
    PROVE  Cardinality(SlotRefs(j)') = Cardinality(SlotRefs(j)) - One(j = i)
<1>1. CASE j = i
  <2>1. <<c, k>> \in SlotRefs(j)
    BY <1>1 DEF SlotRefs
  <2>2. SlotRefs(j)' = SlotRefs(j) \ {<<c, k>>}
    BY <1>1 DEF SlotRefs
  <2>3. Cardinality(SlotRefs(j) \ {<<c, k>>}) = Cardinality(SlotRefs(j)) - 1
    BY <2>1, FiniteRefs, FS_RemoveElement
  <2> QED
    BY <1>1, <2>2, <2>3 DEF One
<1>2. CASE j # i
  <2>1. SlotRefs(j)' = SlotRefs(j)
    BY <1>2 DEF SlotRefs
  <2> QED
    BY <1>2, <2>1, FiniteRefs DEF One
<1> QED
  BY <1>1, <1>2

\* A step of one thread changes the set of threads by that thread at most.
LEMMA ThreadMoved ==
    ASSUME NEW c \in Client,
           \A d \in Client \ {c} : pc'[d] = pc[d] /\ ptr'[d] = ptr[d],
           NEW j \in Inv
    PROVE  Cardinality(ThreadRefs(j)')
             = Cardinality(ThreadRefs(j)) - One(pc[c] \in Counting /\ ptr[c] = j)
                                          + One(pc'[c] \in Counting /\ ptr'[c] = j)
<1> DEFINE Others == ThreadRefs(j) \ {c}
<1>1. ThreadRefs(j) = IF pc[c] \in Counting /\ ptr[c] = j
                      THEN Others \cup {c} ELSE Others
  BY DEF ThreadRefs
<1>2. ThreadRefs(j)' = IF pc'[c] \in Counting /\ ptr'[c] = j
                       THEN Others \cup {c} ELSE Others
  BY DEF ThreadRefs
<1>3. IsFiniteSet(Others) /\ Cardinality(Others) \in Nat
  BY FiniteRefs, FS_RemoveElement, FS_CardinalityType
<1>4. Cardinality(Others \cup {c}) = Cardinality(Others) + 1
  BY <1>3, FS_AddElement
<1> HIDE DEF Others
<1> QED
  BY <1>1, <1>2, <1>3, <1>4 DEF One

-----------------------------------------------------------------------------
\* Types.  TypeOK is not inductive alone: what a thread may do next depends
\* on where it is, and so does what its registers must hold there.

Control == \A c \in Client :
    /\ pc[c] \in Counting \cup {"peeked", "undo"} => ptr[c] \in Inv
    /\ pc[c] \in {"create", "addsrc", "addtgt", "undo"} =>
         peer[c] \in Client /\ ~leaving[c] /\ op[c] = "invite"
    /\ pc[c] \in {"peeked", "act", "rmown", "rmpeer", "search", "over", "post"} =>
         op[c] \in Request
    /\ pc[c] \in {"resign", "close"} => op[c] = "resign"
    /\ pc[c] \in {"place", "finish"} => op[c] = "move"
    /\ pc[c] = "scan" => op[c] \in Closing /\ leaving[c]
    /\ pc[c] \in {"idle", "ack"} => ~leaving[c]
    /\ leaving[c] /\ pc[c] \notin {"scan", "unregister", "gone"} => slot[c] \in Slot

Types == TypeOK /\ Control

LEMMA ReleasedType == Released \in InvRecord
BY DEF Released, Blank, InvRecord

LEMMA FreshType ==
    ASSUME NEW c \in Client, NEW d \in Client
    PROVE  Fresh(c, d) \in InvRecord
BY DEF Fresh, Blank, InvRecord

\* Dropping a reference keeps the types of the counts and of invitations.
LEMMA DropTypes ==
    ASSUME TypeOK, NEW i \in Inv, NEW gain, NEW loss, DropInv(i, gain, loss)
    PROVE  /\ ref' \in [Inv -> Int]
           /\ inv' \in [Inv -> InvRecord]
           /\ cref' \in [Client -> Int]
<1>1. ref' \in [Inv -> Int]
  BY DEF TypeOK, DropInv
<1>2. inv' \in [Inv -> InvRecord]
  BY ReleasedType DEF TypeOK, DropInv
<1>3. cref' \in [Client -> Int]
  BY DEF TypeOK, DropInv, One
<1> QED
  BY <1>1, <1>2, <1>3

\* The steps of a request that change an invitation and nothing else but
\* where the thread goes on.
Changing(c) == Act(c) \/ Resign(c) \/ Close(c) \/ Place(c) \/ Finish(c) \/ Post(c)

\* They keep the parties, free nothing and reopen nothing ...
Kept(old, new) ==
    /\ new \in InvRecord /\ new.src = old.src /\ new.tgt = old.tgt
    /\ new.state \in {"accepted", "closed"} \/ new.state = old.state
    /\ old.state = "closed" => new.state = "closed"

\* ... and go on in the same request.
GoesOn(c, p) ==
    /\ Goto(c, p)
    /\ p \in {"resign", "close", "place", "finish", "rmown", "search", "drop"}
    /\ p = "drop" <=> pc[c] = "post"
    /\ p = "rmown" => op[c] \in Closing
    /\ p \in {"resign", "close"} => op[c] = "resign"
    /\ p \in {"place", "finish"} => op[c] = "move"

LEMMA EffectKept ==
    ASSUME Types, NEW c \in Client, Act(c)
    PROVE  \E new : inv' = [inv EXCEPT ![ptr[c]] = new] /\ Kept(inv[ptr[c]], new)
<1> DEFINE i == ptr[c]
<1>1. i \in Inv /\ inv[i] \in InvRecord /\ inv \in [Inv -> InvRecord] /\ op[c] \in Request
  BY DEF Act, At, Types, TypeOK, Control, Counting
<1>2. Effect(c, i) /\ May(c, i)
  BY DEF Act
<1> SUFFICES \E m : inv' = [inv EXCEPT ![i] = m] /\ Kept(inv[i], m)
  OBVIOUS
<1> HIDE DEF i
<1>3. Parties(i) \subseteq Client \cup {NoClient}
  BY <1>1 DEF Parties, InvRecord
<1>4. ASSUME NEW new, Becomes(i, new), Kept(inv[i], new)
      PROVE  \E m : inv' = [inv EXCEPT ![i] = m] /\ Kept(inv[i], m)
  <2>1. Kept(inv[i], [new EXCEPT !.early = @ \/ ~Shared(i)])
    BY <1>4, Zenon DEF Kept, InvRecord
  <2> QED
    BY <1>4, <2>1 DEF Becomes
<1>5. CASE op[c] \in {"revoke", "decline"}
  <2>1. Kept(inv[i], [inv[i] EXCEPT !.state = "closed"])
    BY <1>1 DEF Kept, InvRecord
  <2> QED
    BY <1>2, <1>4, <1>5, <2>1 DEF Effect
<1>6. CASE op[c] = "accept"
  <2>1. inv[i].state = "open"
    BY <1>2, <1>6 DEF May, MayAccept
  <2>2. PICK t \in Parties(i) :
          Becomes(i, [inv[i] EXCEPT !.state = "accepted", !.game = "running", !.turn = t])
    BY <1>2, <1>6 DEF Effect
  <2>3. Kept(inv[i], [inv[i] EXCEPT !.state = "accepted", !.game = "running", !.turn = t])
    BY <1>1, <1>3, <2>1 DEF Kept, InvRecord
  <2> QED
    BY <1>4, <2>2, <2>3
<1>7. CASE op[c] \in {"resign", "move"}
  <2>1. inv' = [inv EXCEPT ![i] = inv[i]] /\ Kept(inv[i], inv[i])
    BY <1>1, <1>2, <1>7 DEF Effect, Kept
  <2> QED
    BY <2>1
<1> QED
  BY <1>1, <1>5, <1>6, <1>7 DEF Request, Closing, i

LEMMA ChangesKeep ==
    ASSUME Types, NEW c \in Client, Changing(c)
    PROVE  /\ alive /\ ptr[c] \in Inv /\ pc[c] \in Counting /\ op[c] \in Request
           /\ \E new : inv' = [inv EXCEPT ![ptr[c]] = new] /\ Kept(inv[ptr[c]], new)
           /\ \E p : GoesOn(c, p)
           /\ UNCHANGED <<lst, len, cref, player, ref, op, slot, ptr, peer, pslot,
                          leaving, conn, alive>>
<1> DEFINE i == ptr[c]
<1>1. i \in Inv /\ pc[c] \in Counting /\ inv[i] \in InvRecord /\ inv \in [Inv -> InvRecord]
  BY DEF Changing, Act, Resign, Close, Place, Finish, Post, At, Types, TypeOK, Control,
         Counting
<1> op[c] \in Request
  BY DEF Changing, Act, Resign, Close, Place, Finish, Post, At, Types, Control, Request,
         Closing
<1>2. \E new : inv' = [inv EXCEPT ![i] = new] /\ Kept(inv[i], new)
  <2>1. CASE Resign(c)
    <3>1. inv' = [inv EXCEPT ![i] = [inv[i] EXCEPT !.game = "over"]]
      BY <2>1 DEF Resign
    <3>2. Kept(inv[i], [inv[i] EXCEPT !.game = "over"])
      BY <1>1 DEF Kept, InvRecord
    <3> QED
      BY <3>1, <3>2
  <2>2. CASE Close(c)
    <3>1. inv' = [inv EXCEPT ![i] = [inv[i] EXCEPT !.state = "closed"]]
      BY <2>2 DEF Close
    <3>2. Kept(inv[i], [inv[i] EXCEPT !.state = "closed"])
      BY <1>1 DEF Kept, InvRecord
    <3> QED
      BY <3>1, <3>2
  <2>3. CASE Place(c)
    <3>1. inv' = [inv EXCEPT ![i] = [inv[i] EXCEPT !.turn = Opponent(i, c)]]
      BY <2>3 DEF Place
    <3>2. Opponent(i, c) \in Client \cup {NoClient}
      BY <1>1 DEF Opponent, InvRecord
    <3>3. Kept(inv[i], [inv[i] EXCEPT !.turn = Opponent(i, c)])
      BY <1>1, <3>2 DEF Kept, InvRecord
    <3> QED
      BY <3>1, <3>3
  <2>4. CASE UNCHANGED inv
    <3>1. inv' = [inv EXCEPT ![i] = inv[i]] /\ Kept(inv[i], inv[i])
      BY <1>1, <2>4 DEF Kept
    <3> QED
      BY <3>1
  <2>5. CASE Finish(c)
    <3>1. Kept(inv[i], [inv[i] EXCEPT !.game = "over"])
      BY <1>1 DEF Kept, InvRecord
    <3>2. \/ inv' = [inv EXCEPT ![i] = [inv[i] EXCEPT !.game = "over"]]
          \/ UNCHANGED inv
      BY <2>5 DEF Finish
    <3> QED
      BY <2>4, <3>1, <3>2
  <2>6. CASE Post(c)
    <3>1. inv[i].posted + 1 \in Nat
      BY <1>1 DEF InvRecord
    <3>2. Kept(inv[i], [inv[i] EXCEPT !.posted = @ + 1])
      BY <1>1, <3>1 DEF Kept, InvRecord
    <3>3. \/ inv' = [inv EXCEPT ![i] = [inv[i] EXCEPT !.posted = @ + 1]]
          \/ UNCHANGED inv
      BY <2>6 DEF Post
    <3> QED
      BY <2>4, <3>2, <3>3
  <2> QED
    BY <2>1, <2>2, <2>3, <2>5, <2>6, EffectKept DEF Changing
<1>3. \E p : GoesOn(c, p)
  <2>1. CASE Act(c)
    <3>1. op[c] \in Request /\ Goto(c, AfterAct(op[c])) /\ pc[c] = "act"
      BY <2>1 DEF Act, At, Types, Control
    <3>2. GoesOn(c, AfterAct(op[c]))
      BY <3>1 DEF GoesOn, AfterAct, Request, Closing
    <3> QED
      BY <3>2
  <2>2. CASE Resign(c)
    <3>1. GoesOn(c, "close")
      BY <2>2 DEF Resign, At, GoesOn, Types, Control
    <3> QED
      BY <3>1
  <2>3. CASE Close(c)
    <3>1. GoesOn(c, "rmown")
      BY <2>3 DEF Close, At, GoesOn, Closing, Types, Control
    <3> QED
      BY <3>1
  <2>4. CASE Place(c)
    <3>1. GoesOn(c, "finish")
      BY <2>4 DEF Place, At, GoesOn, Types, Control
    <3> QED
      BY <3>1
  <2>5. CASE Finish(c)
    <3>1. GoesOn(c, "search")
      BY <2>5 DEF Finish, At, GoesOn
    <3> QED
      BY <3>1
  <2>6. CASE Post(c)
    <3>1. GoesOn(c, "drop")
      BY <2>6 DEF Post, At, GoesOn
    <3> QED
      BY <3>1
  <2> QED
    BY <2>1, <2>2, <2>3, <2>4, <2>5, <2>6 DEF Changing
<1>4. /\ alive
      /\ UNCHANGED <<lst, len, cref, player, ref, op, slot, ptr, peer, pslot,
                     leaving, conn, alive>>
  BY DEF Changing, Act, Resign, Close, Place, Finish, Post, At
<1> QED
  BY <1>1, <1>2, <1>3, <1>4

LEMMA ChangingTypes ==
    ASSUME Types, NEW c \in Client, Changing(c)
    PROVE  Types'
<1> TypeOK /\ Control
  BY DEF Types
<1>1. PICK new : inv' = [inv EXCEPT ![ptr[c]] = new] /\ Kept(inv[ptr[c]], new)
  BY ChangesKeep
<1>2. PICK p : GoesOn(c, p)
  BY ChangesKeep
<1>3. /\ ptr[c] \in Inv /\ pc[c] \in Counting
      /\ UNCHANGED <<lst, len, cref, player, ref, op, slot, ptr, peer, pslot,
                     leaving, conn, alive>>
  BY ChangesKeep
<1>4. pc' = [pc EXCEPT ![c] = p] /\ p \in Pc /\ p \in Counting
  BY <1>2 DEF GoesOn, Goto, Pc, Counting
<1>5. op[c] \in Request
  BY ChangesKeep
<1>6. TypeOK'
  BY <1>1, <1>3, <1>4 DEF TypeOK, Kept
<1>7. Control'
  BY <1>2, <1>3, <1>4, <1>5 DEF TypeOK, Control, Counting, GoesOn
<1> QED
  BY <1>6, <1>7 DEF Types

\* The end of a request leaves every register of the thread as it must be.
LEMMA ReturnTypes ==
    ASSUME Types, NEW c \in Client, NEW ok \in BOOLEAN, Return(c, ok),
           leaving[c] => slot[c] \in Slot
    PROVE  /\ pc' \in [Client -> Pc]
           /\ op' \in [Client -> Request \cup {"invite", "none"}]
           /\ slot' \in [Client -> 0 .. Cap]
           /\ ptr' \in [Client -> Inv \cup {NoInv}]
           /\ peer' \in [Client -> Client \cup {NoClient}]
           /\ pslot' \in [Client -> 0 .. Cap]
           /\ leaving' \in [Client -> BOOLEAN]
           /\ Control'
<1> TypeOK /\ Control
  BY DEF Types
<1>1. /\ ptr' = [ptr EXCEPT ![c] = NoInv]
      /\ peer' = [peer EXCEPT ![c] = NoClient]
      /\ pslot' = [pslot EXCEPT ![c] = NoSlot]
      /\ leaving' = leaving
      /\ NoSlot \in 0 .. Cap
  BY DEF Return, NoSlot
<1>2. CASE leaving[c]
  <2>1. pc' = [pc EXCEPT ![c] = "scan"] /\ ScanOn(c, ok)
    BY <1>2 DEF Return, Goto
  <2>2. slot[c] + 1 \in 0 .. Cap /\ slot[c] \in 0 .. Cap
    BY <1>2 DEF Slot
  <2>3. slot' \in [Client -> 0 .. Cap]
    BY <2>1, <2>2 DEF ScanOn, TypeOK
  <2>4. NextAttempt(op[c]) \in Closing /\ FirstAttempt \in Closing
    BY DEF NextAttempt, FirstAttempt, Closing
  <2>5. PICK o \in Closing : op' = [op EXCEPT ![c] = o]
    BY <2>1, <2>4 DEF ScanOn
  <2>6. PICK k : slot' = [slot EXCEPT ![c] = k]
    BY <2>1 DEF ScanOn
  <2> QED
    BY <1>1, <1>2, <2>1, <2>3, <2>5, <2>6
    DEF TypeOK, Control, Pc, Counting, Request, Closing
<1>3. CASE ~leaving[c] /\ ok /\ op[c] = "invite"
  <2>1. pc' = [pc EXCEPT ![c] = "ack"] /\ slot' = slot /\ op' = op
    BY <1>3 DEF Return, Goto
  <2> QED
    BY <1>1, <1>3, <2>1 DEF TypeOK, Control, Pc, Counting
<1>4. CASE ~leaving[c] /\ ~(ok /\ op[c] = "invite")
  <2>1. /\ pc' = [pc EXCEPT ![c] = "idle"]
        /\ slot' = [slot EXCEPT ![c] = NoSlot]
        /\ op' = [op EXCEPT ![c] = "none"]
    BY <1>4 DEF Return, Goto
  <2> QED
    BY <1>1, <1>4, <2>1 DEF TypeOK, Control, Pc, Counting
<1> QED
  BY <1>2, <1>3, <1>4

LEMMA TypesInit == Init => Types
BY DEF Init, Types, TypeOK, Control, Counting, Pc, NoSlot, Slot, Blank, InvRecord

\* Filling or emptying a slot keeps the types of the lists.
LEMMA ListTypes ==
    ASSUME TypeOK, NEW c, NEW i \in Inv, NEW k \in Slot,
           Insert(c, i, k) \/ Erase(c, i, k)
    PROVE  /\ lst' \in [Client -> [Slot -> Inv \cup {NoInv}]]
           /\ len' \in [Client -> Int]
           /\ Insert(c, i, k) => ref' \in [Inv -> Int]
           /\ k \in 0 .. Cap
<1>1. PICK x \in Inv \cup {NoInv} : lst' = [lst EXCEPT ![c][k] = x]
  BY DEF Insert, Erase
<1>2. lst' \in [Client -> [Slot -> Inv \cup {NoInv}]]
  BY <1>1 DEF TypeOK
<1>3. len' \in [Client -> Int]
  BY DEF Insert, Erase, TypeOK
<1>4. k \in 0 .. Cap
  BY DEF Slot
<1>5. ASSUME ref' = [ref EXCEPT ![i] = @ + 1] PROVE ref' \in [Inv -> Int]
  BY <1>5 DEF TypeOK
<1> QED
  BY <1>2, <1>3, <1>4, <1>5 DEF Insert

\* The early returns keep the types.
LEMMA GiveUpTypes ==
    ASSUME Types, NEW c \in Client, NEW loss, GiveUp(c, loss), pc[c] \in Counting,
           UNCHANGED <<lst, len, player, conn, alive>>
    PROVE  Types'
<1>1. TypeOK /\ ptr[c] \in Inv /\ (leaving[c] => slot[c] \in Slot)
  BY DEF Types, Control, Counting
<1>2. ref' \in [Inv -> Int] /\ inv' \in [Inv -> InvRecord] /\ cref' \in [Client -> Int]
  BY <1>1, DropTypes DEF GiveUp
<1>3. Return(c, FALSE)
  BY DEF GiveUp
<1> QED
  BY <1>1, <1>2, <1>3, ReturnTypes DEF Types, TypeOK

LEMMA ClientTypes ==
    ASSUME TypeOK, NEW p, GainClient(p) \/ LoseClient(p)
    PROVE  cref' \in [Client -> Int]
<1>1. \A x \in Client : cref[x] + One(x = p) \in Int /\ cref[x] - One(x = p) \in Int
  BY DEF TypeOK, One
<1> QED
  BY <1>1 DEF GainClient, LoseClient

LEMMA InviteTypes ==
    ASSUME Types, NEW c \in Client, Invite(c)
    PROVE  Types'
<1> TypeOK /\ Control
  BY DEF Types
<1> USE DEF At, Goto
<1>1. CASE CreateFails(c)
  <2>1. Return(c, FALSE) /\ ~leaving[c]
    BY <1>1 DEF CreateFails, Control
  <2>2. cref' \in [Client -> Int]
    BY <1>1, ClientTypes DEF CreateFails
  <2> QED
    BY <1>1, <2>1, <2>2, ReturnTypes DEF CreateFails, Types, TypeOK
<1>2. ASSUME NEW i \in Inv, Create(c, i) PROVE Types'
  <2>1. peer[c] \in Client /\ ~leaving[c]
    BY <1>2 DEF Create, Control
  <2>2. inv' \in [Inv -> InvRecord]
    BY <1>2, <2>1, FreshType DEF Create, TypeOK
  <2>3. ref' \in [Inv -> Int] /\ cref' \in [Client -> Int]
    BY <1>2 DEF Create, TypeOK, One
  <2>4. TypeOK'
    BY <1>2, <2>2, <2>3 DEF Create, TypeOK, Pc
  <2>5. Control'
    BY <1>2, <2>1 DEF Create, TypeOK, Control, Counting
  <2> QED
    BY <2>4, <2>5 DEF Types
<1>3. CASE AddToSource(c)
  <2>1. ptr[c] \in Inv /\ peer[c] \in Client /\ ~leaving[c]
    BY <1>3 DEF AddToSource, Control, Counting
  <2>2. PICK k \in Slot : Insert(c, ptr[c], k) /\ slot' = [slot EXCEPT ![c] = k]
    BY <1>3 DEF AddToSource
  <2>3. /\ lst' \in [Client -> [Slot -> Inv \cup {NoInv}]] /\ len' \in [Client -> Int]
        /\ k \in 0 .. Cap
    BY <2>1, <2>2, ListTypes
  <2>4. ref' \in [Inv -> Int] /\ slot' \in [Client -> 0 .. Cap]
    BY <2>1, <2>2, <2>3, ListTypes DEF TypeOK
  <2>5. TypeOK'
    BY <1>3, <2>3, <2>4 DEF AddToSource, TypeOK, Pc
  <2>6. Control'
    BY <1>3, <2>1, <2>2 DEF AddToSource, TypeOK, Control, Counting
  <2> QED
    BY <2>5, <2>6 DEF Types
<1>4. CASE SourceFull(c)
  BY <1>4, GiveUpTypes DEF SourceFull, Counting
<1>5. CASE AddToTarget(c)
  <2>1. ptr[c] \in Inv /\ peer[c] \in Client /\ ~leaving[c]
    BY <1>5 DEF AddToTarget, Control, Counting
  <2>2. PICK k \in Slot : Insert(peer[c], ptr[c], k) /\ pslot' = [pslot EXCEPT ![c] = k]
    BY <1>5 DEF AddToTarget
  <2>3. /\ lst' \in [Client -> [Slot -> Inv \cup {NoInv}]] /\ len' \in [Client -> Int]
        /\ k \in 0 .. Cap
    BY <2>1, <2>2, ListTypes
  <2>4. ref' \in [Inv -> Int] /\ pslot' \in [Client -> 0 .. Cap]
    BY <2>1, <2>2, <2>3, ListTypes DEF TypeOK
  <2>5. TypeOK'
    BY <1>5, <2>3, <2>4 DEF AddToTarget, TypeOK, Pc
  <2>6. Control'
    BY <1>5, <2>1 DEF AddToTarget, TypeOK, Control, Counting
  <2> QED
    BY <2>5, <2>6 DEF Types
<1>6. CASE TargetFull(c)
  <2>1. ptr[c] \in Inv /\ peer[c] \in Client /\ ~leaving[c]
    BY <1>6 DEF TargetFull, Control, Counting
  <2>2. TypeOK'
    BY <1>6, <2>1, DropTypes DEF TargetFull, TypeOK, Pc
  <2>3. Control'
    BY <1>6, <2>1 DEF TargetFull, TypeOK, Control, Counting
  <2> QED
    BY <2>2, <2>3 DEF Types
<1>7. CASE Undo(c)
  <2>1. ptr[c] \in Inv /\ ~leaving[c]
    BY <1>7 DEF Undo, Control
  <2>2. PICK k \in Slot : Erase(c, ptr[c], k)
    BY <1>7 DEF Undo
  <2>3. lst' \in [Client -> [Slot -> Inv \cup {NoInv}]] /\ len' \in [Client -> Int]
    BY <2>1, <2>2, ListTypes
  <2>4. ref' \in [Inv -> Int] /\ inv' \in [Inv -> InvRecord] /\ cref' \in [Client -> Int]
    BY <1>7, <2>1, DropTypes DEF Undo
  <2>5. Return(c, TRUE)
    BY <1>7 DEF Undo
  <2> QED
    BY <1>7, <2>1, <2>3, <2>4, <2>5, ReturnTypes DEF Undo, Types, TypeOK
<1> QED
  BY <1>1, <1>2, <1>3, <1>4, <1>5, <1>6, <1>7 DEF Invite

LEMMA ServeTypes ==
    ASSUME Types, NEW c \in Client, Serve(c)
    PROVE  Types'
<1> TypeOK /\ Control
  BY DEF Types
<1> USE DEF At, Goto
<1>1. CASE Take(c)
  <2>1. ptr[c] \in Inv /\ op[c] \in Request
    BY <1>1 DEF Take, Control
  <2>2. CASE ref[ptr[c]] = 0
    BY <1>1, <2>2 DEF Take, Types, TypeOK, Control
  <2>3. CASE ref[ptr[c]] # 0
    <3>1. TypeOK'
      <4>1. ref' = [ref EXCEPT ![ptr[c]] = @ + 1] /\ pc' = [pc EXCEPT ![c] = "act"]
        BY <1>1, <2>3 DEF Take
      <4>2. ref' \in [Inv -> Int] /\ pc' \in [Client -> Pc]
        BY <2>1, <4>1 DEF TypeOK, Pc
      <4> QED
        BY <1>1, <2>3, <4>2 DEF Take, TypeOK
    <3>2. Control'
      BY <1>1, <2>1, <2>3 DEF Take, TypeOK, Control, Counting
    <3> QED
      BY <3>1, <3>2 DEF Types
  <2> QED
    BY <2>2, <2>3
<1>2. CASE Refuse(c) \/ RefuseMove(c)
  BY <1>2, GiveUpTypes DEF Refuse, RefuseMove, Counting
<1>3. CASE Changing(c)
  BY <1>3, ChangingTypes
<1>4. CASE EraseOwn(c)
  <2>1. ptr[c] \in Inv /\ op[c] \in Request
    BY <1>4 DEF EraseOwn, Control, Counting
  <2>2. lst' \in [Client -> [Slot -> Inv \cup {NoInv}]] /\ len' \in [Client -> Int]
    BY <1>4, <2>1, ListTypes DEF EraseOwn
  <2>3. ref' \in [Inv -> Int] /\ inv' \in [Inv -> InvRecord] /\ cref' \in [Client -> Int]
    BY <1>4, <2>1, DropTypes DEF EraseOwn
  <2>4. TypeOK'
    BY <1>4, <2>2, <2>3 DEF EraseOwn, TypeOK, Pc
  <2>5. Control'
    BY <1>4, <2>1 DEF EraseOwn, TypeOK, Control, Counting
  <2> QED
    BY <2>4, <2>5 DEF Types
<1>5. CASE OwnGone(c)
  <2>1. CASE op[c] = "move"
    <3>1. TypeOK'
      BY <1>5, <2>1 DEF OwnGone, TypeOK, Pc
    <3>2. Control'
      BY SMTT(30), <1>5, <2>1 DEF OwnGone, TypeOK, Control, Counting
    <3> QED
      BY <3>1, <3>2 DEF Types
  <2>2. CASE op[c] # "move"
    BY <1>5, <2>2, GiveUpTypes DEF OwnGone, Counting
  <2> QED
    BY <2>1, <2>2
<1>6. CASE ErasePeer(c)
  <2> DEFINE p == Opponent(ptr[c], c)
  <2>1. ptr[c] \in Inv /\ op[c] \in Request /\ p \in Client \cup {NoClient}
    BY <1>6 DEF ErasePeer, Control, Counting, TypeOK, InvRecord, Opponent
  <2>2. PICK k \in Slot : /\ Erase(p, ptr[c], k)
                         /\ pslot' = [pslot EXCEPT ![c] = IF op[c] = "move" THEN @ ELSE k]
    BY <1>6 DEF ErasePeer
  <2>3. PICK gain : DropInv(ptr[c], gain, NoClient)
    BY <1>6 DEF ErasePeer
  <2>4. PICK q \in {"post", "drop"} : pc' = [pc EXCEPT ![c] = q]
    BY <1>6 DEF ErasePeer
  <2>5. peer' = [peer EXCEPT ![c] = p]
    BY <1>6 DEF ErasePeer
  <2>6. /\ lst' \in [Client -> [Slot -> Inv \cup {NoInv}]] /\ len' \in [Client -> Int]
        /\ k \in 0 .. Cap
    BY <2>1, <2>2, ListTypes
  <2>7. ref' \in [Inv -> Int] /\ inv' \in [Inv -> InvRecord] /\ cref' \in [Client -> Int]
    BY <2>1, <2>3, DropTypes
  <2> HIDE DEF p
  <2>8. pslot' \in [Client -> 0 .. Cap] /\ peer' \in [Client -> Client \cup {NoClient}]
    BY <2>1, <2>2, <2>5, <2>6 DEF TypeOK
  <2>9. TypeOK'
    BY <1>6, <2>4, <2>6, <2>7, <2>8 DEF ErasePeer, TypeOK, Pc
  <2>10. Control'
    BY <1>6, <2>1, <2>4, <2>5 DEF ErasePeer, TypeOK, Control, Counting
  <2> QED
    BY <2>9, <2>10 DEF Types
<1>7. CASE PeerGone(c)
  <2>1. CASE op[c] = "move"
    <3>1. TypeOK'
      BY <1>7, <2>1 DEF PeerGone, TypeOK, Pc
    <3>2. Control'
      BY SMTT(30), <1>7, <2>1 DEF PeerGone, TypeOK, Control, Counting
    <3> QED
      BY <3>1, <3>2 DEF Types
  <2>2. CASE op[c] # "move"
    BY <1>7, <2>2, GiveUpTypes DEF PeerGone, Counting
  <2> QED
    BY <2>1, <2>2
<1>8. CASE Search(c)
  <2> DEFINE p == Opponent(ptr[c], c)
  <2>1. ptr[c] \in Inv /\ op[c] \in Request /\ p \in Client \cup {NoClient}
    BY <1>8 DEF Search, Control, Counting, TypeOK, InvRecord, Opponent
  <2>2. PICK q \in {"over", "drop"} : pc' = [pc EXCEPT ![c] = q]
    BY <1>8 DEF Search
  <2>3. cref' \in [Client -> Int]
    BY <1>8, ClientTypes DEF Search
  <2>4. peer' = [peer EXCEPT ![c] = p]
    BY <1>8 DEF Search
  <2> HIDE DEF p
  <2>5. TypeOK'
    <3>1. peer' \in [Client -> Client \cup {NoClient}]
      BY <2>1, <2>4 DEF TypeOK
    <3> QED
      BY <1>8, <2>2, <2>3, <3>1 DEF Search, TypeOK, Pc
  <2>6. Control'
    BY <1>8, <2>1, <2>2, <2>4 DEF Search, TypeOK, Control, Counting
  <2> QED
    BY <2>5, <2>6 DEF Types
<1>9. CASE SearchFails(c)
  BY <1>9, GiveUpTypes DEF SearchFails, Counting
<1>10. CASE CheckOver(c)
  <2>1. CASE inv[ptr[c]].game = "over"
    <3>1. TypeOK'
      BY <1>10, <2>1 DEF CheckOver, TypeOK, Pc
    <3>2. Control'
      BY <1>10, <2>1 DEF CheckOver, TypeOK, Control, Counting
    <3> QED
      BY <3>1, <3>2 DEF Types
  <2>2. CASE inv[ptr[c]].game # "over"
    <3>1. ptr[c] \in Inv /\ (leaving[c] => slot[c] \in Slot)
      BY <1>10 DEF CheckOver, Control, Counting
    <3>2. ref' \in [Inv -> Int] /\ inv' \in [Inv -> InvRecord] /\ cref' \in [Client -> Int]
      BY <1>10, <2>2, <3>1, DropTypes DEF CheckOver
    <3>3. Return(c, TRUE)
      BY <1>10, <2>2 DEF CheckOver
    <3> QED
      BY <1>10, <3>1, <3>2, <3>3, ReturnTypes DEF CheckOver, Types, TypeOK
  <2> QED
    BY <2>1, <2>2
<1>11. CASE Drop(c)
  <2>1. ptr[c] \in Inv /\ (leaving[c] => slot[c] \in Slot)
    BY <1>11 DEF Drop, Control, Counting
  <2>2. PICK loss : DropInv(ptr[c], NoClient, loss)
    BY <1>11 DEF Drop
  <2>3. ref' \in [Inv -> Int] /\ inv' \in [Inv -> InvRecord] /\ cref' \in [Client -> Int]
    BY <2>1, <2>2, DropTypes
  <2>4. CASE op[c] \in {"move", "resign"}
    <3>1. PICK ok \in BOOLEAN : Return(c, ok)
      BY <1>11, <2>4 DEF Drop, SendOutcomes
    <3> QED
      BY <1>11, <2>1, <2>3, <3>1, ReturnTypes DEF Drop, Types, TypeOK
  <2>5. CASE op[c] \notin {"move", "resign"}
    <3>1. pc' = [pc EXCEPT ![c] = "notify"] /\ ptr' = [ptr EXCEPT ![c] = NoInv]
      BY <1>11, <2>5 DEF Drop
    <3>2. UNCHANGED <<lst, len, player, op, slot, peer, pslot, leaving, conn, alive>>
      BY <1>11, <2>5 DEF Drop
    <3>3. TypeOK'
      BY <2>3, <3>1, <3>2 DEF TypeOK, Pc
    <3>4. Control'
      BY <1>11, <2>1, <3>1, <3>2 DEF Drop, TypeOK, Control, Counting
    <3> QED
      BY <3>3, <3>4 DEF Types
  <2> QED
    BY <2>4, <2>5
<1>12. CASE Notify(c)
  <2>1. leaving[c] => slot[c] \in Slot
    BY <1>12 DEF Notify, Control
  <2>2. PICK ok \in BOOLEAN : Return(c, ok)
    BY <1>12 DEF Notify, SendOutcomes
  <2>3. cref' \in [Client -> Int]
    BY <1>12, ClientTypes DEF Notify
  <2> QED
    BY <1>12, <2>1, <2>2, <2>3, ReturnTypes DEF Notify, Types, TypeOK
<1>13. CASE Ack(c)
  <2>1. TypeOK'
    BY <1>13 DEF Ack, objects, TypeOK, Pc, NoSlot
  <2>2. Control'
    BY <1>13 DEF Ack, objects, TypeOK, Control, Counting
  <2> QED
    BY <2>1, <2>2 DEF Types
<1> QED
  BY <1>1, <1>2, <1>3, <1>4, <1>5, <1>6, <1>7, <1>8, <1>9, <1>10, <1>11,
     <1>12, <1>13 DEF Serve, Changing

LEMMA LogoutTypes ==
    ASSUME Types, NEW c \in Client, Logout(c)
    PROVE  Types'
<1> TypeOK /\ Control
  BY DEF Types
<1> USE DEF At, Goto
<1>1. CASE Leave(c)
  <2>1. TypeOK'
    BY <1>1 DEF Leave, objects, TypeOK, Pc, FirstAttempt, Request, Closing
  <2>2. Control'
    BY <1>1 DEF Leave, objects, TypeOK, Control, Counting, FirstAttempt, Closing, Slot
  <2> QED
    BY <2>1, <2>2 DEF Types
<1>2. CASE ScanEmpty(c)
  <2>1. slot[c] \in Slot /\ Return(c, FALSE)
    BY <1>2 DEF ScanEmpty
  <2> QED
    BY <1>2, <2>1, ReturnTypes DEF ScanEmpty, objects, Types, TypeOK
<1>3. CASE ScanPeek(c)
  <2>1. /\ slot[c] \in Slot /\ op[c] \in Request
        /\ lst[c][slot[c]] \in Inv
    BY <1>3 DEF ScanPeek, Control, TypeOK, Request
  <2>2. TypeOK'
    BY <1>3, <2>1 DEF ScanPeek, objects, TypeOK, Pc
  <2>3. Control'
    BY <1>3, <2>1 DEF ScanPeek, objects, TypeOK, Control, Counting
  <2> QED
    BY <2>2, <2>3 DEF Types
<1>4. CASE LoggedOut(c)
  <2>1. TypeOK'
    BY <1>4 DEF LoggedOut, TypeOK, Pc
  <2>2. Control'
    BY <1>4 DEF LoggedOut, TypeOK, Control, Counting
  <2> QED
    BY <2>1, <2>2 DEF Types
<1>5. CASE Unregister(c)
  <2>1. cref' \in [Client -> Int]
    BY <1>5, ClientTypes DEF Unregister
  <2>2. TypeOK'
    BY <1>5, <2>1 DEF Unregister, TypeOK, Pc
  <2>3. Control'
    BY <1>5 DEF Unregister, TypeOK, Control, Counting
  <2> QED
    BY <2>2, <2>3 DEF Types
<1> QED
  BY <1>1, <1>2, <1>3, <1>4, <1>5 DEF Logout

LEMMA ArriveTypes ==
    ASSUME Types, NEW c \in Client, Arrive(c)
    PROVE  Types'
<1> TypeOK /\ Control
  BY DEF Types
<1> USE DEF At, Goto
<1>1. ASSUME NEW t \in Client, Lookup(c, t) PROVE Types'
  <2>1. cref' \in [Client -> Int]
    BY <1>1, ClientTypes DEF Lookup
  <2>2. TypeOK'
    BY <1>1, <2>1 DEF Lookup, TypeOK, Pc
  <2>3. Control'
    BY <1>1 DEF Lookup, TypeOK, Control, Counting
  <2> QED
    BY <2>2, <2>3 DEF Types
<1>2. ASSUME NEW o \in Request, NEW k \in Slot, Ask(c, o, k) PROVE Types'
  <2>1. lst[c][k] \in Inv
    BY <1>2 DEF Ask, TypeOK
  <2>2. TypeOK'
    BY <1>2, <2>1 DEF Ask, objects, TypeOK, Pc
  <2>3. Control'
    BY <1>2, <2>1 DEF Ask, objects, TypeOK, Control, Counting
  <2> QED
    BY <2>2, <2>3 DEF Types
<1> QED
  BY <1>1, <1>2 DEF Arrive

LEMMA TypesStep == Types /\ [Next]_vars => Types'
<1> SUFFICES ASSUME Types, [Next]_vars PROVE Types'
  OBVIOUS
<1>1. CASE UNCHANGED vars
  BY <1>1 DEF vars, objects, threads, Types, TypeOK, Control
<1>2. ASSUME NEW c \in Client, Disconnect(c) PROVE Types'
  BY <1>2 DEF Disconnect, objects, threads, Types, TypeOK, Control
<1> QED
  BY <1>1, <1>2, ArriveTypes, InviteTypes, ServeTypes, LogoutTypes
  DEF Next, Work, Halted

LEMMA TypesInvariant == Spec => []Types
<1> QED
  BY TypesInit, TypesStep, PTL DEF Spec

\* Every variable keeps its type.
THEOREM TypeCorrect == Spec => []TypeOK
<1>1. Types => TypeOK
  BY DEF Types
<1> QED
  BY <1>1, TypesInvariant, PTL

-----------------------------------------------------------------------------
\* The inductive invariant: RefExact, and the fact that an invitation that is
\* allocated names two clients, without which a list named by an invitation
\* could not be found.

Named == \A i \in Inv : Allocated(i) => inv[i].src \in Client /\ inv[i].tgt \in Client

RefInv == Types /\ RefExact /\ Named

\* The step is one of thread c alone.
OnlyThread(c) == \A d \in Client \ {c} : pc'[d] = pc[d] /\ ptr'[d] = ptr[d]

Holds(c, i) == pc[c] \in Counting /\ ptr[c] = i

\* What is held is counted, and is there.
LEMMA HeldAllocated ==
    ASSUME RefInv, NEW c \in Client, NEW i \in Inv,
           Holds(c, i) \/ \E k \in Slot : lst[c][k] = i
    PROVE  ref[i] > 0 /\ Allocated(i)
<1>1. CASE Holds(c, i)
  <2>1. c \in ThreadRefs(i)
    BY <1>1 DEF ThreadRefs, Holds
  <2>2. Cardinality(ThreadRefs(i)) # 0
    BY <2>1, FiniteRefs, FS_EmptySet
  <2> QED
    BY <2>2, FiniteRefs DEF RefInv, RefExact
<1>2. CASE \E k \in Slot : lst[c][k] = i
  <2>1. PICK k \in Slot : lst[c][k] = i
    BY <1>2
  <2>2. <<c, k>> \in SlotRefs(i)
    BY <2>1 DEF SlotRefs
  <2>3. Cardinality(SlotRefs(i)) # 0
    BY <2>2, FiniteRefs, FS_EmptySet
  <2> QED
    BY <2>3, FiniteRefs DEF RefInv, RefExact
<1> QED
  BY <1>1, <1>2

\* Dropping a reference to an invitation that is there takes one from its
\* count, frees it at zero, and touches no other.
LEMMA DropRefs ==
    ASSUME RefInv, NEW i \in Inv, ref[i] > 0, NEW gain, NEW loss, DropInv(i, gain, loss)
    PROVE  /\ \A j \in Inv : /\ ref'[j] = ref[j] - One(j = i)
                             /\ Allocated(j)' <=> ref'[j] > 0
           /\ Named'
<1>1. /\ ref \in [Inv -> Int] /\ inv \in [Inv -> InvRecord]
      /\ \A j \in Inv : Allocated(j) <=> ref[j] > 0
      /\ ref' = [ref EXCEPT ![i] = @ - 1]
  BY DEF RefInv, Types, TypeOK, RefExact, DropInv
<1>2. ~(Released.state \in {"open", "accepted", "closed"})
  BY DEF Released, Blank
<1>3. CASE ref[i] = 1
  <2>1. inv' = [inv EXCEPT ![i] = Released]
    BY <1>3 DEF DropInv
  <2> QED
    BY <1>1, <1>2, <1>3, <2>1 DEF RefInv, Named, Allocated, One
<1>4. CASE ref[i] # 1
  <2>1. inv' = inv
    BY <1>4 DEF DropInv
  <2> QED
    BY <1>1, <1>4, <2>1 DEF RefInv, Named, Allocated, One
<1> QED
  BY <1>3, <1>4

-----------------------------------------------------------------------------
\* The five ways in which a step can move references.

\* A thread goes on, and holds what it held.
LEMMA MovedRefs ==
    ASSUME RefInv, Types', NEW c \in Client, OnlyThread(c),
           \A i \in Inv : Holds(c, i)' <=> Holds(c, i),
           UNCHANGED <<lst, ref>>,
           \A i \in Inv : /\ Allocated(i)' <=> Allocated(i)
                          /\ Parties(i)' = Parties(i)
    PROVE  RefInv'
<1>1. Named'
  BY DEF RefInv, Named, Parties
<1>2. ASSUME NEW j \in Inv
      PROVE  /\ ref'[j] = Cardinality(SlotRefs(j)') + Cardinality(ThreadRefs(j)')
             /\ Allocated(j)' <=> ref'[j] > 0
  <2>1. Cardinality(ThreadRefs(j)') = Cardinality(ThreadRefs(j))
    <3>1. ThreadRefs(j)' = ThreadRefs(j)
      BY DEF ThreadRefs, Holds, OnlyThread
    <3> QED
      BY <3>1
  <2> QED
    BY <2>1, SlotsKept DEF RefInv, RefExact
<1> QED
  BY <1>1, <1>2 DEF RefInv, RefExact

\* A thread gives its own reference back.
LEMMA ReleasedRefs ==
    ASSUME RefInv, Types', NEW c \in Client, OnlyThread(c),
           pc[c] \in Counting, pc'[c] \notin Counting, UNCHANGED lst,
           NEW gain, NEW loss, DropInv(ptr[c], gain, loss)
    PROVE  RefInv'
<1>1. ptr[c] \in Inv
  BY DEF RefInv, Types, Control
<1>2. ref[ptr[c]] > 0
  BY <1>1, HeldAllocated DEF Holds
<1>3. /\ \A j \in Inv : /\ ref'[j] = ref[j] - One(j = ptr[c])
                        /\ Allocated(j)' <=> ref'[j] > 0
      /\ Named'
  BY <1>1, <1>2, DropRefs
<1>4. ASSUME NEW j \in Inv
      PROVE  ref'[j] = Cardinality(SlotRefs(j)') + Cardinality(ThreadRefs(j)')
  <2>1. Cardinality(ThreadRefs(j)') = Cardinality(ThreadRefs(j)) - One(j = ptr[c])
    BY ThreadMoved, FiniteRefs DEF OnlyThread, One
  <2>2. ref[j] = Cardinality(SlotRefs(j)) + Cardinality(ThreadRefs(j))
    BY DEF RefInv, RefExact
  <2> QED
    BY <1>3, <2>1, <2>2, SlotsKept, FiniteRefs DEF One
<1> QED
  BY <1>3, <1>4 DEF RefInv, RefExact

\* A slot is emptied and its reference given back.
LEMMA ErasedRefs ==
    ASSUME RefInv, Types', NEW c \in Client, OnlyThread(c),
           NEW i \in Inv, \A j \in Inv : Holds(c, j)' <=> Holds(c, j),
           NEW p \in Client, NEW k \in Slot, Erase(p, i, k),
           NEW gain, NEW loss, DropInv(i, gain, loss)
    PROVE  RefInv'
<1>1. lst[p][k] = i /\ lst' = [lst EXCEPT ![p][k] = NoInv]
  BY DEF Erase, IsFirst
<1>2. ref[i] > 0
  BY <1>1, HeldAllocated
<1>3. /\ \A j \in Inv : /\ ref'[j] = ref[j] - One(j = i)
                        /\ Allocated(j)' <=> ref'[j] > 0
      /\ Named'
  BY <1>2, DropRefs
<1>4. ASSUME NEW j \in Inv
      PROVE  ref'[j] = Cardinality(SlotRefs(j)') + Cardinality(ThreadRefs(j)')
  <2>1. ThreadRefs(j)' = ThreadRefs(j)
    BY DEF ThreadRefs, Holds, OnlyThread
  <2>2. Cardinality(SlotRefs(j)') = Cardinality(SlotRefs(j)) - One(j = i)
    <3>1. lst \in [Client -> [Slot -> Inv \cup {NoInv}]]
      BY DEF RefInv, Types, TypeOK
    <3> HIDE ClientAssumption, InvAssumption, CapAssumption, QuarantineAssumption
    <3> QED
      BY <1>1, <3>1, SlotEmptied, ZenonT(30)
  <2>3. ref[j] = Cardinality(SlotRefs(j)) + Cardinality(ThreadRefs(j))
    BY DEF RefInv, RefExact
  <2> QED
    BY <1>3, <2>1, <2>2, <2>3, FiniteRefs DEF One
<1> QED
  BY <1>3, <1>4 DEF RefInv, RefExact

\* A slot is filled with the invitation that the thread holds.
LEMMA InsertedRefs ==
    ASSUME RefInv, Types', NEW c \in Client, OnlyThread(c),
           pc[c] \in Counting, pc'[c] \in Counting, UNCHANGED <<ptr, inv>>,
           NEW p \in Client, NEW k \in Slot, Insert(p, ptr[c], k)
    PROVE  RefInv'
<1>1. ptr[c] \in Inv /\ ref \in [Inv -> Int]
  BY DEF RefInv, Types, TypeOK, Control
<1>2. ref[ptr[c]] > 0
  BY <1>1, HeldAllocated DEF Holds
<1>3. /\ lst[p][k] = NoInv /\ lst' = [lst EXCEPT ![p][k] = ptr[c]]
      /\ ref' = [ref EXCEPT ![ptr[c]] = @ + 1]
  BY DEF Insert, IsFirst
<1>4. Named'
  BY DEF RefInv, Named, Allocated
<1>5. ASSUME NEW j \in Inv
      PROVE  /\ ref'[j] = Cardinality(SlotRefs(j)') + Cardinality(ThreadRefs(j)')
             /\ Allocated(j)' <=> ref'[j] > 0
  <2>1. ThreadRefs(j)' = ThreadRefs(j)
    BY DEF ThreadRefs, OnlyThread
  <2>2. Cardinality(SlotRefs(j)') = Cardinality(SlotRefs(j)) + One(j = ptr[c])
    <3>1. lst \in [Client -> [Slot -> Inv \cup {NoInv}]]
      BY DEF RefInv, Types, TypeOK
    <3> HIDE ClientAssumption, InvAssumption, CapAssumption, QuarantineAssumption
    <3> QED
      BY <1>1, <1>3, <3>1, SlotFilled, ZenonT(30)
  <2>3. ref'[j] = ref[j] + One(j = ptr[c])
    BY <1>1, <1>3 DEF One
  <2>4. /\ ref[j] = Cardinality(SlotRefs(j)) + Cardinality(ThreadRefs(j))
        /\ Allocated(j) <=> ref[j] > 0
    BY DEF RefInv, RefExact
  <2>5. Allocated(j)' <=> Allocated(j)
    BY DEF Allocated
  <2> QED
    BY <1>2, <2>1, <2>2, <2>3, <2>4, <2>5, FiniteRefs DEF One
<1> QED
  BY <1>4, <1>5 DEF RefInv, RefExact

\* A thread takes a reference of its own, to a new invitation or to one that
\* it found.
LEMMA TakenRefs ==
    ASSUME RefInv, Types', NEW c \in Client, OnlyThread(c),
           pc[c] \notin Counting, pc'[c] \in Counting, ptr'[c] \in Inv,
           UNCHANGED lst, ref' = [ref EXCEPT ![ptr'[c]] = @ + 1],
           Named', \A j \in Inv : Allocated(j)' <=> Allocated(j) \/ j = ptr'[c]
    PROVE  RefInv'
<1>1. ref \in [Inv -> Int]
  BY DEF RefInv, Types, TypeOK
<1>2. ASSUME NEW j \in Inv
      PROVE  /\ ref'[j] = Cardinality(SlotRefs(j)') + Cardinality(ThreadRefs(j)')
             /\ Allocated(j)' <=> ref'[j] > 0
  <2>1. Cardinality(ThreadRefs(j)') = Cardinality(ThreadRefs(j)) + One(j = ptr'[c])
    BY ThreadMoved, FiniteRefs DEF OnlyThread, One
  <2>2. /\ ref[j] = Cardinality(SlotRefs(j)) + Cardinality(ThreadRefs(j))
        /\ Allocated(j) <=> ref[j] > 0
    BY DEF RefInv, RefExact
  <2>3. ref'[j] = ref[j] + One(j = ptr'[c])
    BY <1>1 DEF One
  <2> QED
    BY <2>1, <2>2, <2>3, SlotsKept, FiniteRefs DEF One
<1> QED
  BY <1>2 DEF RefInv, RefExact

-----------------------------------------------------------------------------
\* Every action is one of these.

LEMMA ReturnFrame ==
    ASSUME Types, NEW c \in Client, NEW ok, Return(c, ok)
    PROVE  OnlyThread(c) /\ pc'[c] \in {"idle", "ack", "scan"}
BY DEF Types, TypeOK, Return, Goto, OnlyThread

LEMMA GotoFrame ==
    ASSUME Types, NEW c \in Client, NEW p, Goto(c, p)
    PROVE  /\ pc'[c] = p
           /\ \A d \in Client \ {c} : pc'[d] = pc[d]
BY DEF Types, TypeOK, Goto

LEMMA InviteRefs ==
    ASSUME RefInv, NEW c \in Client, Invite(c), Types'
    PROVE  RefInv'
<1> Types
  BY DEF RefInv
<1> USE DEF At
<1>1. CASE CreateFails(c)
  <2>1. OnlyThread(c) /\ pc'[c] \notin Counting /\ pc[c] \notin Counting
    BY <1>1, ReturnFrame DEF CreateFails, Counting
  <2> QED
    BY <1>1, <2>1, MovedRefs DEF CreateFails, Holds, Allocated, Parties
<1>2. ASSUME NEW i \in Inv, Create(c, i) PROVE RefInv'
  <2>1. OnlyThread(c) /\ pc'[c] = "addsrc" /\ ptr'[c] = i
    BY <1>2, GotoFrame DEF Create, Types, TypeOK, OnlyThread
  <2>2. peer[c] \in Client
    BY <1>2 DEF Create, Types, Control
  <2>3. inv' = [inv EXCEPT ![i] = Fresh(c, peer[c])] /\ inv \in [Inv -> InvRecord]
    BY <1>2 DEF Create, Types, TypeOK
  <2>4. /\ Fresh(c, peer[c]).state = "open"
        /\ Fresh(c, peer[c]).src = c /\ Fresh(c, peer[c]).tgt = peer[c]
    BY DEF Fresh, Blank
  <2>5. Named' /\ \A j \in Inv : Allocated(j)' <=> Allocated(j) \/ j = i
    BY <2>2, <2>3, <2>4 DEF RefInv, Named, Allocated
  <2>6. ref[i] = 0
    <3>1. ~Allocated(i)
      BY <1>2 DEF Create, Allocated
    <3>2. ref[i] \in Nat /\ (Allocated(i) <=> ref[i] > 0)
      BY FiniteRefs DEF RefInv, RefExact
    <3> QED
      BY <3>1, <3>2
  <2>7. ref' = [ref EXCEPT ![i] = @ + 1]
    BY <1>2, <2>6 DEF Create
  <2> QED
    BY <1>2, <2>1, <2>5, <2>7, TakenRefs DEF Create, Counting
<1>3. CASE AddToSource(c)
  <2>1. OnlyThread(c) /\ pc'[c] = "addtgt"
    BY <1>3, GotoFrame DEF AddToSource, OnlyThread
  <2> QED
    BY <1>3, <2>1, InsertedRefs DEF AddToSource, Counting
<1>4. CASE SourceFull(c)
  <2>1. OnlyThread(c) /\ pc'[c] \notin Counting
    BY <1>4, ReturnFrame DEF SourceFull, GiveUp, Counting
  <2> QED
    BY <1>4, <2>1, ReleasedRefs DEF SourceFull, GiveUp, Counting
<1>5. CASE AddToTarget(c)
  <2>1. OnlyThread(c) /\ pc'[c] = "drop"
    BY <1>5, GotoFrame DEF AddToTarget, OnlyThread
  <2>2. peer[c] \in Client
    BY <1>5 DEF AddToTarget, Types, Control
  <2> QED
    BY <1>5, <2>1, <2>2, InsertedRefs DEF AddToTarget, Counting
<1>6. CASE TargetFull(c)
  <2>1. OnlyThread(c) /\ pc'[c] \notin Counting
    BY <1>6, GotoFrame DEF TargetFull, OnlyThread, Counting
  <2> QED
    BY <1>6, <2>1, ReleasedRefs DEF TargetFull, Counting
<1>7. CASE Undo(c)
  <2>1. OnlyThread(c) /\ pc'[c] \notin Counting /\ pc[c] \notin Counting
    BY <1>7, ReturnFrame DEF Undo, Counting
  <2>2. ptr[c] \in Inv
    BY <1>7 DEF Undo, Types, Control
  <2>3. PICK k \in Slot : Erase(c, ptr[c], k)
    BY <1>7 DEF Undo
  <2>4. DropInv(ptr[c], NoClient, peer[c])
    BY <1>7 DEF Undo
  <2> QED
    BY <2>1, <2>2, <2>3, <2>4, ErasedRefs DEF Holds
<1> QED
  BY <1>1, <1>2, <1>3, <1>4, <1>5, <1>6, <1>7 DEF Invite

LEMMA ServeRefs ==
    ASSUME RefInv, NEW c \in Client, Serve(c), Types'
    PROVE  RefInv'
<1> Types
  BY DEF RefInv
<1> USE DEF At
<1>1. CASE Take(c)
  <2>1. ptr[c] \in Inv /\ op[c] \in Request
    BY <1>1 DEF Take, Types, Control
  <2>2. CASE ref[ptr[c]] = 0
    <3>1. pc' = pc /\ ptr' = ptr /\ ref' = ref /\ lst' = lst /\ inv' = inv
      BY <1>1, <2>2 DEF Take
    <3>2. OnlyThread(c) /\ \A i \in Inv : Holds(c, i)' <=> Holds(c, i)
      BY <3>1 DEF OnlyThread, Holds
    <3> QED
      BY <3>1, <3>2, MovedRefs DEF Allocated, Parties
  <2>3. CASE ref[ptr[c]] # 0
    <3>1. /\ ref' = [ref EXCEPT ![ptr[c]] = @ + 1] /\ ptr' = ptr
          /\ Goto(c, "act") /\ UNCHANGED <<lst, inv>>
      BY <1>1, <2>3 DEF Take
    <3>2. OnlyThread(c) /\ pc'[c] = "act"
      BY <3>1, GotoFrame DEF OnlyThread
    <3>3. Allocated(ptr[c])
      BY <2>1, <2>3, FiniteRefs DEF RefInv, RefExact
    <3>4. Named' /\ \A j \in Inv : Allocated(j)' <=> Allocated(j) \/ j = ptr[c]
      BY <3>1, <3>3 DEF RefInv, Named, Allocated
    <3> QED
      BY <1>1, <2>1, <3>1, <3>2, <3>4, TakenRefs DEF Take, Counting
  <2> QED
    BY <2>2, <2>3
<1>2. CASE Refuse(c) \/ RefuseMove(c) \/ SearchFails(c)
  <2>1. OnlyThread(c) /\ pc'[c] \notin Counting
    BY <1>2, ReturnFrame DEF Refuse, RefuseMove, SearchFails, GiveUp, Counting
  <2> QED
    BY <1>2, <2>1, ReleasedRefs DEF Refuse, RefuseMove, SearchFails, GiveUp, Counting
<1>3. CASE Changing(c)
  <2>1. PICK new : inv' = [inv EXCEPT ![ptr[c]] = new] /\ Kept(inv[ptr[c]], new)
    BY <1>3, ChangesKeep
  <2>2. PICK p : GoesOn(c, p)
    BY <1>3, ChangesKeep
  <2>3. ptr[c] \in Inv /\ pc[c] \in Counting /\ UNCHANGED <<lst, ref, ptr>>
    BY <1>3, ChangesKeep
  <2>4. Allocated(ptr[c])
    BY <2>3, HeldAllocated DEF Holds
  <2>5. \A j \in Inv : (Allocated(j)' <=> Allocated(j)) /\ Parties(j)' = Parties(j)
    BY <2>1, <2>3, <2>4 DEF Kept, Types, TypeOK, Allocated, Parties
  <2>6. OnlyThread(c) /\ pc'[c] \in Counting
    BY <2>2, <2>3, GotoFrame DEF GoesOn, OnlyThread, Counting
  <2> QED
    BY <2>3, <2>5, <2>6, MovedRefs DEF Holds
<1>4. CASE EraseOwn(c)
  <2>1. OnlyThread(c) /\ pc'[c] = "rmpeer" /\ ptr' = ptr
    BY <1>4, GotoFrame DEF EraseOwn, OnlyThread
  <2>2. ptr[c] \in Inv /\ \A j \in Inv : Holds(c, j)' <=> Holds(c, j)
    BY <1>4, <2>1 DEF EraseOwn, Types, Control, Counting, Holds
  <2> QED
    BY <1>4, <2>1, <2>2, ErasedRefs DEF EraseOwn
<1>5. CASE OwnGone(c)
  <2>1. CASE op[c] = "move"
    <3>1. OnlyThread(c) /\ pc'[c] = "rmpeer"
      BY <1>5, <2>1, GotoFrame DEF OwnGone, OnlyThread
    <3> QED
      BY <1>5, <2>1, <3>1, MovedRefs DEF OwnGone, Holds, Counting, Allocated, Parties
  <2>2. CASE op[c] # "move"
    <3>1. OnlyThread(c) /\ pc'[c] \notin Counting
      BY <1>5, <2>2, ReturnFrame DEF OwnGone, GiveUp, Counting
    <3> QED
      BY <1>5, <2>2, <3>1, ReleasedRefs DEF OwnGone, GiveUp, Counting
  <2> QED
    BY <2>1, <2>2
<1>6. CASE ErasePeer(c)
  <2>1. ptr[c] \in Inv /\ Holds(c, ptr[c])
    BY <1>6 DEF ErasePeer, Types, Control, Counting, Holds
  <2>2. Opponent(ptr[c], c) \in Client
    BY <2>1, HeldAllocated DEF RefInv, Named, Opponent
  <2>3. PICK k \in Slot : Erase(Opponent(ptr[c], c), ptr[c], k)
    BY <1>6 DEF ErasePeer
  <2>4. PICK gain : DropInv(ptr[c], gain, NoClient)
    BY <1>6 DEF ErasePeer
  <2>5. OnlyThread(c) /\ pc'[c] \in Counting /\ ptr' = ptr
    BY <1>6, GotoFrame DEF ErasePeer, OnlyThread, Counting
  <2>6. \A j \in Inv : Holds(c, j)' <=> Holds(c, j)
    BY <2>1, <2>5 DEF Holds
  <2> QED
    BY <2>1, <2>2, <2>3, <2>4, <2>5, <2>6, ErasedRefs
<1>7. CASE PeerGone(c)
  <2>1. CASE op[c] = "move"
    <3>1. OnlyThread(c) /\ pc'[c] = "post"
      BY <1>7, <2>1, GotoFrame DEF PeerGone, OnlyThread
    <3> QED
      BY <1>7, <2>1, <3>1, MovedRefs DEF PeerGone, Holds, Counting, Allocated, Parties
  <2>2. CASE op[c] # "move"
    <3>1. OnlyThread(c) /\ pc'[c] \notin Counting
      BY <1>7, <2>2, ReturnFrame DEF PeerGone, GiveUp, Counting
    <3> QED
      BY <1>7, <2>2, <3>1, ReleasedRefs DEF PeerGone, GiveUp, Counting
  <2> QED
    BY <2>1, <2>2
<1>8. CASE Search(c)
  <2>1. OnlyThread(c) /\ pc'[c] \in Counting
    BY <1>8, GotoFrame DEF Search, OnlyThread, Counting
  <2> QED
    BY <1>8, <2>1, MovedRefs DEF Search, Holds, Counting, Allocated, Parties
<1>9. CASE CheckOver(c)
  <2>1. CASE inv[ptr[c]].game = "over"
    <3>1. OnlyThread(c) /\ pc'[c] = "rmown"
      BY <1>9, <2>1, GotoFrame DEF CheckOver, OnlyThread
    <3> QED
      BY <1>9, <2>1, <3>1, MovedRefs DEF CheckOver, Holds, Counting, Allocated, Parties
  <2>2. CASE inv[ptr[c]].game # "over"
    <3>1. OnlyThread(c) /\ pc'[c] \notin Counting
      BY <1>9, <2>2, ReturnFrame DEF CheckOver, Counting
    <3> QED
      BY <1>9, <2>2, <3>1, ReleasedRefs DEF CheckOver, Counting
  <2> QED
    BY <2>1, <2>2
<1>10. CASE Drop(c)
  <2>1. OnlyThread(c) /\ pc'[c] \notin Counting
    <3>1. CASE op[c] \in {"move", "resign"}
      BY <1>10, <3>1, ReturnFrame DEF Drop, Counting
    <3>2. CASE op[c] \notin {"move", "resign"}
      <4>1. Goto(c, "notify") /\ ptr' = [ptr EXCEPT ![c] = NoInv]
        BY <1>10, <3>2 DEF Drop
      <4> QED
        BY <4>1, GotoFrame DEF OnlyThread, Counting, Types, TypeOK
    <3> QED
      BY <3>1, <3>2
  <2>2. PICK loss : DropInv(ptr[c], NoClient, loss)
    BY <1>10 DEF Drop
  <2> QED
    BY <1>10, <2>1, <2>2, ReleasedRefs DEF Drop, Counting
<1>11. CASE Notify(c)
  <2>1. OnlyThread(c) /\ pc'[c] \notin Counting
    BY <1>11, ReturnFrame DEF Notify, Counting
  <2> QED
    BY <1>11, <2>1, MovedRefs DEF Notify, Holds, Counting, Allocated, Parties
<1>12. CASE Ack(c)
  <2>1. OnlyThread(c) /\ pc'[c] = "idle"
    BY <1>12, GotoFrame DEF Ack, OnlyThread
  <2> QED
    BY <1>12, <2>1, MovedRefs DEF Ack, objects, Holds, Counting, Allocated, Parties
<1> QED
  BY <1>1, <1>2, <1>3, <1>4, <1>5, <1>6, <1>7, <1>8, <1>9, <1>10, <1>11,
     <1>12 DEF Serve, Changing

LEMMA LogoutRefs ==
    ASSUME RefInv, NEW c \in Client, Logout(c), Types'
    PROVE  RefInv'
<1> Types
  BY DEF RefInv
<1> UNCHANGED <<lst, ref, inv>>
  BY DEF Logout, Leave, ScanEmpty, ScanPeek, LoggedOut, Unregister, objects
<1>1. pc[c] \notin Counting
  BY DEF Logout, Leave, ScanEmpty, ScanPeek, LoggedOut, Unregister, At, Counting
<1>2. OnlyThread(c) /\ pc'[c] \notin Counting
  <2>1. CASE ScanEmpty(c)
    BY <2>1, ReturnFrame DEF ScanEmpty, Counting
  <2>2. CASE ScanPeek(c)
    <3>1. Goto(c, "peeked") /\ ptr' = [ptr EXCEPT ![c] = lst[c][slot[c]]]
      BY <2>2 DEF ScanPeek
    <3> QED
      BY <3>1, GotoFrame DEF OnlyThread, Counting, Types, TypeOK
  <2>3. CASE Leave(c) \/ LoggedOut(c) \/ Unregister(c)
    BY <2>3, GotoFrame DEF Leave, LoggedOut, Unregister, OnlyThread, Counting
  <2> QED
    BY <2>1, <2>2, <2>3 DEF Logout
<1> QED
  BY <1>1, <1>2, MovedRefs DEF Holds, Allocated, Parties

LEMMA ArriveRefs ==
    ASSUME RefInv, NEW c \in Client, Arrive(c), Types'
    PROVE  RefInv'
<1> Types
  BY DEF RefInv
<1> UNCHANGED <<lst, ref, inv>>
  BY DEF Arrive, Lookup, Ask, objects
<1>1. pc[c] \notin Counting
  BY DEF Arrive, Lookup, Ask, At, Counting
<1>2. OnlyThread(c) /\ pc'[c] \notin Counting
  <2>1. ASSUME NEW t \in Client, Lookup(c, t)
        PROVE  OnlyThread(c) /\ pc'[c] \notin Counting
    BY <2>1, GotoFrame DEF Lookup, OnlyThread, Counting
  <2>2. ASSUME NEW o \in Request, NEW k \in Slot, Ask(c, o, k)
        PROVE  OnlyThread(c) /\ pc'[c] \notin Counting
    <3>1. Goto(c, "peeked") /\ ptr' = [ptr EXCEPT ![c] = lst[c][k]]
      BY <2>2 DEF Ask
    <3> QED
      BY <3>1, GotoFrame DEF OnlyThread, Counting, Types, TypeOK
  <2> QED
    BY <2>1, <2>2 DEF Arrive
<1> QED
  BY <1>1, <1>2, MovedRefs DEF Holds, Allocated, Parties

\* Nobody holds anything in the beginning.
LEMMA RefsInit == Init => RefInv
<1> SUFFICES ASSUME Init PROVE RefInv
  OBVIOUS
<1>1. Types
  BY TypesInit
<1>2. Named
  BY DEF Init, Named, Allocated, Blank
<1>3. ASSUME NEW i \in Inv
      PROVE  /\ ref[i] = Cardinality(SlotRefs(i)) + Cardinality(ThreadRefs(i))
             /\ Allocated(i) <=> ref[i] > 0
  <2>1. SlotRefs(i) = {} /\ ThreadRefs(i) = {}
    <3>1. lst = [c \in Client |-> [k \in Slot |-> NoInv]]
      BY DEF Init
    <3>2. SlotRefs(i) = {}
      BY <3>1, InvAssumption DEF SlotRefs
    <3>3. ThreadRefs(i) = {}
      BY DEF Init, ThreadRefs, Counting
    <3> QED
      BY <3>2, <3>3
  <2>2. ref[i] = 0 /\ ~Allocated(i)
    BY DEF Init, Allocated, Blank
  <2> QED
    BY <2>1, <2>2, FS_EmptySet
<1> QED
  BY <1>1, <1>2, <1>3 DEF RefInv, RefExact

LEMMA RefsStep == RefInv /\ [Next]_vars => RefInv'
<1> SUFFICES ASSUME RefInv, [Next]_vars PROVE RefInv'
  OBVIOUS
<1>1. Types'
  BY TypesStep DEF RefInv
<1>2. CASE UNCHANGED vars
  BY <1>1, <1>2 DEF vars, objects, threads, RefInv, RefExact, Named, SlotRefs,
                    ThreadRefs, Allocated
<1>3. ASSUME NEW c \in Client, Disconnect(c) PROVE RefInv'
  BY <1>1, <1>3 DEF Disconnect, objects, threads, RefInv, RefExact, Named, SlotRefs,
                    ThreadRefs, Allocated
<1> QED
  BY <1>1, <1>2, <1>3, ArriveRefs, InviteRefs, ServeRefs, LogoutRefs
  DEF Next, Work, Halted

LEMMA RefsInvariant == Spec => []RefInv
BY RefsInit, RefsStep, PTL DEF Spec

\* The reference count of an invitation is the number of slots and threads
\* that hold it, and it is allocated while that number is positive.
THEOREM RefsCorrect == Spec => []RefExact
<1>1. RefInv => RefExact
  BY DEF RefInv
<1> QED
  BY <1>1, RefsInvariant, PTL

\* No slot of a list, and no thread at work on an invitation, points to
\* freed memory.  What may dangle is only a pointer that was read from a
\* list and not counted yet.
NoDangling ==
    /\ \A c \in Client, k \in Slot : lst[c][k] # NoInv => Allocated(lst[c][k])
    /\ \A c \in Client : pc[c] \in Counting => Allocated(ptr[c])

LEMMA HeldIsThere == RefInv => NoDangling
<1> SUFFICES ASSUME RefInv PROVE NoDangling
  OBVIOUS
<1>1. ASSUME NEW c \in Client, NEW k \in Slot, lst[c][k] # NoInv
      PROVE  Allocated(lst[c][k])
  <2>1. lst[c][k] \in Inv
    BY <1>1 DEF RefInv, Types, TypeOK
  <2> QED
    BY <2>1, HeldAllocated
<1>2. ASSUME NEW c \in Client, pc[c] \in Counting
      PROVE  Allocated(ptr[c])
  <2>1. ptr[c] \in Inv
    BY <1>2 DEF RefInv, Types, Control
  <2> QED
    BY <1>2, <2>1, HeldAllocated DEF Holds
<1> QED
  BY <1>1, <1>2 DEF NoDangling

\* What a slot or a request at work refers to is allocated.
THEOREM NothingDangles == Spec => []NoDangling
BY HeldIsThere, RefsInvariant, PTL

-----------------------------------------------------------------------------
\* Requests that race to revoke, decline or resign one invitation.

Closer(c) == op[c] \in Closing /\ pc[c] \in Counting \ {"act"}

CloserInv == /\ RefInv
             /\ \A c \in Client : Closer(c) =>
                  inv[ptr[c]].state = "closed" \/ pc[c] \in {"resign", "close"}
             /\ OneCloser

\* The three facts from which a step keeps CloserInv when it makes no closer.
NoNewCloser == \A d \in Client : Closer(d)' =>
    /\ Closer(d) /\ ptr'[d] = ptr[d]
    /\ pc[d] \in {"resign", "close"} => pc'[d] \in {"resign", "close"}

ClosedStays == \A i \in Inv :
    inv[i].state = "closed" => inv'[i].state = "closed" \/ ~Allocated(i)'

LEMMA CloserKept ==
    ASSUME CloserInv, RefInv', NoNewCloser, ClosedStays
    PROVE  CloserInv'
<1>1. ASSUME NEW d \in Client, Closer(d)'
      PROVE  inv'[ptr'[d]].state = "closed" \/ pc'[d] \in {"resign", "close"}
  <2>1. /\ Closer(d) /\ ptr'[d] = ptr[d]
        /\ pc[d] \in {"resign", "close"} => pc'[d] \in {"resign", "close"}
    BY <1>1 DEF NoNewCloser
  <2>2. ptr[d] \in Inv
    BY <2>1 DEF Closer, CloserInv, RefInv, Types, Control
  <2>3. pc'[d] \in Counting
    BY <1>1 DEF Closer
  <2>4. Allocated(ptr[d])'
    <3>1. NoDangling'
      BY HeldIsThere, PTL
    <3> QED
      BY <2>1, <2>3, <3>1 DEF NoDangling, Allocated
  <2>5. inv[ptr[d]].state = "closed" \/ pc[d] \in {"resign", "close"}
    BY <2>1 DEF CloserInv
  <2> QED
    BY <2>1, <2>2, <2>4, <2>5 DEF ClosedStays
<1>2. OneCloser'
  BY DEF CloserInv, OneCloser, Closers, NoNewCloser, Closer
<1> QED
  BY <1>1, <1>2 DEF CloserInv

-----------------------------------------------------------------------------
\* Which steps make a closer, and what happens to closed invitations.

\* The end of a request makes no closer.
LEMMA ReturnCloser ==
    ASSUME Types, NEW c \in Client, NEW ok, Return(c, ok)
    PROVE  NoNewCloser
<1>1. \A d \in Client \ {c} : pc'[d] = pc[d] /\ op'[d] = op[d] /\ ptr'[d] = ptr[d]
  BY DEF Return, ScanOn, Goto, Types, TypeOK
<1>2. pc'[c] \notin Counting
  BY ReturnFrame DEF Counting
<1> QED
  BY <1>1, <1>2 DEF NoNewCloser, Closer

\* Nor does a step of thread c that keeps its request and pointer, and is
\* past the checks of inv_close already or does not get there.
LEMMA OnwardCloser ==
    ASSUME Types, NEW c \in Client, NEW p, Goto(c, p), UNCHANGED op,
           \A d \in Client \ {c} : ptr'[d] = ptr[d],
           \/ p \notin Counting \ {"act"}
           \/ op[c] \notin Closing
           \/ /\ pc[c] \in Counting \ {"act"} /\ ptr'[c] = ptr[c]
              /\ pc[c] \in {"resign", "close"} => p = "close"
    PROVE  NoNewCloser
BY GotoFrame DEF NoNewCloser, Closer

\* Dropping a reference leaves a closed invitation closed or frees it.
LEMMA DropClosed ==
    ASSUME Types, NEW i \in Inv, NEW gain, NEW loss, DropInv(i, gain, loss)
    PROVE  ClosedStays
<1>1. ~(Released.state \in {"open", "accepted", "closed"})
  BY DEF Released, Blank
<1>2. inv' = inv \/ inv' = [inv EXCEPT ![i] = Released]
  BY DEF DropInv
<1> QED
  BY <1>1, <1>2 DEF ClosedStays, Allocated, Types, TypeOK

LEMMA SameClosed ==
    ASSUME UNCHANGED inv
    PROVE  ClosedStays
BY DEF ClosedStays

LEMMA InviteCloser ==
    ASSUME Types, NEW c \in Client, Invite(c)
    PROVE  NoNewCloser /\ ClosedStays
<1> USE DEF At
<1>1. CASE CreateFails(c)
  BY <1>1, ReturnCloser, SameClosed DEF CreateFails
<1>2. ASSUME NEW i \in Inv, Create(c, i)
      PROVE  NoNewCloser /\ ClosedStays
  <2>1. op[c] \notin Closing
    BY <1>2 DEF Create, Types, Control, Closing
  <2>2. \A d \in Client \ {c} : ptr'[d] = ptr[d]
    BY <1>2 DEF Create, Types, TypeOK
  <2>3. NoNewCloser
    BY <1>2, <2>1, <2>2, OnwardCloser DEF Create
  <2>4. ClosedStays
    BY <1>2 DEF Create, ClosedStays, Types, TypeOK
  <2> QED
    BY <2>3, <2>4
<1>3. CASE AddToSource(c) \/ AddToTarget(c)
  <2>1. op[c] \notin Closing
    BY <1>3 DEF AddToSource, AddToTarget, Types, Control, Closing
  <2> QED
    BY <1>3, <2>1, OnwardCloser, SameClosed DEF AddToSource, AddToTarget
<1>4. CASE SourceFull(c)
  <2>1. ptr[c] \in Inv
    BY <1>4 DEF SourceFull, Types, Control, Counting
  <2> QED
    BY <1>4, <2>1, ReturnCloser, DropClosed DEF SourceFull, GiveUp
<1>5. CASE TargetFull(c)
  <2>1. ptr[c] \in Inv /\ op[c] \notin Closing
    BY <1>5 DEF TargetFull, Types, Control, Counting, Closing
  <2> QED
    BY <1>5, <2>1, OnwardCloser, DropClosed DEF TargetFull
<1>6. CASE Undo(c)
  <2>1. ptr[c] \in Inv
    BY <1>6 DEF Undo, Types, Control
  <2> QED
    BY <1>6, <2>1, ReturnCloser, DropClosed DEF Undo
<1> QED
  BY <1>1, <1>2, <1>3, <1>4, <1>5, <1>6 DEF Invite

LEMMA LogoutCloser ==
    ASSUME Types, NEW c \in Client, Logout(c)
    PROVE  NoNewCloser /\ ClosedStays
<1>1. ClosedStays
  <2>1. UNCHANGED inv
    BY DEF Logout, Leave, ScanEmpty, ScanPeek, LoggedOut, Unregister, objects
  <2> QED
    BY <2>1, SameClosed
<1>2. CASE ScanEmpty(c)
  BY <1>1, <1>2, ReturnCloser DEF ScanEmpty
<1>3. CASE ScanPeek(c)
  <2>1. /\ Goto(c, "peeked") /\ op' = op
        /\ ptr' = [ptr EXCEPT ![c] = lst[c][slot[c]]]
    BY <1>3 DEF ScanPeek
  <2>2. \A d \in Client \ {c} : ptr'[d] = ptr[d]
    BY <2>1 DEF Types, TypeOK
  <2> QED
    BY <1>1, <2>1, <2>2, OnwardCloser DEF Counting
<1>4. CASE Leave(c) \/ LoggedOut(c) \/ Unregister(c)
  <2>1. pc'[c] \notin Counting /\ ptr' = ptr
    BY <1>4, GotoFrame DEF Leave, LoggedOut, Unregister, Counting
  <2>2. \A d \in Client \ {c} : pc'[d] = pc[d] /\ op'[d] = op[d]
    BY <1>4 DEF Leave, LoggedOut, Unregister, Goto, Types, TypeOK
  <2> QED
    BY <1>1, <2>1, <2>2 DEF NoNewCloser, Closer
<1> QED
  BY <1>2, <1>3, <1>4 DEF Logout

LEMMA ArriveCloser ==
    ASSUME Types, NEW c \in Client, Arrive(c)
    PROVE  NoNewCloser /\ ClosedStays
<1>1. ClosedStays
  BY SameClosed DEF Arrive, Lookup, Ask, objects
<1>2. pc'[c] \notin Counting
  BY GotoFrame DEF Arrive, Lookup, Ask, Counting
<1>3. ASSUME NEW t \in Client, Lookup(c, t)
      PROVE  \A d \in Client \ {c} : pc'[d] = pc[d] /\ op'[d] = op[d] /\ ptr'[d] = ptr[d]
  BY <1>3 DEF Lookup, Goto, Types, TypeOK
<1>4. ASSUME NEW o \in Request, NEW k \in Slot, Ask(c, o, k)
      PROVE  \A d \in Client \ {c} : pc'[d] = pc[d] /\ op'[d] = op[d] /\ ptr'[d] = ptr[d]
  <2>1. /\ pc' = [pc EXCEPT ![c] = "peeked"] /\ op' = [op EXCEPT ![c] = o]
        /\ ptr' = [ptr EXCEPT ![c] = lst[c][k]]
    BY <1>4 DEF Ask, Goto
  <2> QED
    BY <2>1 DEF Types, TypeOK
<1> QED
  BY <1>1, <1>2, <1>3, <1>4 DEF Arrive, NoNewCloser, Closer

LEMMA ServeCloser ==
    ASSUME Types, NEW c \in Client, Serve(c),
           ~(Act(c) /\ op[c] \in Closing), ~Close(c)
    PROVE  NoNewCloser /\ ClosedStays
<1> USE DEF At
<1>1. CASE Take(c)
  <2>1. CASE ref[ptr[c]] = 0
    BY <1>1, <2>1, SameClosed DEF Take, NoNewCloser, Closer
  <2>2. CASE ref[ptr[c]] # 0
    BY <1>1, <2>2, OnwardCloser, SameClosed DEF Take
  <2> QED
    BY <2>1, <2>2
<1>2. CASE Refuse(c) \/ RefuseMove(c) \/ SearchFails(c)
  <2>1. ptr[c] \in Inv
    BY <1>2 DEF Refuse, RefuseMove, SearchFails, Types, Control, Counting
  <2> QED
    BY <1>2, <2>1, ReturnCloser, DropClosed DEF Refuse, RefuseMove, SearchFails, GiveUp
<1>3. CASE Changing(c)
  <2>1. PICK new : inv' = [inv EXCEPT ![ptr[c]] = new] /\ Kept(inv[ptr[c]], new)
    BY <1>3, ChangesKeep
  <2>2. UNCHANGED <<op, ptr>>
    BY <1>3, ChangesKeep
  <2>3. ClosedStays
    BY <2>1 DEF Kept, ClosedStays, Types, TypeOK
  <2>4. CASE Act(c)
    BY <2>2, <2>3, <2>4, OnwardCloser DEF Act
  <2>5. CASE Resign(c)
    BY <2>2, <2>3, <2>5, OnwardCloser DEF Resign, At, Counting
  <2>6. CASE Place(c) \/ Finish(c)
    <3>1. op[c] \notin Closing
      BY <2>6 DEF Place, Finish, Types, Control, Closing
    <3> QED
      BY <2>2, <2>3, <2>6, <3>1, OnwardCloser DEF Place, Finish
  <2>7. CASE Post(c)
    BY <2>2, <2>3, <2>7, OnwardCloser DEF Post, At, Counting
  <2> QED
    BY <1>3, <2>3, <2>4, <2>5, <2>6, <2>7 DEF Changing
<1>4. CASE EraseOwn(c) \/ ErasePeer(c)
  <2>1. ptr[c] \in Inv /\ pc[c] \in Counting \ {"act"}
    BY <1>4 DEF EraseOwn, ErasePeer, Types, Control, Counting
  <2>2. PICK gain : DropInv(ptr[c], gain, NoClient)
    BY <1>4 DEF EraseOwn, ErasePeer
  <2> QED
    BY <1>4, <2>1, <2>2, OnwardCloser, DropClosed DEF EraseOwn, ErasePeer
<1>5. CASE (OwnGone(c) \/ PeerGone(c)) /\ op[c] = "move"
  BY <1>5, OnwardCloser, SameClosed DEF OwnGone, PeerGone, Closing
<1>6. CASE (OwnGone(c) \/ PeerGone(c)) /\ op[c] # "move"
  <2>1. ptr[c] \in Inv
    BY <1>6 DEF OwnGone, PeerGone, Types, Control, Counting
  <2> QED
    BY <1>6, <2>1, ReturnCloser, DropClosed DEF OwnGone, PeerGone, GiveUp
<1>7. CASE Search(c)
  BY <1>7, OnwardCloser, SameClosed DEF Search, Counting
<1>8. CASE CheckOver(c)
  <2>1. CASE inv[ptr[c]].game = "over"
    BY <1>8, <2>1, OnwardCloser, SameClosed DEF CheckOver, Counting
  <2>2. CASE inv[ptr[c]].game # "over"
    <3>1. ptr[c] \in Inv
      BY <1>8 DEF CheckOver, Types, Control, Counting
    <3> QED
      BY <1>8, <2>2, <3>1, ReturnCloser, DropClosed DEF CheckOver
  <2> QED
    BY <2>1, <2>2
<1>9. CASE Drop(c)
  <2>1. ptr[c] \in Inv
    BY <1>9 DEF Drop, Types, Control, Counting
  <2>2. ClosedStays
    <3>1. PICK loss : DropInv(ptr[c], NoClient, loss)
      BY <1>9 DEF Drop
    <3> QED
      BY <2>1, <3>1, DropClosed
  <2>3. CASE op[c] \in {"move", "resign"}
    BY <1>9, <2>2, <2>3, ReturnCloser DEF Drop
  <2>4. CASE op[c] \notin {"move", "resign"}
    <3>1. /\ Goto(c, "notify") /\ op' = op
          /\ ptr' = [ptr EXCEPT ![c] = NoInv]
      BY <1>9, <2>4 DEF Drop
    <3>2. \A d \in Client \ {c} : ptr'[d] = ptr[d]
      BY <3>1 DEF Types, TypeOK
    <3> QED
      BY <2>2, <3>1, <3>2, OnwardCloser DEF Counting
  <2> QED
    BY <2>3, <2>4
<1>10. CASE Notify(c)
  BY <1>10, ReturnCloser, SameClosed DEF Notify
<1>11. CASE Ack(c)
  <2>1. /\ inv' = inv /\ ptr' = ptr /\ Goto(c, "idle")
        /\ op' = [op EXCEPT ![c] = "none"]
    BY <1>11 DEF Ack, objects
  <2>2. pc'[c] = "idle" /\ \A d \in Client \ {c} : pc'[d] = pc[d] /\ op'[d] = op[d]
    BY <2>1, GotoFrame DEF Types, TypeOK
  <2> QED
    BY <2>1, <2>2, SameClosed DEF NoNewCloser, Closer, Counting
<1> QED
  BY <1>1, <1>2, <1>3, <1>4, <1>5, <1>6, <1>7, <1>8, <1>9, <1>10,
     <1>11 DEF Serve, Changing

-----------------------------------------------------------------------------
\* The one step that makes a closer finds none there, and the step in which
\* a resigner closes the invitation leaves it alone there.

LEMMA CloseAlone ==
    ASSUME CloserInv, RefInv', NEW c \in Client, Act(c), op[c] \in Closing
    PROVE  CloserInv'
<1> Types
  BY DEF CloserInv, RefInv
<1> DEFINE i == ptr[c]
<1>1. i \in Inv /\ inv[i] \in InvRecord
  BY DEF Act, At, Types, TypeOK, Control, Counting
<1>2. inv[i].state # "closed" /\ Conceding(i) = {}
  BY DEF Act, Enters, May, MayWithdraw, MayResign, Closing
<1>3. \A d \in Client : Closer(d) => ptr[d] # i
  BY <1>2 DEF CloserInv, Conceding
<1>4. PICK new : /\ inv' = [inv EXCEPT ![i] = new]
                 /\ new.state = "closed" \/ pc'[c] = "resign"
  <2>1. CASE op[c] \in {"revoke", "decline"}
    <3>1. Becomes(i, [inv[i] EXCEPT !.state = "closed"])
      BY <2>1 DEF Act, Effect
    <3>2. [[inv[i] EXCEPT !.state = "closed"] EXCEPT !.early = @ \/ ~Shared(i)].state = "closed"
      BY <1>1 DEF InvRecord
    <3> QED
      BY <3>1, <3>2 DEF Becomes
  <2>2. CASE op[c] = "resign"
    <3>1. inv' = [inv EXCEPT ![i] = inv[i]]
      BY <1>1, <2>2 DEF Act, Effect, Types, TypeOK
    <3>2. pc'[c] = "resign"
      BY <2>2, GotoFrame DEF Act, AfterAct
    <3> QED
      BY <3>1, <3>2
  <2> QED
    BY <2>1, <2>2 DEF Closing
<1>5. /\ op' = op /\ ptr' = ptr
      /\ \A d \in Client \ {c} : pc'[d] = pc[d]
  BY GotoFrame DEF Act
<1>6. \A d \in Client \ {c} : Closer(d)' => Closer(d) /\ ptr[d] # i
  BY <1>3, <1>5 DEF Closer
<1>7. \A d \in Client : Closer(d)' =>
        inv'[ptr'[d]].state = "closed" \/ pc'[d] \in {"resign", "close"}
  <2>1. SUFFICES ASSUME NEW d \in Client, Closer(d)'
                 PROVE  inv'[ptr[d]].state = "closed" \/ pc'[d] \in {"resign", "close"}
    BY <1>5
  <2>2. CASE d = c
    BY <1>1, <1>4, <2>2 DEF Types, TypeOK
  <2>3. CASE d # c
    <3>1. Closer(d) /\ ptr[d] # i
      BY <1>6, <2>1, <2>3
    <3>2. inv'[ptr[d]] = inv[ptr[d]]
      BY <1>4, <3>1 DEF Types, TypeOK, Closer, Control
    <3> QED
      BY <1>5, <2>3, <3>1, <3>2 DEF CloserInv
  <2> QED
    BY <2>2, <2>3
<1>8. OneCloser'
  BY <1>5, <1>6 DEF CloserInv, OneCloser, Closers, Closer
<1> QED
  BY <1>7, <1>8 DEF CloserInv

LEMMA CloseLeavesAlone ==
    ASSUME CloserInv, RefInv', NEW c \in Client, Close(c)
    PROVE  CloserInv'
<1> Types
  BY DEF CloserInv, RefInv
<1>1. ptr[c] \in Inv /\ inv[ptr[c]] \in InvRecord /\ op[c] = "resign"
  BY DEF Close, At, Types, TypeOK, Control, Counting
<1>2. /\ op' = op /\ ptr' = ptr
      /\ pc'[c] = "rmown" /\ \A d \in Client \ {c} : pc'[d] = pc[d]
      /\ pc[c] = "close"
  BY GotoFrame DEF Close, At
<1>3. \A d \in Client : Closer(d)' => Closer(d)
  BY <1>1, <1>2 DEF Closer, Counting, Closing
<1>4. PICK new : inv' = [inv EXCEPT ![ptr[c]] = new] /\ new.state = "closed"
  <2>1. inv' = [inv EXCEPT ![ptr[c]] = [inv[ptr[c]] EXCEPT !.state = "closed"]]
    BY DEF Close
  <2>2. [inv[ptr[c]] EXCEPT !.state = "closed"].state = "closed"
    BY <1>1 DEF InvRecord
  <2> QED
    BY <2>1, <2>2
<1>5. \A d \in Client : Closer(d)' =>
        inv'[ptr'[d]].state = "closed" \/ pc'[d] \in {"resign", "close"}
  BY <1>1, <1>2, <1>3, <1>4 DEF CloserInv, Types, TypeOK, Closer, Control
<1>6. OneCloser'
  BY <1>2, <1>3 DEF CloserInv, OneCloser, Closers, Closer
<1> QED
  BY <1>5, <1>6 DEF CloserInv

LEMMA CloserStep == CloserInv /\ [Next]_vars => CloserInv'
<1> SUFFICES ASSUME CloserInv, [Next]_vars PROVE CloserInv'
  OBVIOUS
<1>1. Types /\ RefInv'
  BY RefsStep DEF CloserInv, RefInv
<1>2. CASE UNCHANGED vars
  <2>1. NoNewCloser /\ ClosedStays
    BY <1>2 DEF vars, objects, threads, NoNewCloser, Closer, ClosedStays
  <2> QED
    BY <1>1, <2>1, CloserKept
<1>3. ASSUME NEW c \in Client, Disconnect(c) PROVE CloserInv'
  <2>1. NoNewCloser /\ ClosedStays
    BY <1>3 DEF Disconnect, objects, threads, NoNewCloser, Closer, ClosedStays
  <2> QED
    BY <1>1, <2>1, CloserKept
<1>4. ASSUME NEW c \in Client, Arrive(c) \/ Work(c) PROVE CloserInv'
  <2>1. CASE Serve(c) /\ Act(c) /\ op[c] \in Closing
    BY <1>1, <2>1, CloseAlone
  <2>2. CASE Close(c)
    BY <1>1, <2>2, CloseLeavesAlone
  <2>3. CASE ~(Serve(c) /\ Act(c) /\ op[c] \in Closing) /\ ~Close(c)
    <3>1. NoNewCloser /\ ClosedStays
      BY <1>1, <1>4, <2>3, ArriveCloser, InviteCloser, ServeCloser, LogoutCloser DEF Work
    <3> QED
      BY <1>1, <3>1, CloserKept
  <2> QED
    BY <2>1, <2>2, <2>3
<1> QED
  BY <1>2, <1>3, <1>4 DEF Next, Halted

\* Of the requests that race to end an invitation, one gets past inv_close
\* at a time, and it is then the only one.
THEOREM CloserAlone == Spec => []OneCloser
<1>1. Init => CloserInv
  BY RefsInit DEF Init, CloserInv, OneCloser, Closers, Closer, Counting
<1>2. CloserInv => OneCloser
  BY DEF CloserInv
<1> QED
  BY <1>1, <1>2, CloserStep, PTL DEF Spec
=============================================================================
