----------------------- MODULE InvitationsLifeProofs -----------------------
(***************************************************************************)
(* An invitation that has ended leaves the lists, the code takes every     *)
(* invitation through the life that Lifecycle allows, and each game that   *)
(* has ended is rated unless a party has logged out: for any number of     *)
(* clients and invitations, lists of any length and either allocator.      *)
(*                                                                         *)
(* The argument: an invitation is acted upon before it is in both lists    *)
(* only through a stale pointer, and is astray then; any other whose game  *)
(* goes on is in both lists, as nobody removes it before its end; and one  *)
(* that has ended and is still in a list is so because the thread that     *)
(* ended it, or one that found it gone from its own list first, is on the  *)
(* way to that list.  A game, astray or not, is ended only by a party that *)
(* could reach it through a list, when it was in both.  Whoever empties    *)
(* the lists then, one who will post its result holds it until he has.     *)
(***************************************************************************)
EXTENDS InvitationsAgreeProofs

USE ClientAssumption, InvAssumption, CapAssumption

-----------------------------------------------------------------------------
\* The stage of an invitation, astray or not.
PhaseOf(v) ==
    IF v.state \notin {"open", "accepted", "closed"} THEN "none"
    ELSE IF v.game = "running" THEN "playing"
    ELSE IF v.game = "over" THEN IF v.state = "closed" THEN "resigned" ELSE "over"
    ELSE IF v.state = "closed" THEN "withdrawn" ELSE "offered"

Phase(i) == PhaseOf(inv[i])
Past(i) == Phase(i) \in {"withdrawn", "over", "resigned"}

\* The state and the game of an invitation fit each other.
FitsGame(v) ==
    /\ v.state = "open" => v.game = "none"
    /\ v.state = "accepted" => v.game # "none"
    /\ v.state = "closed" => v.game # "running"

Staged(i) == Allocated(i) => FitsGame(inv[i])

\* What is being made is on offer, or astray.
Own(u) == pc[u] \in Halfway => Phase(ptr[u]) = "offered" \/ inv[ptr[u]].early

\* How far the invitation is of a thread that does something to it.
Late(c) ==
    /\ pc[c] = "resign" => Phase(ptr[c]) \in {"playing", "over"}
    /\ pc[c] = "close" => Phase(ptr[c]) = "over"
    /\ pc[c] \in {"place", "finish", "search", "over"} /\ op[c] = "move" =>
         Phase(ptr[c]) \in {"playing", "over", "resigned"}
    /\ pc[c] \in {"rmown", "rmpeer"} =>
         /\ Past(ptr[c])
         /\ op[c] \notin {"move", "resign"} => Phase(ptr[c]) = "withdrawn"

\* A game that goes on is known to both parties, unless it is astray.
Both(i) == Phase(i) = "playing" /\ ~inv[i].early => Shared(i)

\* Thread t ended i and has not looked for it in both lists yet.
Ends(t, i) == /\ ptr[t] = i
              /\ \/ pc[t] \in {"close", "rmown", "rmpeer"}
                 \/ pc[t] \in {"search", "over"} /\ op[t] = "move"

Leaving(i) == Past(i) /\ ~inv[i].early /\ (\E c \in Client : Listed(c, i)) =>
    \E t \in Client : Ends(t, i)

LifeInv == /\ AgreeInv /\ CountInv /\ CloserInv
           /\ \A c \in Client : Own(c) /\ Late(c)
           /\ \A i \in Inv : Staged(i) /\ Both(i) /\ Leaving(i)

-----------------------------------------------------------------------------
\* What a step of thread c, other than the making of an invitation, may do.

\* ... to the phase of an invitation,
EarlyKept(i) == inv'[i].early = inv[i].early

Turns(c, i) ==
    \/ Phase(i)' = Phase(i) /\ EarlyKept(i) /\ ~(i = ptr[c] /\ pc[c] = "close")
    \/ i = ptr[c] /\ pc[c] # "close" /\ Phase(i)' = "none"
    \/ /\ i = ptr[c] /\ pc[c] = "act" /\ Phase(i) = "offered" /\ Conceding(i) = {}
       /\ inv'[i].early = (inv[i].early \/ ~Shared(i))
       /\ Phase(i)' = "playing" \/ (Phase(i)' = "withdrawn" /\ Ends(c, i)')
    \/ /\ i = ptr[c] /\ pc[c] \in {"resign", "finish"}
       /\ Phase(i) = "playing" /\ Phase(i)' = "over" /\ EarlyKept(i) /\ Ends(c, i)'
    \/ /\ i = ptr[c] /\ pc[c] = "close"
       /\ Phase(i) = "over" /\ Phase(i)' = "resigned" /\ EarlyKept(i) /\ Ends(c, i)'

Turned(c) == \A i \in Inv : Staged(i)' /\ Turns(c, i)

\* ... to who resigns its game,
Ceded(c) == \A i \in Inv :
    IF i = ptr[c] /\ pc[c] = "close" THEN Conceding(i) = {c} /\ Conceding(i)' = {}
    ELSE \/ Conceding(i)' = Conceding(i)
         \/ /\ i = ptr[c] /\ pc[c] = "act" /\ c \in Parties(i)
            /\ Phase(i) = "playing" /\ Phase(i)' = "playing"
            /\ Conceding(i) = {} /\ Conceding(i)' = {c}

\* ... to the lists,
Relisted(c) == \A d \in Client, i \in Inv :
    /\ Listed(d, i) =>
         \/ Listed(d, i)'
         \/ /\ i = ptr[c] /\ pc[c] \in {"rmown", "rmpeer"}
            /\ ptr'[c] = i /\ pc'[c] \in Counting
         \/ i = ptr[c] /\ pc[c] = "undo"
    /\ Listed(d, i)' => Listed(d, i) \/ (i = ptr[c] /\ pc[c] \in Halfway)

\* ... and before it forgets what it was about.
Finished(c) ==
    /\ pc'[c] \in Halfway => pc[c] \in Halfway /\ ptr'[c] = ptr[c]
    /\ \A i \in Inv : Ends(c, i) /\ ~Ends(c, i)' /\ Past(i) /\ ~inv[i].early =>
         (\A d \in Client : ~Listed(d, i)') \/ \E t \in Client \ {c} : Ends(t, i)

Framed(c) == Apart(c) /\ Turned(c) /\ Ceded(c) /\ Relisted(c) /\ Finished(c) /\ SameParties

LEMMA PhaseAllocated ==
    ASSUME NEW i
    PROVE  Phase(i) # "none" <=> Allocated(i)
BY DEF Phase, PhaseOf, Allocated

LEMMA StageOfPhase ==
    ASSUME NEW v, v.early \in BOOLEAN
    PROVE  StageOf(v) = IF PhaseOf(v) # "none" /\ v.early THEN "stray" ELSE PhaseOf(v)
BY DEF StageOf, PhaseOf

\* What is listed, counted or being made is there.
Known == /\ \A c \in Client, i \in Inv : Listed(c, i) => Phase(i) # "none"
         /\ \A c \in Client : pc[c] \in Counting \cup Halfway =>
              ptr[c] \in Inv /\ Phase(ptr[c]) # "none"

LEMMA KnownThere == AgreeInv => Known
<1> SUFFICES ASSUME AgreeInv PROVE Known
  OBVIOUS
<1>1. \A i : Allocated(i) => Phase(i) # "none"
  BY PhaseAllocated
<1>2. NoDangling
  BY HeldIsThere DEF AgreeInv, ListInv
<1>3. ASSUME NEW c \in Client, pc[c] \in Counting PROVE ptr[c] \in Inv /\ Phase(ptr[c]) # "none"
  BY <1>1, <1>2, <1>3 DEF NoDangling, AgreeInv, ListInv, RefInv, Types, Control
<1>4. ASSUME NEW c \in Client, pc[c] \in Halfway PROVE ptr[c] \in Inv /\ Phase(ptr[c]) # "none"
  BY <1>1, <1>4, MakerThere
<1>5. ASSUME NEW c \in Client, NEW i \in Inv, Listed(c, i) PROVE Phase(i) # "none"
  BY <1>1, <1>5, ListedThere DEF AgreeInv
<1> QED
  BY <1>3, <1>4, <1>5 DEF Known

\* The parties of an invitation are clients, and stay the same.
LEMMA PartiesStay ==
    ASSUME AgreeInv, SameParties, NEW i \in Inv, Allocated(i), Phase(i)' # "none"
    PROVE  /\ inv'[i].src = inv[i].src /\ inv'[i].tgt = inv[i].tgt
           /\ Parties(i)' = Parties(i) /\ Parties(i) \subseteq Client
           /\ inv[i].src \in Parties(i) /\ inv[i].tgt \in Parties(i)
<1>1. Allocated(i)'
  BY DEF Phase, PhaseOf, Allocated
<1> QED
  BY <1>1 DEF SameParties, Parties, AgreeInv, ListInv, RefInv, Named

\* What is in both lists stays there, unless it is removed.
LEMMA SharedStays ==
    ASSUME LifeInv, AgreeInv', NEW c \in Client, Framed(c),
           NEW i \in Inv, Allocated(i), Shared(i),
           ~(i = ptr[c] /\ pc[c] \in {"rmown", "rmpeer"})
    PROVE  Shared(i)' /\ Phase(i)' # "none"
<1>1. Parties(i) \subseteq Client /\ inv[i].src \in Parties(i)
  BY DEF Parties, LifeInv, AgreeInv, ListInv, RefInv, Named
<1>2. ~(i = ptr[c] /\ pc[c] = "undo")
  <2> SUFFICES ASSUME i = ptr[c], pc[c] = "undo" PROVE FALSE
    OBVIOUS
  <2>1. peer[c] \in Parties(i) /\ ~Listed(peer[c], i)
    BY MakerThere DEF LifeInv, AgreeInv, Made, Halfway
  <2> QED
    BY <2>1 DEF Shared
<1>3. \A p \in Parties(i) : Listed(p, i)'
  BY <1>1, <1>2 DEF Framed, Relisted, Shared
<1>4. Phase(i)' # "none"
  <2>1. Known'
    BY KnownThere, PTL DEF LifeInv
  <2> QED
    BY <1>1, <1>3, <2>1 DEF Known
<1>5. Parties(i)' = Parties(i)
  BY <1>4, PartiesStay DEF Framed, LifeInv
<1> QED
  BY <1>3, <1>4, <1>5 DEF Shared

LEMMA LifeStep ==
    ASSUME LifeInv, AgreeInv', CountInv', CloserInv', NEW c \in Client, Framed(c), Late(c)'
    PROVE  LifeInv'
<1>1. \A d \in Client \ {c} : pc'[d] = pc[d] /\ ptr'[d] = ptr[d] /\ op'[d] = op[d]
  BY DEF Framed, Apart, Alone
<1>2. \A d \in Client : pc'[d] \in Counting \cup Halfway =>
        ptr'[d] \in Inv /\ Phase(ptr[d])' # "none"
  <2>1. Known'
    BY KnownThere, PTL
  <2> QED
    BY <2>1 DEF Known
<1>3. \A d \in Client : pc[d] \in Counting \cup Halfway =>
        ptr[d] \in Inv /\ Phase(ptr[d]) # "none"
  BY KnownThere DEF LifeInv, Known
<1>4. ASSUME NEW u \in Client PROVE Own(u)'
  <2> SUFFICES ASSUME pc'[u] \in Halfway
               PROVE  Phase(ptr[u])' = "offered" \/ inv'[ptr'[u]].early
    BY DEF Own
  <2>1. pc[u] \in Halfway /\ ptr'[u] = ptr[u] /\ Own(u) /\ ptr[u] \in Inv
    BY <1>1, <1>3 DEF Framed, Finished, LifeInv
  <2>2. PICK j \in Inv : j = ptr[u]
    BY <2>1
  <2>3. ~Shared(j)
    BY <2>1, <2>2, MakerThere DEF LifeInv, AgreeInv, Made, Shared
  <2>4. Phase(j)' # "none" /\ Turns(c, j)
    BY <1>2, <2>1, <2>2 DEF Phase, Framed, Turned
  <2>5. Phase(j) = "offered" \/ inv[j].early
    BY <2>1, <2>2 DEF Own
  <2>6. inv'[j].early \/ Phase(j)' = "offered"
    BY <2>3, <2>4, <2>5 DEF Turns, EarlyKept
  <2> QED
    BY <2>1, <2>2, <2>6 DEF Phase
<1>5. ASSUME NEW d \in Client \ {c} PROVE Late(d)'
  <2> SUFFICES ASSUME pc[d] \in {"resign", "close", "place", "finish", "rmown", "rmpeer",
                                 "search", "over"}
               PROVE  Late(d)'
    BY <1>1 DEF Late
  <2>1. PICK j \in Inv : j = ptr[d]
    BY <1>3 DEF Counting
  <2>2. Phase(j)' # "none" /\ Turns(c, j) /\ Late(d)
    BY <1>1, <1>2, <2>1 DEF Counting, LifeInv, Phase, Framed, Turned
  <2>3. ~(pc[d] \in {"resign", "close"} /\ ptr[c] = j /\ pc[c] = "close")
    <3> SUFFICES ASSUME pc[d] \in {"resign", "close"}, ptr[c] = j, pc[c] = "close" PROVE FALSE
      OBVIOUS
    <3>1. op[c] = "resign" /\ op[d] = "resign"
      BY DEF LifeInv, AgreeInv, ListInv, RefInv, Types, Control
    <3>2. c \in Closers(j) /\ d \in Closers(j)
      BY <2>1, <3>1 DEF Closers, Closing, Counting
    <3> QED
      BY <3>2 DEF LifeInv, CloserInv, OneCloser
  <2>4. PICK s, r : s = Phase(j) /\ r = Phase(j)'
    OBVIOUS
  <2>5. \/ r = s
        \/ s = "offered" /\ r \in {"playing", "withdrawn"}
        \/ s = "playing" /\ r = "over"
        \/ s = "over" /\ r = "resigned" /\ ~(pc[d] \in {"resign", "close"})
    BY <2>2, <2>3, <2>4 DEF Turns
  <2>6. Phase(ptr[d]) = s /\ Phase(ptr[d])' = r
    BY <1>1, <2>1, <2>4 DEF Phase
  <2> QED
    BY <1>1, <2>2, <2>5, <2>6 DEF Late, Past
<1>6. ASSUME NEW i \in Inv PROVE Both(i)'
  <2> SUFFICES ASSUME Phase(i)' = "playing", ~inv'[i].early PROVE Shared(i)'
    BY DEF Both
  <2>1. Turns(c, i)
    BY DEF Framed, Turned
  <2>2. Phase(i) \in {"offered", "playing"} /\ Shared(i)
    <3>1. CASE Phase(i)' = Phase(i) /\ EarlyKept(i)
      BY <3>1 DEF EarlyKept, LifeInv, Both
    <3>2. CASE ~(Phase(i)' = Phase(i) /\ EarlyKept(i))
      BY <2>1, <3>2 DEF Turns
    <3> QED
      BY <3>1, <3>2
  <2>3. ~(i = ptr[c] /\ pc[c] \in {"rmown", "rmpeer"})
    BY <2>2 DEF LifeInv, Late, Past
  <2> QED
    BY <2>2, <2>3, SharedStays, PhaseAllocated
<1>7. ASSUME NEW i \in Inv PROVE Leaving(i)'
  <2> SUFFICES ASSUME Past(i)', ~inv'[i].early, NEW d \in Client, Listed(d, i)'
               PROVE  \E t \in Client : Ends(t, i)'
    BY DEF Leaving
  <2>1. \A t \in Client \ {c} : Ends(t, i) => Ends(t, i)'
    BY <1>1 DEF Ends
  <2>2. CASE Phase(i)' = Phase(i) /\ EarlyKept(i)
    <3>1. Past(i) /\ ~inv[i].early
      BY <2>2 DEF Past, EarlyKept
    <3>2. ~(i = ptr[c] /\ pc[c] \in Halfway)
      BY <3>1 DEF LifeInv, Own, Past
    <3>3. Listed(d, i)
      BY <3>2 DEF Framed, Relisted
    <3>4. PICK t \in Client : Ends(t, i)
      BY <3>1, <3>3 DEF LifeInv, Leaving
    <3> QED
      BY <2>1, <3>1, <3>4 DEF Framed, Finished
  <2>3. CASE ~(Phase(i)' = Phase(i) /\ EarlyKept(i))
    <3>1. Turns(c, i)
      BY DEF Framed, Turned
    <3> QED
      BY <2>3, <3>1 DEF Turns, Past
  <2> QED
    BY <2>2, <2>3
<1>8. \A i \in Inv : Staged(i)'
  BY DEF Framed, Turned
<1> QED
  BY <1>4, <1>5, <1>6, <1>7, <1>8 DEF LifeInv
-----------------------------------------------------------------------------
\* What a step may do to the life of an invitation, field by field.
Lived(old, new) ==
    \/ new = old
    \/ old.stage \in {"offered", "stray"} /\ new = [old EXCEPT !.shared = TRUE]
    \/ old.stage \notin {"offered", "playing"} /\ new = [old EXCEPT !.shared = FALSE]
    \/ /\ old.stage = "offered"
       /\ \E s \in {"withdrawn", "playing"} :
            new = [old EXCEPT !.stage = IF old.shared THEN s ELSE "stray"]
    \/ /\ old.stage = "playing" /\ old.conceding = {}
       /\ \E c \in {old.src, old.tgt} : new = [old EXCEPT !.conceding = {c}]
    \/ old.stage = "playing" /\ new = [old EXCEPT !.stage = "over"]
    \/ /\ old.stage = "over" /\ old.conceding # {}
       /\ new = [old EXCEPT !.stage = "resigned", !.conceding = {}]
    \/ /\ old.stage # "playing" /\ ~old.shared /\ old.conceding = {}
       /\ new = L!Nothing

LEMMA LivedOn ==
    ASSUME NEW i \in Inv, Lived(Lives[i], Lives'[i]),
           \A j \in Inv \ {i} : Lives'[j] = Lives[j]
    PROVE  [L!Next]_Lives
<1>1. PICK old, new : old = Lives[i] /\ new = Lives'[i]
  OBVIOUS
<1>2. Lives' = [Lives EXCEPT ![i] = new]
  BY <1>1 DEF Lives
<1>3. Lives = [j \in Inv |-> Lives[j]]
  BY DEF Lives
<1>4. CASE new = old
  BY <1>1, <1>2, <1>3, <1>4
<1>5. ASSUME new = [old EXCEPT !.shared = TRUE], old.stage \in {"offered", "stray"}
      PROVE  L!Share(i)
  BY <1>1, <1>2, <1>3, <1>5 DEF L!Share, L!Is
<1>6. ASSUME new = [old EXCEPT !.shared = FALSE], old.stage \notin {"offered", "playing"}
      PROVE  L!Part(i)
  BY <1>1, <1>2, <1>3, <1>6 DEF L!Part, L!Is
<1>7. ASSUME old.stage = "offered",
             new = [old EXCEPT !.stage = IF old.shared THEN "withdrawn" ELSE "stray"]
      PROVE  L!Withdraw(i)
  BY <1>1, <1>2, <1>3, <1>7 DEF L!Withdraw, L!Is, L!Becomes
<1>8. ASSUME old.stage = "offered",
             new = [old EXCEPT !.stage = IF old.shared THEN "playing" ELSE "stray"]
      PROVE  L!TakeUp(i)
  BY <1>1, <1>2, <1>3, <1>8 DEF L!TakeUp, L!Is, L!Becomes
<1>9. ASSUME old.stage = "playing", old.conceding = {}, NEW c \in {old.src, old.tgt},
             new = [old EXCEPT !.conceding = {c}]
      PROVE  L!Concede(i)
  BY <1>1, <1>2, <1>3, <1>9 DEF L!Concede, L!Is
<1>10. ASSUME old.stage = "playing", new = [old EXCEPT !.stage = "over"] PROVE L!End(i)
  BY <1>1, <1>2, <1>3, <1>10 DEF L!End, L!Is, L!Becomes
<1>11. ASSUME old.stage = "over", old.conceding # {},
              new = [old EXCEPT !.stage = "resigned", !.conceding = {}]
       PROVE  L!Close(i)
  BY <1>1, <1>2, <1>3, <1>11 DEF L!Close, L!Is
<1>12. ASSUME old.stage # "playing", ~old.shared, old.conceding = {}, new = L!Nothing
       PROVE  L!Forget(i)
  BY <1>1, <1>2, <1>3, <1>12 DEF L!Forget, L!Is
<1> QED
  BY <1>1, <1>4, <1>5, <1>6, <1>7, <1>8, <1>9, <1>10, <1>11, <1>12 DEF Lived, L!Next

LEMMA LifeFields ==
    ASSUME NEW i \in Inv
    PROVE  /\ Lives[i] = [stage |-> StageOf(inv[i]), src |-> inv[i].src, tgt |-> inv[i].tgt,
                          shared |-> Allocated(i) /\ Shared(i),
                          conceding |-> IF inv[i].early THEN {} ELSE Conceding(i)]
           /\ Lives'[i] = [stage |-> StageOf(inv'[i]), src |-> inv'[i].src,
                           tgt |-> inv'[i].tgt,
                           shared |-> Allocated(i)' /\ Shared(i)',
                           conceding |-> IF inv'[i].early THEN {} ELSE Conceding(i)']
BY DEF Lives

\* The lists of an invitation that stays are what they were.
LEMMA SharedSame ==
    ASSUME AgreeInv, SameParties, NEW i \in Inv, Phase(i) # "none", Phase(i)' # "none",
           \A d \in Client : Listed(d, i)' <=> Listed(d, i)
    PROVE  Shared(i)' <=> Shared(i)
<1>1. Parties(i)' = Parties(i) /\ Parties(i) \subseteq Client
  BY PartiesStay, PhaseAllocated
<1> QED
  BY <1>1 DEF Shared

\* What of its life stays, in a step that keeps the phase.
LEMMA LifeKept ==
    ASSUME LifeInv, CountInv', SameParties, NEW i \in Inv,
           Phase(i)' = Phase(i), EarlyKept(i)
    PROVE  /\ StageOf(inv'[i]) = StageOf(inv[i])
           /\ inv'[i].src = inv[i].src /\ inv'[i].tgt = inv[i].tgt
           /\ Allocated(i)' <=> Allocated(i)
           /\ Allocated(i) <=> Phase(i) # "none"
<1>1. inv[i].early \in BOOLEAN /\ inv'[i].early \in BOOLEAN
  BY DEF LifeInv, CountInv, RefInv, Types, TypeOK, InvRecord
<1>2. StageOf(inv'[i]) = StageOf(inv[i])
  <2>1. PhaseOf(inv'[i]) = PhaseOf(inv[i]) /\ inv'[i].early = inv[i].early
    BY DEF Phase, EarlyKept
  <2> QED
    BY <1>1, <2>1, StageOfPhase
<1>3. (Allocated(i) <=> Phase(i) # "none") /\ (Allocated(i)' <=> Phase(i)' # "none")
  BY DEF Phase, PhaseOf, Allocated
<1>4. CASE Phase(i) # "none"
  <2>1. Allocated(i) /\ AgreeInv
    BY <1>3, <1>4 DEF LifeInv
  <2> QED
    BY <1>2, <1>3, <1>4, <2>1, PartiesStay
<1>5. CASE Phase(i) = "none"
  BY <1>2, <1>3, <1>5 DEF LifeInv, CountInv, Clean
<1> QED
  BY <1>4, <1>5

LEMMA LivesElsewhere ==
    ASSUME LifeInv, AgreeInv', CountInv', NEW c \in Client, Framed(c),
           NEW i \in Inv, i # ptr[c]
    PROVE  Lives'[i] = Lives[i]
<1>1. Phase(i)' = Phase(i) /\ EarlyKept(i)
  BY DEF Framed, Turned, Turns
<1>2. Conceding(i)' = Conceding(i)
  BY DEF Framed, Ceded
<1>3. (Shared(i)' <=> Shared(i)) \/ Phase(i) = "none"
  <2>1. \A d \in Client : Listed(d, i)' <=> Listed(d, i)
    BY DEF Framed, Relisted
  <2> QED
    BY <1>1, <2>1, SharedSame DEF LifeInv, Framed
<1>4. /\ StageOf(inv'[i]) = StageOf(inv[i])
      /\ inv'[i].src = inv[i].src /\ inv'[i].tgt = inv[i].tgt
      /\ Allocated(i)' <=> Allocated(i)
      /\ Allocated(i) <=> Phase(i) # "none"
  BY <1>1, LifeKept DEF Framed
<1>5. (Allocated(i)' /\ Shared(i)') = (Allocated(i) /\ Shared(i))
  BY <1>3, <1>4
<1>6. inv'[i].early = inv[i].early
  BY <1>1 DEF EarlyKept
<1> QED
  BY <1>2, <1>4, <1>5, <1>6, LifeFields

\* The invitation of the thread, in a step that keeps the phase.
LEMMA LivedKept ==
    ASSUME LifeInv, AgreeInv', CountInv', NEW c \in Client, Framed(c),
           NEW i \in Inv, i = ptr[c], pc[c] # "close",
           Phase(i)' = Phase(i), EarlyKept(i)
    PROVE  Lived(Lives[i], Lives'[i])
<1>1. /\ StageOf(inv'[i]) = StageOf(inv[i])
      /\ inv'[i].src = inv[i].src /\ inv'[i].tgt = inv[i].tgt
      /\ Allocated(i)' <=> Allocated(i)
      /\ Allocated(i) <=> Phase(i) # "none"
  BY LifeKept DEF Framed
<1>2. inv'[i].early = inv[i].early /\ inv[i].early \in BOOLEAN
  BY DEF EarlyKept, LifeInv, CountInv, RefInv, Types, TypeOK, InvRecord
<1>3. StageOf(inv[i]) = IF Phase(i) # "none" /\ inv[i].early THEN "stray" ELSE Phase(i)
  BY <1>2, StageOfPhase DEF Phase
<1>4. PICK b, d \in BOOLEAN : /\ b = (Allocated(i) /\ Shared(i))
                              /\ d = (Allocated(i)' /\ Shared(i)')
  OBVIOUS
<1>5. PICK s, src, tgt : s = StageOf(inv[i]) /\ src = inv[i].src /\ tgt = inv[i].tgt
  OBVIOUS
<1>6. PICK e, f : /\ e = IF inv[i].early THEN {} ELSE Conceding(i)
                  /\ f = IF inv[i].early THEN {} ELSE Conceding(i)'
  OBVIOUS
<1>7. /\ Lives[i] = [stage |-> s, src |-> src, tgt |-> tgt, shared |-> b, conceding |-> e]
      /\ Lives'[i] = [stage |-> s, src |-> src, tgt |-> tgt, shared |-> d, conceding |-> f]
  BY <1>1, <1>2, <1>4, <1>5, <1>6, LifeFields
<1>8. \/ f = e
      \/ /\ pc[c] = "act" /\ s = "playing" /\ e = {} /\ f = {c} /\ c \in {src, tgt}
  <2>1. \/ Conceding(i)' = Conceding(i)
        \/ /\ pc[c] = "act" /\ c \in Parties(i)
           /\ Phase(i) = "playing" /\ Conceding(i) = {} /\ Conceding(i)' = {c}
    BY DEF Framed, Ceded
  <2> QED
    BY <1>3, <1>5, <1>6, <2>1 DEF Parties
<1>9. \/ d = b
      \/ s \in {"offered", "stray"} /\ d = TRUE /\ pc[c] \in Halfway
      \/ s \notin {"offered", "playing"} /\ d = FALSE /\ pc[c] \in {"rmown", "rmpeer"}
  <2>1. CASE Phase(i) = "none"
    BY <1>1, <1>4, <2>1
  <2>2. CASE Phase(i) # "none" /\ \A x \in Client : Listed(x, i)' <=> Listed(x, i)
    <3>1. Shared(i)' <=> Shared(i)
      BY <2>2, SharedSame DEF LifeInv, Framed
    <3> QED
      BY <1>1, <1>4, <3>1
  <2>3. CASE Phase(i) # "none" /\ pc[c] \in Halfway
    <3>1. ~Shared(i)
      BY <2>3, MakerThere DEF LifeInv, AgreeInv, Made, Shared
    <3>2. s \in {"offered", "stray"}
      BY <1>3, <1>5, <2>3 DEF LifeInv, Own
    <3> QED
      BY <1>4, <2>3, <3>1, <3>2
  <2>4. CASE Phase(i) # "none" /\ pc[c] \in {"rmown", "rmpeer"}
    <3>1. s \notin {"offered", "playing"}
      BY <1>3, <1>5, <2>4 DEF LifeInv, Late, Past
    <3>2. \A x \in Client : Listed(x, i)' => Listed(x, i)
      BY <2>4 DEF Framed, Relisted, Halfway
    <3>3. Parties(i)' = Parties(i) /\ Parties(i) \subseteq Client
      BY <1>1, <2>4, PartiesStay DEF LifeInv, Framed
    <3>4. Shared(i)' => Shared(i)
      BY <3>2, <3>3 DEF Shared
    <3> QED
      BY <1>1, <1>4, <2>4, <3>1, <3>4
  <2>5. CASE pc[c] \notin Halfway /\ pc[c] \notin {"rmown", "rmpeer"}
    <3>1. \A x \in Client : Listed(x, i)' <=> Listed(x, i)
      BY <2>5 DEF Framed, Relisted, Halfway
    <3> QED
      BY <2>1, <2>2, <3>1
  <2> QED
    BY <2>3, <2>4, <2>5, <2>1
<1>10. pc[c] = "act" => d = b
  BY <1>9 DEF Halfway
<1>11. CASE f = e
  <2>1. CASE d = b
    <3>1. Lives'[i] = Lives[i]
      BY <1>7, <1>11, <2>1
    <3> QED
      BY <3>1 DEF Lived
  <2>2. CASE s \in {"offered", "stray"} /\ d = TRUE
    <3>1. Lives'[i] = [Lives[i] EXCEPT !.shared = d]
      BY <1>7, <1>11
    <3>2. Lives'[i] = [Lives[i] EXCEPT !.shared = TRUE]
      BY <2>2, <3>1
    <3>3. Lives[i].stage = s
      BY <1>7
    <3> QED
      BY <2>2, <3>2, <3>3 DEF Lived
  <2>3. CASE s \notin {"offered", "playing"} /\ d = FALSE
    <3>1. Lives'[i] = [Lives[i] EXCEPT !.shared = d]
      BY <1>7, <1>11
    <3>2. Lives'[i] = [Lives[i] EXCEPT !.shared = FALSE]
      BY <2>3, <3>1
    <3>3. Lives[i].stage = s
      BY <1>7
    <3> QED
      BY <2>3, <3>2, <3>3 DEF Lived
  <2> QED
    BY <1>9, <2>1, <2>2, <2>3
<1>12. CASE f # e
  <2>1. d = b /\ s = "playing" /\ e = {} /\ f = {c} /\ c \in {src, tgt}
    BY <1>8, <1>10, <1>12
  <2>2. /\ Lives'[i] = [Lives[i] EXCEPT !.conceding = {c}]
        /\ Lives[i].stage = "playing" /\ Lives[i].conceding = {}
        /\ Lives[i].src = src /\ Lives[i].tgt = tgt
    BY <1>7, <2>1
  <2> QED
    BY <2>1, <2>2 DEF Lived
<1> QED
  BY <1>11, <1>12

LEMMA LivedTurned ==
    ASSUME LifeInv, AgreeInv', CountInv', NEW c \in Client, Framed(c),
           NEW i \in Inv, i = ptr[c], Phase(i)' # "none",
           ~(Phase(i)' = Phase(i) /\ EarlyKept(i))
    PROVE  Lived(Lives[i], Lives'[i])
<1>1. Turns(c, i) /\ pc[c] \in {"act", "resign", "finish", "close"} /\ Phase(i) # "none"
  BY DEF Framed, Turned, Turns
<1>2. Allocated(i) /\ Allocated(i)'
  BY <1>1 DEF Phase, PhaseOf, Allocated
<1>3. inv'[i].src = inv[i].src /\ inv'[i].tgt = inv[i].tgt
  BY <1>2 DEF Framed, SameParties
<1>4. Shared(i)' <=> Shared(i)
  <2>1. \A x \in Client : Listed(x, i)' <=> Listed(x, i)
    BY <1>1 DEF Framed, Relisted, Halfway
  <2> QED
    BY <1>1, <2>1, SharedSame DEF LifeInv, Framed
<1>5. inv'[i].early \in BOOLEAN /\ inv[i].early \in BOOLEAN
  BY DEF LifeInv, CountInv, RefInv, Types, TypeOK, InvRecord
<1>6. /\ StageOf(inv[i]) = IF inv[i].early THEN "stray" ELSE Phase(i)
      /\ StageOf(inv'[i]) = IF inv'[i].early THEN "stray" ELSE Phase(i)'
  BY <1>1, <1>5, StageOfPhase DEF Phase
<1>7. PICK b \in BOOLEAN : b = Shared(i)
  BY DEF Shared
<1>8. PICK p, q, u, v, src, tgt :
        /\ p = Phase(i) /\ q = Phase(i)' /\ u = inv[i].early /\ v = inv'[i].early
        /\ src = inv[i].src /\ tgt = inv[i].tgt
  OBVIOUS
<1>9. PICK e, f : e = Conceding(i) /\ f = Conceding(i)'
  OBVIOUS
<1>10. /\ Lives[i] = [stage |-> IF u THEN "stray" ELSE p, src |-> src, tgt |-> tgt,
                      shared |-> b, conceding |-> IF u THEN {} ELSE e]
       /\ Lives'[i] = [stage |-> IF v THEN "stray" ELSE q, src |-> src, tgt |-> tgt,
                       shared |-> b, conceding |-> IF v THEN {} ELSE f]
  BY <1>2, <1>3, <1>4, <1>6, <1>7, <1>8, <1>9, LifeFields
<1>11. CASE pc[c] = "act"
  <2>1. /\ p = "offered" /\ q \in {"playing", "withdrawn"} /\ v = (u \/ ~b)
        /\ e = {} /\ f = {}
    BY <1>1, <1>7, <1>8, <1>9, <1>11 DEF Turns, Framed, Ceded
  <2>2. CASE u
    <3>1. v
      BY <2>1, <2>2
    <3>2. Lives'[i] = Lives[i]
      BY <1>10, <2>2, <3>1
    <3> QED
      BY <3>2 DEF Lived
  <2>3. CASE ~u
    <3>1. Lives[i] = [stage |-> "offered", src |-> src, tgt |-> tgt,
                      shared |-> b, conceding |-> {}]
      BY <1>10, <2>1, <2>3
    <3>2. Lives'[i] = [stage |-> IF b THEN q ELSE "stray", src |-> src, tgt |-> tgt,
                       shared |-> b, conceding |-> {}]
      <4>1. CASE b
        <5>1. v = FALSE
          BY <1>5, <1>8, <2>1, <2>3, <4>1
        <5> QED
          BY <1>10, <2>1, <4>1, <5>1
      <4>2. CASE ~b
        <5>1. v = TRUE
          BY <2>1, <4>2
        <5> QED
          BY <1>10, <2>1, <4>2, <5>1
      <4> QED
        BY <4>1, <4>2
    <3>3. /\ Lives[i].stage = "offered" /\ Lives[i].shared = b
          /\ Lives'[i] = [Lives[i] EXCEPT !.stage = IF b THEN q ELSE "stray"]
      BY <3>1, <3>2
    <3> QED
      BY <2>1, <3>3 DEF Lived
  <2> QED
    BY <2>2, <2>3, <1>5, <1>8
<1>12. CASE pc[c] \in {"resign", "finish"}
  <2>1. p = "playing" /\ q = "over" /\ u = v /\ e = f
    BY <1>1, <1>8, <1>9, <1>12 DEF Turns, Framed, Ceded, EarlyKept
  <2>2. CASE u
    <3>1. Lives'[i] = Lives[i]
      BY <1>10, <2>1, <2>2
    <3> QED
      BY <3>1 DEF Lived
  <2>3. CASE ~u
    <3>1. /\ Lives'[i] = [Lives[i] EXCEPT !.stage = "over"]
          /\ Lives[i].stage = "playing"
      BY <1>10, <2>1, <2>3
    <3> QED
      BY <3>1 DEF Lived
  <2> QED
    BY <2>2, <2>3, <1>5, <1>8
<1>13. CASE pc[c] = "close"
  <2>1. p = "over" /\ q = "resigned" /\ u = v /\ e = {c} /\ f = {}
    BY <1>1, <1>8, <1>9, <1>13 DEF Turns, Framed, Ceded, EarlyKept
  <2>2. CASE u
    <3>1. Lives'[i] = Lives[i]
      BY <1>10, <2>1, <2>2
    <3> QED
      BY <3>1 DEF Lived
  <2>3. CASE ~u
    <3>1. Lives'[i] = [stage |-> "resigned", src |-> src, tgt |-> tgt,
                       shared |-> b, conceding |-> {}]
      BY <1>10, <2>1, <2>3
    <3>2. Lives[i] = [stage |-> "over", src |-> src, tgt |-> tgt,
                      shared |-> b, conceding |-> {c}]
      BY <1>10, <2>1, <2>3
    <3>3. PICK mid : mid = [Lives[i] EXCEPT !.stage = "resigned"]
      OBVIOUS
    <3>4. mid = [stage |-> "resigned", src |-> src, tgt |-> tgt,
                 shared |-> b, conceding |-> {c}]
      BY <3>2, <3>3
    <3>5. Lives'[i] = [mid EXCEPT !.conceding = {}]
      BY <3>1, <3>4
    <3>6. Lives'[i] = [Lives[i] EXCEPT !.stage = "resigned", !.conceding = {}]
      BY <3>3, <3>5
    <3>7. Lives[i].stage = "over" /\ Lives[i].conceding # {}
      BY <3>2
    <3> QED
      BY <3>6, <3>7 DEF Lived
  <2> QED
    BY <2>2, <2>3, <1>5, <1>8
<1> QED
  BY <1>1, <1>11, <1>12, <1>13

LEMMA LivedOver ==
    ASSUME LifeInv, AgreeInv', CountInv', NEW c \in Client, Framed(c),
           NEW i \in Inv, i = ptr[c], pc[c] # "close", Phase(i)' = "none"
    PROVE  Lived(Lives[i], Lives'[i])
<1>1. Known'
  BY KnownThere, PTL
<1>2. Conceding(i)' = {}
  BY <1>1 DEF Known, Conceding, Counting
<1>3. Conceding(i) = {}
  BY <1>2 DEF Framed, Ceded
<1>4. ~(Allocated(i) /\ Shared(i))
  <2> SUFFICES ASSUME Allocated(i), Shared(i) PROVE FALSE
    OBVIOUS
  <2>1. pc[c] \in {"rmown", "rmpeer"}
    BY SharedStays
  <2>2. Parties(i) \subseteq Client /\ inv[i].src \in Parties(i)
    BY DEF Parties, LifeInv, AgreeInv, ListInv, RefInv, Named
  <2>3. PICK x \in Client : Listed(x, i)
    BY <2>2 DEF Shared
  <2>4. Listed(x, i)' \/ (ptr'[c] = i /\ pc'[c] \in Counting)
    BY <2>1, <2>3 DEF Framed, Relisted, Halfway
  <2> QED
    BY <1>1, <2>4 DEF Known
<1>5. ~Allocated(i)'
  BY DEF Phase, PhaseOf, Allocated
<1>6. inv'[i].src = NoClient /\ inv'[i].tgt = NoClient
  BY <1>5 DEF CountInv, Clean
<1>7. StageOf(inv'[i]) = "none"
  BY <1>5 DEF StageOf, Allocated
<1>8. StageOf(inv[i]) # "playing"
  <2> SUFFICES ASSUME StageOf(inv[i]) = "playing" PROVE FALSE
    OBVIOUS
  <2>1. Phase(i) = "playing" /\ Allocated(i) /\ ~inv[i].early
    BY DEF Phase, PhaseOf, StageOf, Allocated
  <2> QED
    BY <1>4, <2>1 DEF LifeInv, Both
<1>9. PICK s, src, tgt : s = StageOf(inv[i]) /\ src = inv[i].src /\ tgt = inv[i].tgt
  OBVIOUS
<1>10. Lives[i] = [stage |-> s, src |-> src, tgt |-> tgt, shared |-> FALSE, conceding |-> {}]
  BY <1>3, <1>4, <1>9, LifeFields
<1>11. Lives'[i] = L!Nothing
  BY <1>2, <1>5, <1>6, <1>7, LifeFields DEF L!Nothing
<1> QED
  BY <1>8, <1>9, <1>10, <1>11 DEF Lived

LEMMA LifeMaps ==
    ASSUME LifeInv, AgreeInv', CountInv', NEW c \in Client, Framed(c)
    PROVE  [L!Next]_Lives
<1>1. \A j \in Inv : j # ptr[c] => Lives'[j] = Lives[j]
  BY LivesElsewhere
<1>2. CASE ptr[c] \notin Inv
  <2>1. Lives' = Lives
    BY <1>1, <1>2 DEF Lives
  <2> QED
    BY <2>1
<1>3. ASSUME NEW i \in Inv, i = ptr[c] PROVE [L!Next]_Lives
  <2>1. Lived(Lives[i], Lives'[i])
    <3>1. CASE Phase(i)' = Phase(i) /\ EarlyKept(i) /\ pc[c] # "close"
      BY <1>3, <3>1, LivedKept
    <3>2. CASE Phase(i)' = "none" /\ pc[c] # "close"
      BY <1>3, <3>2, LivedOver
    <3>3. CASE pc[c] = "close" \/ (Phase(i)' # "none" /\ ~(Phase(i)' = Phase(i) /\ EarlyKept(i)))
      <4>1. Turns(c, i)
        BY DEF Framed, Turned
      <4>2. Phase(i)' # "none" /\ ~(Phase(i)' = Phase(i) /\ EarlyKept(i))
        BY <1>3, <3>3, <4>1 DEF Turns
      <4> QED
        BY <1>3, <4>2, LivedTurned
    <3> QED
      BY <3>1, <3>2, <3>3
  <2> QED
    BY <1>1, <1>3, <2>1, LivedOn
<1> QED
  BY <1>2, <1>3

-----------------------------------------------------------------------------
\* What the steps do to the phases, to who resigns and to the lists.

LEMMA StagesKept ==
    ASSUME LifeInv, NEW c \in Client, UNCHANGED inv, pc[c] # "close"
    PROVE  Turned(c)
BY DEF Turned, Turns, EarlyKept, LifeInv, Staged, Phase, Allocated

LEMMA StagesDropped ==
    ASSUME LifeInv, NEW c \in Client, ptr[c] \in Inv, pc[c] # "close",
           NEW gain, NEW loss, DropInv(ptr[c], gain, loss)
    PROVE  Turned(c)
<1>1. inv' = inv \/ inv' = [inv EXCEPT ![ptr[c]] = Released]
  BY DEF DropInv
<1>2. Released.state \in {"free", "quarantined"}
  BY DEF Released, Blank
<1>3. CASE inv' = inv
  BY <1>3, StagesKept
<1>4. CASE inv' = [inv EXCEPT ![ptr[c]] = Released]
  <2>1. /\ \A i \in Inv \ {ptr[c]} : inv'[i] = inv[i]
        /\ inv'[ptr[c]].state \in {"free", "quarantined"}
    BY <1>2, <1>4 DEF LifeInv, AgreeInv, ListInv, RefInv, Types, TypeOK
  <2>2. ASSUME NEW i \in Inv \ {ptr[c]} PROVE Staged(i)' /\ Turns(c, i)
    BY <2>1, <2>2 DEF Turns, EarlyKept, LifeInv, Staged, Phase, Allocated
  <2>3. ASSUME NEW i \in Inv, i = ptr[c] PROVE Staged(i)' /\ Turns(c, i)
    <3>1. inv'[i].state \in {"free", "quarantined"}
      BY <2>1, <2>3
    <3> QED
      BY <2>3, <3>1 DEF Turns, Staged, Phase, PhaseOf, Allocated
  <2> QED
    BY <2>2, <2>3 DEF Turned
<1> QED
  BY <1>1, <1>3, <1>4

\* A change of the thread's invitation, and of no other.
LEMMA StagesSet ==
    ASSUME LifeInv, NEW c \in Client, NEW i \in Inv, i = ptr[c],
           NEW m, inv' = [inv EXCEPT ![i] = m], FitsGame(m), Turns(c, i)
    PROVE  Turned(c)
<1>1. inv'[i] = m /\ \A j \in Inv \ {i} : inv'[j] = inv[j]
  BY DEF LifeInv, AgreeInv, ListInv, RefInv, Types, TypeOK
<1>2. Staged(i)'
  BY <1>1 DEF Staged
<1>3. ASSUME NEW j \in Inv \ {i} PROVE Staged(j)' /\ Turns(c, j)
  BY <1>1 DEF Turns, EarlyKept, LifeInv, Staged, Phase, Allocated
<1> QED
  BY <1>2, <1>3 DEF Turned

LEMMA CededKept ==
    ASSUME NEW c \in Client, Apart(c),
           pc[c] \notin {"resign", "close"}, pc'[c] \notin {"resign", "close"}
    PROVE  Ceded(c)
<1>1. \A i : Conceding(i)' = Conceding(i)
  BY DEF Conceding, Apart, Alone
<1> QED
  BY <1>1 DEF Ceded

LEMMA ListsKept ==
    ASSUME NEW c \in Client, UNCHANGED lst
    PROVE  Relisted(c)
BY DEF Relisted, Listed

LEMMA ListsErased ==
    ASSUME LifeInv, NEW c \in Client, ptr[c] \in Inv,
           \/ pc[c] \in {"rmown", "rmpeer"} /\ ptr'[c] = ptr[c] /\ pc'[c] \in Counting
           \/ pc[c] = "undo",
           NEW p \in Client, NEW k \in Slot, Erase(p, ptr[c], k)
    PROVE  Relisted(c)
<1>1. \A d \in Client, j \in Inv :
        Listed(d, j)' <=> Listed(d, j) /\ ~(d = p /\ j = ptr[c])
  BY ErasedListed DEF LifeInv, AgreeInv
<1> QED
  BY <1>1 DEF Relisted

-----------------------------------------------------------------------------
\* A step elsewhere than on an invitation.
Aside == Halfway \cup {"resign", "close", "place", "finish", "rmown", "rmpeer", "search", "over"}

LEMMA FrameAside ==
    ASSUME LifeInv, NEW c \in Client, Apart(c), UNCHANGED <<lst, inv>>,
           pc[c] \notin Aside, pc'[c] \notin Aside
    PROVE  Framed(c) /\ Late(c)'
<1>1. SameParties
  BY DEF SameParties
<1>2. Finished(c)
  BY DEF Finished, Ends, Aside
<1>3. Late(c)'
  BY DEF Late, Aside
<1>4. Ceded(c) /\ Turned(c) /\ Relisted(c)
  BY CededKept, StagesKept, ListsKept DEF Aside
<1> QED
  BY <1>1, <1>2, <1>3, <1>4 DEF Framed

\* A thread that gives up or is done with its invitation.
LEMMA FrameReturn ==
    ASSUME LifeInv, NEW c \in Client, pc[c] \in Counting \ {"addtgt", "resign", "close"},
           NEW loss, DropInv(ptr[c], NoClient, loss), NEW ok, Return(c, ok), UNCHANGED lst,
           Ends(c, ptr[c]) /\ Past(ptr[c]) /\ ~inv[ptr[c]].early =>
             (\A d \in Client : ~Listed(d, ptr[c])) \/ \E t \in Client \ {c} : Ends(t, ptr[c])
    PROVE  Framed(c) /\ Late(c)'
<1>1. Types /\ ptr[c] \in Inv
  BY DEF LifeInv, AgreeInv, ListInv, RefInv, Types, Control
<1>2. Apart(c) /\ pc'[c] \in {"idle", "ack", "scan"}
  BY <1>1, ReturnApart
<1>3. SameParties /\ Turned(c) /\ Relisted(c) /\ Ceded(c)
  BY <1>1, <1>2, DropParties, StagesDropped, ListsKept, CededKept
<1>4. Finished(c)
  <2>1. pc'[c] \notin Halfway
    BY <1>2 DEF Halfway
  <2>2. ASSUME NEW i \in Inv, Ends(c, i), Past(i), ~inv[i].early
        PROVE  (\A d \in Client : ~Listed(d, i)') \/ \E t \in Client \ {c} : Ends(t, i)
    BY <2>2 DEF Ends, Listed
  <2> QED
    BY <2>1, <2>2 DEF Finished
<1>5. Late(c)'
  BY <1>2 DEF Late
<1> QED
  BY <1>2, <1>3, <1>4, <1>5 DEF Framed

\* A thread that goes on with its invitation.
LEMMA FrameOnward ==
    ASSUME LifeInv, NEW c \in Client, pc[c] \in Counting, NEW q, Goto(c, q), UNCHANGED <<ptr, op>>,
           peer' = peer \/ \E x : peer' = [peer EXCEPT ![c] = x],
           Turned(c), Relisted(c), SameParties,
           Ceded(c) \/ {pc[c], q} \cap {"resign", "close"} = {},
           q \in Halfway => pc[c] \in Halfway,
           Ends(c, ptr[c]) /\ Past(ptr[c]) /\ ~inv[ptr[c]].early =>
             Ends(c, ptr[c])' \/ \A d \in Client, i \in Inv : i = ptr[c] => ~Listed(d, i)'
    PROVE  Framed(c) /\ pc'[c] = q
<1> Types
  BY DEF LifeInv, AgreeInv, ListInv, RefInv
<1>1. Apart(c) /\ pc'[c] = q
  BY GotoApart
<1>2. ASSUME NEW i \in Inv, Ends(c, i), ~Ends(c, i)', Past(i), ~inv[i].early, NEW d \in Client
      PROVE  ~Listed(d, i)'
  BY <1>2 DEF Ends
<1>3. Finished(c)
  BY <1>1, <1>2 DEF Finished
<1>4. Ceded(c)
  BY <1>1, CededKept
<1> QED
  BY <1>1, <1>3, <1>4 DEF Framed
-----------------------------------------------------------------------------
\* The maker of an invitation.

LEMMA LifeCreate ==
    ASSUME LifeInv, AgreeInv', CountInv', CloserInv', NEW c \in Client, NEW n \in Inv,
           Create(c, n)
    PROVE  LifeInv' /\ \E t \in Client : L!Offer(n, c, t)
<1> Types
  BY DEF LifeInv, AgreeInv, ListInv, RefInv
<1>1. /\ Goto(c, "addsrc") /\ ptr' = [ptr EXCEPT ![c] = n]
      /\ op' = op /\ lst' = lst /\ pc[c] = "create" /\ peer[c] # c /\ peer[c] \in Client
      /\ inv' = [inv EXCEPT ![n] = Fresh(c, peer[c])] /\ inv[n].state = "free"
  BY DEF Create, At, Types, Control
<1>2. /\ pc'[c] = "addsrc" /\ ptr'[c] = n
      /\ \A d \in Client \ {c} : pc'[d] = pc[d] /\ ptr'[d] = ptr[d]
      /\ inv'[n] = Fresh(c, peer[c]) /\ \A j \in Inv \ {n} : inv'[j] = inv[j]
  BY <1>1, GotoFrame DEF Types, TypeOK
<1>3. /\ Fresh(c, peer[c]).src = c /\ Fresh(c, peer[c]).tgt = peer[c]
      /\ Fresh(c, peer[c]).state = "open" /\ Fresh(c, peer[c]).game = "none"
      /\ Fresh(c, peer[c]).early = FALSE
  BY DEF Fresh, Blank
<1>4. Phase(n)' = "offered" /\ Phase(n) = "none" /\ \A j \in Inv \ {n} : Phase(j)' = Phase(j)
  BY <1>1, <1>2, <1>3 DEF Phase, PhaseOf
<1>5. /\ \A d \in Client : ~Listed(d, n)
      /\ \A d \in Client : pc[d] \in Counting \cup Halfway => ptr[d] # n /\ ptr[d] \in Inv
  BY <1>4, KnownThere DEF LifeInv, Known
<1>6. \A d \in Client, j \in Inv : Listed(d, j)' <=> Listed(d, j)
  BY <1>1 DEF Listed
<1>7. ASSUME NEW u \in Client PROVE Own(u)'
  <2>1. CASE u = c
    BY <1>2, <1>4, <2>1 DEF Own, Phase
  <2>2. CASE u # c
    <3> SUFFICES ASSUME pc[u] \in Halfway PROVE Own(u)'
      BY <1>2, <2>2 DEF Own
    <3>1. ptr[u] \in Inv /\ ptr[u] # n
      BY <1>5
    <3> QED
      BY <1>2, <1>4, <2>2, <3>1 DEF LifeInv, Own, Phase
  <2> QED
    BY <2>1, <2>2
<1>8. ASSUME NEW d \in Client PROVE Late(d)'
  <2>1. CASE d = c
    BY <1>2, <2>1 DEF Late
  <2>2. CASE d # c
    <3> SUFFICES ASSUME pc[d] \in Counting PROVE Late(d)'
      BY <1>2, <2>2 DEF Late, Counting
    <3>1. ptr[d] \in Inv /\ ptr[d] # n
      BY <1>5
    <3> QED
      BY <1>1, <1>2, <1>4, <2>2, <3>1 DEF LifeInv, Late, Past, Phase
  <2> QED
    BY <2>1, <2>2
<1>9. ASSUME NEW j \in Inv PROVE Staged(j)' /\ Both(j)' /\ Leaving(j)'
  <2>1. CASE j = n
    <3>1. Staged(j)'
      BY <1>2, <1>3, <2>1 DEF Staged, FitsGame
    <3>2. Both(j)' /\ Leaving(j)'
      BY <1>4, <2>1 DEF Both, Leaving, Past
    <3> QED
      BY <3>1, <3>2
  <2>2. CASE j # n
    <3>1. inv'[j] = inv[j] /\ Phase(j)' = Phase(j)
      BY <1>2, <1>4, <2>2
    <3>2. Staged(j)'
      BY <3>1 DEF LifeInv, Staged, Allocated
    <3>3. Both(j)'
      <4>1. Shared(j)' <=> Shared(j)
        BY <1>1, <3>1 DEF Shared, Parties, Listed
      <4> QED
        BY <3>1, <4>1 DEF LifeInv, Both
    <3>4. Leaving(j)'
      <4>1. \A t \in Client : Ends(t, j) => Ends(t, j)'
        BY <1>1, <1>2 DEF Ends
      <4> QED
        BY <1>6, <3>1, <4>1 DEF LifeInv, Leaving, Past
    <3> QED
      BY <3>2, <3>3, <3>4
  <2> QED
    BY <2>1, <2>2
<1>10. PICK t \in Client : t = peer[c]
  BY <1>1
<1>11. L!Offer(n, c, t)
  <2>1. Conceding(n) = {} /\ \A j \in Inv : Conceding(j)' = Conceding(j)
    <3>1. Conceding(n) = {}
      BY <1>5 DEF Conceding, Counting
    <3>2. \A j \in Inv : Conceding(j)' = Conceding(j)
      BY <1>1, <1>2 DEF Conceding
    <3> QED
      BY <3>1, <3>2
  <2>2. Lives[n] = L!Nothing
    <3>1. inv[n].src = NoClient /\ inv[n].tgt = NoClient /\ ~Allocated(n)
      BY <1>4, PhaseAllocated DEF LifeInv, CountInv, Clean
    <3>2. StageOf(inv[n]) = "none"
      BY <3>1 DEF StageOf, Allocated
    <3> QED
      BY <2>1, <3>1, <3>2, LifeFields DEF L!Nothing
  <2>3. Lives'[n] = [stage |-> "offered", src |-> c, tgt |-> t,
                     shared |-> FALSE, conceding |-> {}]
    <3>1. StageOf(inv'[n]) = "offered"
      BY <1>2, <1>3 DEF StageOf
    <3>2. ~Shared(n)'
      <4>1. c \in Parties(n)' /\ ~Listed(c, n)'
        BY <1>2, <1>3, <1>5, <1>6 DEF Parties
      <4> QED
        BY <4>1 DEF Shared
    <3>3. inv'[n].src = c /\ inv'[n].tgt = t /\ Conceding(n)' = {}
      BY <1>2, <1>3, <1>10, <2>1
    <3> QED
      BY <3>1, <3>2, <3>3, LifeFields
  <2>4. ASSUME NEW j \in Inv \ {n} PROVE Lives'[j] = Lives[j]
    <3>1. inv'[j] = inv[j] /\ Conceding(j)' = Conceding(j)
      BY <1>2, <2>1
    <3>2. (Allocated(j)' /\ Shared(j)') = (Allocated(j) /\ Shared(j))
      BY <1>1, <3>1 DEF Allocated, Shared, Parties, Listed
    <3> QED
      BY <3>1, <3>2, LifeFields
  <2>5. Lives' = [Lives EXCEPT ![n] = [stage |-> "offered", src |-> c, tgt |-> t,
                                       shared |-> FALSE, conceding |-> {}]]
    BY <2>3, <2>4 DEF Lives
  <2> QED
    BY <1>1, <1>10, <2>2, <2>5 DEF L!Offer
<1> QED
  BY <1>7, <1>8, <1>9, <1>11 DEF LifeInv

LEMMA InviteFramed ==
    ASSUME LifeInv, NEW c \in Client, Invite(c), \A i \in Inv : ~Create(c, i)
    PROVE  Framed(c) /\ Late(c)'
<1> Types
  BY DEF LifeInv, AgreeInv, ListInv, RefInv
<1> USE DEF At
<1>1. CASE CreateFails(c)
  <2>1. pc[c] = "create" /\ Return(c, FALSE) /\ UNCHANGED <<lst, inv>>
    BY <1>1 DEF CreateFails
  <2>2. Apart(c) /\ pc'[c] \in {"idle", "ack", "scan"}
    BY <2>1, ReturnApart
  <2> QED
    BY <2>1, <2>2, FrameAside DEF Aside, Halfway
<1>2. CASE SourceFull(c)
  BY <1>2, FrameReturn DEF SourceFull, GiveUp, Counting, Ends
<1>3. CASE AddToSource(c) \/ AddToTarget(c)
  <2> DEFINE p == IF pc[c] = "addsrc" THEN c ELSE peer[c]
             q == IF pc[c] = "addsrc" THEN "addtgt" ELSE "drop"
  <2>1. /\ pc[c] \in {"addsrc", "addtgt"} /\ Goto(c, q)
        /\ UNCHANGED <<ptr, op, peer, inv>>
    BY <1>3 DEF AddToSource, AddToTarget
  <2>2. PICK k \in Slot : Insert(p, ptr[c], k)
    BY <1>3 DEF AddToSource, AddToTarget
  <2>3. /\ ptr[c] \in Inv /\ p \in Client
        /\ pc[c] = "addtgt" => p = peer[c]
    BY <2>1, MakerThere DEF LifeInv, AgreeInv, Halfway
  <2>4. \A d \in Client, j \in Inv : Listed(d, j)' <=> Listed(d, j) \/ (d = p /\ j = ptr[c])
    <3>1. /\ lst \in [Client -> [Slot -> Inv \cup {NoInv}]]
          /\ lst[p][k] = NoInv /\ lst' = [lst EXCEPT ![p][k] = ptr[c]]
      BY <2>2 DEF Types, TypeOK, Insert, IsFirst
    <3> HIDE DEF p
    <3> QED
      BY <2>3, <3>1 DEF Listed
  <2>5. Relisted(c)
    BY <2>1, <2>4 DEF Relisted, Halfway
  <2>6. Turned(c) /\ SameParties
    BY <2>1, StagesKept DEF SameParties
  <2> HIDE DEF p
  <2>7. Framed(c) /\ pc'[c] = q
    BY <2>1, <2>5, <2>6, FrameOnward DEF Halfway, Counting, Ends
  <2>8. Late(c)'
    BY <2>1, <2>7 DEF Late
  <2> QED
    BY <2>7, <2>8
<1>4. CASE TargetFull(c)
  <2>1. /\ pc[c] = "addtgt" /\ Goto(c, "undo") /\ UNCHANGED <<ptr, op, peer, lst>>
        /\ DropInv(ptr[c], NoClient, NoClient) /\ ptr[c] \in Inv
    BY <1>4 DEF TargetFull, Types, Control, Counting
  <2>2. Relisted(c) /\ Turned(c) /\ SameParties
    BY <2>1, ListsKept, StagesDropped, DropParties
  <2>3. Framed(c) /\ pc'[c] = "undo"
    BY <2>1, <2>2, FrameOnward DEF Halfway, Counting, Ends
  <2>4. Late(c)'
    BY <2>3 DEF Late
  <2> QED
    BY <2>3, <2>4
<1>5. CASE Undo(c)
  <2>1. /\ pc[c] = "undo" /\ Return(c, TRUE) /\ DropInv(ptr[c], NoClient, peer[c])
        /\ ptr[c] \in Inv
    BY <1>5 DEF Undo, Types, Control
  <2>2. PICK k \in Slot : Erase(c, ptr[c], k)
    BY <1>5 DEF Undo
  <2>3. Apart(c) /\ pc'[c] \in {"idle", "ack", "scan"}
    BY <2>1, ReturnApart
  <2>4. Relisted(c) /\ Turned(c) /\ SameParties /\ Ceded(c)
    BY <2>1, <2>2, <2>3, ListsErased, StagesDropped, DropParties, CededKept
  <2>5. Finished(c)
    BY <2>1, <2>3 DEF Finished, Ends, Halfway
  <2>6. Late(c)'
    BY <2>3 DEF Late
  <2> QED
    BY <2>3, <2>4, <2>5, <2>6 DEF Framed
<1> QED
  BY <1>1, <1>2, <1>3, <1>4, <1>5 DEF Invite
-----------------------------------------------------------------------------
\* The other requests.

LEMMA StagesActed ==
    ASSUME LifeInv, NEW c \in Client, Act(c)
    PROVE  Framed(c) /\ Late(c)'
<1> Types
  BY DEF LifeInv, AgreeInv, ListInv, RefInv
<1>1. /\ pc[c] = "act" /\ Enters(c, ptr[c]) /\ May(c, ptr[c]) /\ Effect(c, ptr[c])
      /\ UNCHANGED <<lst, ptr, op, peer>>
      /\ Goto(c, AfterAct(op[c])) /\ op[c] \in Request
  BY DEF Act, At, Types, Control
<1>2. PICK i \in Inv : i = ptr[c]
  BY <1>1 DEF Types, Control, Counting
<1>3. Allocated(i) /\ Staged(i) /\ inv[i] \in InvRecord
  <2>1. NoDangling
    BY HeldIsThere DEF LifeInv, CountInv
  <2> QED
    BY <1>1, <1>2, <2>1 DEF NoDangling, Counting, LifeInv, Types, TypeOK
<1>4. PICK q : Goto(c, q) /\ q = AfterAct(op[c])
  BY <1>1
<1>5. /\ Apart(c) /\ pc'[c] = q /\ ptr'[c] = i /\ op'[c] = op[c]
  BY <1>1, <1>2, <1>4, GotoApart
<1>6. SameParties
  BY ChangingParties DEF Changing
<1>7. Relisted(c)
  BY <1>1, ListsKept
<1>8. CASE op[c] \in {"revoke", "decline", "accept"}
  <2>1. Conceding(i) = {} /\ Entitled(c, i)
    BY <1>1, <1>2, <1>8 DEF Enters, May
  <2>2. Phase(i) = "offered" /\ inv[i].game = "none"
    BY <1>1, <1>2, <1>3, <1>8 DEF May, MayWithdraw, MayAccept, Staged, FitsGame, Phase,
                                  PhaseOf, Allocated
  <2> DEFINE Fits(new) == /\ FitsGame(new) /\ new \in InvRecord /\ new.early = inv[i].early
                          /\ PhaseOf(new) = IF op[c] = "accept" THEN "playing" ELSE "withdrawn"
  <2>3. PICK new : Becomes(i, new) /\ Fits(new)
    <3>1. CASE op[c] \in {"revoke", "decline"}
      <4>1. Fits([inv[i] EXCEPT !.state = "closed"])
        BY <1>3, <2>2, <3>1 DEF InvRecord, FitsGame, PhaseOf
      <4> QED
        BY <1>1, <1>2, <3>1, <4>1 DEF Effect
    <3>2. CASE op[c] = "accept"
      <4>1. Parties(i) \subseteq Client \cup {NoClient}
        BY <1>3 DEF Parties, InvRecord
      <4>2. PICK t \in Parties(i) :
              Becomes(i, [inv[i] EXCEPT !.state = "accepted", !.game = "running", !.turn = t])
        BY <1>1, <1>2, <3>2 DEF Effect
      <4>3. Fits([inv[i] EXCEPT !.state = "accepted", !.game = "running", !.turn = t])
        BY <1>3, <3>2, <4>1 DEF InvRecord, FitsGame, PhaseOf
      <4> QED
        BY <4>2, <4>3
    <3> QED
      BY <1>8, <3>1, <3>2
  <2>4. PICK m : /\ inv' = [inv EXCEPT ![i] = m] /\ FitsGame(m)
                 /\ PhaseOf(m) = IF op[c] = "accept" THEN "playing" ELSE "withdrawn"
                 /\ m.early = (inv[i].early \/ ~Shared(i))
    <3>1. PICK m : m = [new EXCEPT !.early = @ \/ ~Shared(i)]
      OBVIOUS
    <3>2. inv' = [inv EXCEPT ![i] = m]
      BY <2>3, <3>1 DEF Becomes
    <3>3. /\ m.state = new.state /\ m.game = new.game
          /\ m.early = (new.early \/ ~Shared(i))
      BY <2>3, <3>1, Zenon DEF InvRecord
    <3>4. FitsGame(m) /\ PhaseOf(m) = PhaseOf(new)
      BY <2>3, <3>3 DEF FitsGame, PhaseOf
    <3> QED
      BY <2>3, <3>2, <3>3, <3>4
  <2>5. inv'[i] = m
    BY <2>4 DEF Types, TypeOK
  <2>6. Phase(i)' = IF op[c] = "accept" THEN "playing" ELSE "withdrawn"
    BY <2>4, <2>5 DEF Phase
  <2>7. op[c] # "accept" => Ends(c, i)'
    BY <1>4, <1>5, <1>8 DEF Ends, AfterAct
  <2>8. Turns(c, i)
    BY <1>1, <1>2, <2>1, <2>2, <2>4, <2>5, <2>6, <2>7 DEF Turns
  <2>9. Turned(c)
    BY <1>2, <2>4, <2>8, StagesSet
  <2>10. q \in {"search", "rmown"} /\ (q = "rmown" => op[c] # "accept")
    BY <1>4, <1>8 DEF AfterAct
  <2>11. Framed(c)
    BY <1>1, <1>4, <1>6, <1>7, <2>9, <2>10, FrameOnward DEF Counting, Halfway, Ends
  <2>12. Late(c)'
    <3>1. Phase(ptr[c])' = Phase(i)'
      BY <1>5 DEF Phase
    <3> QED
      BY <1>5, <1>8, <2>6, <2>10, <3>1 DEF Late, Past
  <2> QED
    BY <2>11, <2>12
<1>9. CASE op[c] \in {"resign", "move"}
  <2>1. UNCHANGED inv
    BY <1>1, <1>9 DEF Effect
  <2>2. Phase(i) = "playing" /\ Phase(i)' = "playing" /\ c \in Parties(i)
    BY <1>1, <1>2, <1>3, <1>9, <2>1 DEF May, MayResign, MayMove, Entitled, Staged, FitsGame,
                                        Phase, PhaseOf, Allocated
  <2>3. Turned(c)
    BY <1>1, <2>1, StagesKept
  <2>4. q = (IF op[c] = "resign" THEN "resign" ELSE "place")
    BY <1>4, <1>9 DEF AfterAct
  <2>5. Ceded(c)
    <3>1. CASE op[c] = "move"
      BY <1>1, <1>5, <2>4, <3>1, CededKept
    <3>2. CASE op[c] = "resign"
      <4>1. Conceding(i) = {}
        BY <1>1, <1>2, <3>2 DEF Enters, May
      <4>2. pc'[c] = "resign" /\ \A d \in Client \ {c} : pc'[d] = pc[d] /\ ptr'[d] = ptr[d]
        BY <1>5, <2>4, <3>2 DEF Apart, Alone
      <4>3. Conceding(i)' = {c}
        BY <1>5, <4>1, <4>2 DEF Conceding
      <4>4. \A j \in Inv \ {i} : Conceding(j)' = Conceding(j)
        BY <1>1, <1>2, <1>5, <4>2 DEF Conceding
      <4> QED
        BY <1>1, <1>2, <2>2, <4>1, <4>3, <4>4 DEF Ceded
    <3> QED
      BY <1>9, <3>1, <3>2
  <2>6. Framed(c)
    BY <1>1, <1>4, <1>6, <1>7, <2>3, <2>4, <2>5, FrameOnward DEF Counting, Halfway, Ends
  <2>7. Late(c)'
    <3>1. Phase(ptr[c])' = Phase(i)'
      BY <1>5 DEF Phase
    <3> QED
      BY <1>5, <2>2, <2>4, <3>1 DEF Late
  <2> QED
    BY <2>6, <2>7
<1> QED
  BY <1>1, <1>8, <1>9 DEF Request, Closing

LEMMA OnwardFramed ==
    ASSUME LifeInv, NEW c \in Client, Resign(c) \/ Close(c) \/ Place(c) \/ Finish(c)
    PROVE  Framed(c) /\ Late(c)'
<1> Types
  BY DEF LifeInv, AgreeInv, ListInv, RefInv
<1> USE DEF At
<1>1. /\ UNCHANGED <<lst, ptr, op, peer>> /\ pc[c] \in Counting \ Halfway /\ Late(c)
  BY DEF Resign, Close, Place, Finish, Counting, Halfway, LifeInv
<1>2. PICK i \in Inv : i = ptr[c]
  BY <1>1 DEF Types, Control
<1>3. /\ Allocated(i) /\ Staged(i) /\ FitsGame(inv[i])
      /\ inv[i] \in InvRecord /\ inv \in [Inv -> InvRecord]
  <2>1. NoDangling
    BY HeldIsThere DEF LifeInv, CountInv
  <2> QED
    BY <1>1, <1>2, <2>1 DEF NoDangling, Staged, LifeInv, Types, TypeOK
<1>4. PICK q : Goto(c, q) /\ q = IF Resign(c) THEN "close" ELSE IF Close(c) THEN "rmown"
                                 ELSE IF Place(c) THEN "finish" ELSE "search"
  BY DEF Resign, Close, Place, Finish
<1>5. Apart(c) /\ pc'[c] = q /\ ptr'[c] = i /\ op'[c] = op[c]
  BY <1>1, <1>2, <1>4, GotoApart
<1>6. SameParties
  BY ChangingParties DEF Changing
<1>7. Relisted(c)
  BY <1>1, ListsKept
<1>8. Phase(ptr[c])' = Phase(i)' /\ Phase(ptr[c]) = Phase(i)
  BY <1>2, <1>5 DEF Phase
<1>9. CASE Resign(c)
  <2>1. pc[c] = "resign" /\ op[c] = "resign" /\ q = "close"
    BY <1>4, <1>9 DEF Resign, Types, Control
  <2>2. PICK m : m = [inv[i] EXCEPT !.game = "over"]
    OBVIOUS
  <2>3. inv' = [inv EXCEPT ![i] = m]
    BY <1>2, <1>9, <2>2 DEF Resign
  <2>4. m.state = inv[i].state /\ m.game = "over" /\ m.early = inv[i].early
    BY <1>3, <2>2 DEF InvRecord
  <2>5. inv'[i] = m
    BY <1>3, <2>3
  <2>6. Phase(i) \in {"playing", "over"} /\ FitsGame(m) /\ PhaseOf(m) = "over"
    BY <1>1, <1>3, <1>8, <2>1, <2>4 DEF Late, Phase, PhaseOf, FitsGame, Allocated
  <2>7. Phase(i)' = "over" /\ EarlyKept(i) /\ Ends(c, i)'
    BY <1>5, <2>1, <2>4, <2>5, <2>6 DEF Phase, EarlyKept, Ends
  <2>8. Turned(c)
    <3>1. Turns(c, i)
      BY <1>2, <2>1, <2>6, <2>7 DEF Turns
    <3> QED
      BY <1>2, <2>3, <2>6, <3>1, StagesSet
  <2>9. Ceded(c)
    <3>1. \A j : Conceding(j)' = Conceding(j)
      BY <1>1, <1>5, <2>1 DEF Conceding, Apart, Alone
    <3> QED
      BY <2>1, <3>1 DEF Ceded
  <2>10. Ends(c, ptr[c])'
    BY <1>5, <2>7 DEF Ends
  <2>11. Framed(c)
    BY <1>1, <1>4, <1>6, <1>7, <2>1, <2>8, <2>9, <2>10, FrameOnward DEF Halfway
  <2>12. Late(c)'
    BY <1>5, <1>8, <2>1, <2>7 DEF Late
  <2> QED
    BY <2>11, <2>12
<1>10. CASE Close(c)
  <2>1. pc[c] = "close" /\ op[c] = "resign" /\ q = "rmown"
    BY <1>4, <1>10 DEF Resign, Close, Types, Control
  <2>2. PICK m : m = [inv[i] EXCEPT !.state = "closed"]
    OBVIOUS
  <2>3. inv' = [inv EXCEPT ![i] = m]
    BY <1>2, <1>10, <2>2 DEF Close
  <2>4. m.state = "closed" /\ m.game = inv[i].game /\ m.early = inv[i].early
    BY <1>3, <2>2 DEF InvRecord
  <2>5. inv'[i] = m
    BY <1>3, <2>3
  <2>6. Phase(i) = "over" /\ FitsGame(m) /\ PhaseOf(m) = "resigned"
    BY <1>1, <1>3, <1>8, <2>1, <2>4 DEF Late, Phase, PhaseOf, FitsGame
  <2>7. Phase(i)' = "resigned" /\ EarlyKept(i) /\ Ends(c, i)'
    BY <1>5, <2>1, <2>4, <2>5, <2>6 DEF Phase, EarlyKept, Ends
  <2>8. Turned(c)
    <3>1. Turns(c, i)
      BY <1>2, <2>1, <2>6, <2>7 DEF Turns
    <3> QED
      BY <1>2, <2>3, <2>6, <3>1, StagesSet
  <2>9. Ceded(c)
    <3>1. Conceding(i) = {c}
      <4>1. ASSUME NEW d \in Conceding(i) PROVE d = c
        <5>1. d \in Client /\ pc[d] \in {"resign", "close"} /\ ptr[d] = i
          BY DEF Conceding
        <5>2. op[d] = "resign"
          BY <5>1 DEF Types, Control
        <5>3. c \in Closers(i) /\ d \in Closers(i)
          BY <1>2, <2>1, <5>1, <5>2 DEF Closers, Closing, Counting
        <5> QED
          BY <5>3 DEF LifeInv, CloserInv, OneCloser
      <4>2. c \in Conceding(i)
        BY <1>2, <2>1 DEF Conceding
      <4> QED
        BY <4>1, <4>2
    <3>2. \A d \in Client \ {c} : pc'[d] = pc[d] /\ ptr'[d] = ptr[d]
      BY <1>5 DEF Apart, Alone
    <3>3. Conceding(i)' = {}
      BY <1>5, <2>1, <3>1, <3>2 DEF Conceding
    <3>4. \A j \in Inv \ {i} : Conceding(j)' = Conceding(j)
      BY <1>2, <1>5, <2>1, <3>2 DEF Conceding
    <3> QED
      BY <1>2, <2>1, <3>1, <3>3, <3>4 DEF Ceded
  <2>10. Ends(c, ptr[c])'
    BY <1>5, <2>7 DEF Ends
  <2>11. Framed(c)
    BY <1>1, <1>4, <1>6, <1>7, <2>1, <2>8, <2>9, <2>10, FrameOnward DEF Halfway
  <2>12. Late(c)'
    BY <1>5, <1>8, <2>1, <2>7 DEF Late, Past
  <2> QED
    BY <2>11, <2>12
<1>11. CASE Place(c)
  <2>1. pc[c] = "place" /\ op[c] = "move" /\ q = "finish"
    BY <1>4, <1>11 DEF Resign, Close, Place, Types, Control
  <2>2. PICK m : m = [inv[i] EXCEPT !.turn = Opponent(i, c)]
    OBVIOUS
  <2>3. inv' = [inv EXCEPT ![i] = m]
    BY <1>2, <1>11, <2>2 DEF Place
  <2>4. m.state = inv[i].state /\ m.game = inv[i].game /\ m.early = inv[i].early
    BY <1>3, <2>2 DEF InvRecord
  <2>5. inv'[i] = m
    BY <1>3, <2>3
  <2>6. FitsGame(m) /\ Phase(i)' = Phase(i) /\ EarlyKept(i)
    BY <1>3, <2>4, <2>5 DEF Phase, PhaseOf, FitsGame, EarlyKept
  <2>7. Turned(c)
    <3>1. Turns(c, i)
      BY <2>1, <2>6 DEF Turns
    <3> QED
      BY <1>2, <2>3, <2>6, <3>1, StagesSet
  <2>8. Framed(c)
    BY <1>1, <1>4, <1>6, <1>7, <2>1, <2>7, FrameOnward DEF Halfway, Ends
  <2>9. Late(c)'
    BY <1>1, <1>5, <1>8, <2>1, <2>6 DEF Late
  <2> QED
    BY <2>8, <2>9
<1>12. CASE Finish(c)
  <2>1. pc[c] = "finish" /\ op[c] = "move" /\ q = "search"
    BY <1>4, <1>12 DEF Resign, Close, Place, Finish, Types, Control
  <2>2. PICK m : /\ inv' = [inv EXCEPT ![i] = m]
                 /\ m.state = inv[i].state /\ m.game \in {inv[i].game, "over"}
                 /\ m.early = inv[i].early
    <3>1. PICK r : r = [inv[i] EXCEPT !.game = "over"]
      OBVIOUS
    <3>2. r.state = inv[i].state /\ r.game = "over" /\ r.early = inv[i].early
      BY <1>3, <3>1 DEF InvRecord
    <3>3. inv' = [inv EXCEPT ![i] = r] \/ inv' = [inv EXCEPT ![i] = inv[i]]
      BY <1>2, <1>3, <1>12, <3>1 DEF Finish
    <3> QED
      BY <3>2, <3>3
  <2>3. inv'[i] = m
    BY <1>3, <2>2
  <2>4. /\ Phase(i) \in {"playing", "over", "resigned"} /\ FitsGame(m)
        /\ PhaseOf(m) = Phase(i) \/ (Phase(i) = "playing" /\ PhaseOf(m) = "over")
    BY <1>1, <1>3, <1>8, <2>1, <2>2 DEF Late, Phase, PhaseOf, FitsGame, Allocated, InvRecord
  <2>5. /\ Phase(i)' = Phase(i) \/ (Phase(i) = "playing" /\ Phase(i)' = "over")
        /\ EarlyKept(i) /\ Ends(c, i)'
    BY <1>5, <2>1, <2>2, <2>3, <2>4 DEF Phase, EarlyKept, Ends
  <2>6. Turned(c)
    <3>1. Turns(c, i)
      BY <1>2, <2>1, <2>5 DEF Turns
    <3> QED
      BY <1>2, <2>2, <2>4, <3>1, StagesSet
  <2>7. Ends(c, ptr[c])'
    BY <1>5, <2>5 DEF Ends
  <2>8. Framed(c)
    BY <1>1, <1>4, <1>6, <1>7, <2>1, <2>6, <2>7, FrameOnward DEF Halfway
  <2>9. Late(c)'
    BY <1>5, <1>8, <2>1, <2>4, <2>5 DEF Late
  <2> QED
    BY <2>8, <2>9
<1> QED
  BY <1>9, <1>10, <1>11, <1>12

\* A thread that finds an invitation gone from its own list finds it in no list.
LEMMA OwnListLast ==
    ASSUME LifeInv, NEW c \in Client, pc[c] = "rmown", ~Listed(c, ptr[c]),
           ~inv[ptr[c]].early, NEW d \in Client
    PROVE  ~Listed(d, ptr[c])
<1> SUFFICES ASSUME Listed(d, ptr[c]) PROVE FALSE
  OBVIOUS
<1>1. PICK i \in Inv : i = ptr[c]
  BY DEF LifeInv, AgreeInv, ListInv, RefInv, Types, Control, Counting
<1>2. c \in Parties(i) /\ d # c /\ Past(i)
  BY <1>1 DEF LifeInv, AgreeInv, AtWork, Working, Late
<1>3. pc[d] \in Halfway /\ ptr[d] = i
  BY <1>1, <1>2 DEF LifeInv, AgreeInv, Even, Halfway
<1> QED
  BY <1>1, <1>2, <1>3 DEF LifeInv, Own, Past

\* A thread that has found it gone from the other party's list, too.
LEMMA PeerListLast ==
    ASSUME LifeInv, NEW c \in Client, pc[c] = "rmpeer",
           ~Listed(Opponent(ptr[c], c), ptr[c]), NEW d \in Client
    PROVE  ~Listed(d, ptr[c])
BY OnlyParties DEF LifeInv, AgreeInv, Gone

\* A mover who does not find it in the other party's list: either nobody does, or
\* that party is about to look for it in the mover's.
LEMMA SearchedLast ==
    ASSUME LifeInv, NEW c \in Client, pc[c] = "search", ~Listed(Opponent(ptr[c], c), ptr[c]),
           Past(ptr[c]), ~inv[ptr[c]].early
    PROVE  \/ \A d \in Client : ~Listed(d, ptr[c])
           \/ \E t \in Client \ {c} : Ends(t, ptr[c])
<1> SUFFICES ASSUME NEW d \in Client, Listed(d, ptr[c])
             PROVE  \E t \in Client \ {c} : Ends(t, ptr[c])
  OBVIOUS
<1>1. PICK i \in Inv : i = ptr[c]
  BY DEF LifeInv, AgreeInv, ListInv, RefInv, Types, Control, Counting
<1>2. PICK p \in Client : p = Opponent(i, c)
  BY <1>1, ListedThere DEF LifeInv, AgreeInv, ListInv, RefInv, Named, Opponent
<1>3. p \in Parties(i) /\ c \in Parties(i)
  BY <1>1, <1>2 DEF LifeInv, AgreeInv, AtWork, Working, Opponent, Parties
<1>4. \/ pc[p] = "rmpeer" /\ ptr[p] = i
      \/ pc[d] \in Halfway /\ ptr[d] = i
  BY <1>1, <1>2, <1>3 DEF LifeInv, AgreeInv, Even, Halfway
<1>5. ~(pc[d] \in Halfway /\ ptr[d] = i)
  BY <1>1 DEF LifeInv, Own, Past
<1> QED
  BY <1>1, <1>4, <1>5 DEF Ends

LEMMA RemovalFramed ==
    ASSUME LifeInv, AgreeInv', NEW c \in Client,
           EraseOwn(c) \/ OwnGone(c) \/ ErasePeer(c) \/ PeerGone(c)
    PROVE  Framed(c) /\ Late(c)'
<1> Types
  BY DEF LifeInv, AgreeInv, ListInv, RefInv
<1> USE DEF At
<1>1. /\ ptr[c] \in Inv /\ pc[c] \in {"rmown", "rmpeer"} /\ pc[c] \in Counting
      /\ pc[c] \notin Halfway /\ pc[c] \notin {"addtgt", "resign", "close"} /\ Late(c)
  BY DEF EraseOwn, OwnGone, ErasePeer, PeerGone, Types, Control, Counting, Halfway, LifeInv
<1>2. ASSUME Framed(c), ptr' = ptr, op' = op, pc'[c] \in {"rmpeer", "post", "drop"}
      PROVE  Late(c)'
  <2> SUFFICES ASSUME pc'[c] = "rmpeer" PROVE Late(c)'
    BY <1>2 DEF Late
  <2>1. PICK i \in Inv : i = ptr[c]
    BY <1>1
  <2>2. Known'
    BY KnownThere, PTL
  <2>3. Phase(i)' # "none"
    BY <1>2, <2>1, <2>2 DEF Known, Counting, Phase
  <2>4. Phase(i)' = Phase(ptr[c])' /\ Phase(i) = Phase(ptr[c])
    BY <1>2, <2>1 DEF Phase
  <2>5. Phase(i)' = Phase(i)
    BY <1>1, <1>2, <2>3 DEF Framed, Turned, Turns
  <2> QED
    BY <1>1, <1>2, <2>4, <2>5 DEF Late, Past
<1>3. CASE EraseOwn(c)
  <2>1. /\ pc[c] = "rmown" /\ DropInv(ptr[c], NoClient, NoClient) /\ Goto(c, "rmpeer")
        /\ ptr' = ptr /\ peer' = peer /\ op' = op
    BY <1>3 DEF EraseOwn
  <2>2. PICK k \in Slot : Erase(c, ptr[c], k)
    BY <1>3 DEF EraseOwn
  <2>3. pc'[c] = "rmpeer" /\ pc'[c] \in Counting
    BY <2>1, GotoFrame DEF Counting
  <2>4. Relisted(c) /\ Turned(c) /\ SameParties
    BY <1>1, <2>1, <2>2, <2>3, ListsErased, StagesDropped, DropParties
  <2>5. Ends(c, ptr[c])'
    BY <2>3 DEF Ends
  <2>6. Framed(c) /\ pc'[c] = "rmpeer"
    BY <1>1, <2>1, <2>4, <2>5, FrameOnward DEF Halfway
  <2> QED
    BY <1>2, <2>1, <2>6
<1>4. CASE ErasePeer(c)
  <2> DEFINE p == Opponent(ptr[c], c)
  <2>1. pc[c] = "rmpeer" /\ ptr' = ptr /\ op' = op /\ peer' = [peer EXCEPT ![c] = p]
    BY <1>4 DEF ErasePeer
  <2>2. PICK k \in Slot : Erase(p, ptr[c], k)
    BY <1>4 DEF ErasePeer
  <2>3. PICK gain : DropInv(ptr[c], gain, NoClient)
    BY <1>4 DEF ErasePeer
  <2>4. PICK q \in {"post", "drop"} : Goto(c, q)
    BY <1>4 DEF ErasePeer
  <2>5. p \in Client
    <3>1. Holds(c, ptr[c])
      BY <1>1 DEF Holds
    <3> QED
      BY <1>1, <3>1, HeldAllocated DEF LifeInv, AgreeInv, ListInv, RefInv, Named, Opponent
  <2>6. \A d \in Client \ {p} : ~Listed(d, ptr[c])
    BY <2>1, OnlyParties DEF LifeInv, AgreeInv, Gone
  <2> HIDE DEF p
  <2>7. pc'[c] = q /\ pc'[c] \in Counting
    BY <2>4, GotoFrame DEF Counting
  <2>8. Relisted(c) /\ Turned(c) /\ SameParties
    BY <1>1, <2>1, <2>2, <2>3, <2>5, <2>7, ListsErased, StagesDropped, DropParties
  <2>9. \A d \in Client, i \in Inv : i = ptr[c] => ~Listed(d, i)'
    BY <2>2, <2>5, <2>6, ErasedListed DEF LifeInv, AgreeInv
  <2>10. Framed(c) /\ pc'[c] = q
    BY <1>1, <2>1, <2>4, <2>8, <2>9, FrameOnward DEF Halfway
  <2> QED
    BY <1>2, <2>1, <2>10
<1>5. CASE OwnGone(c) \/ PeerGone(c)
  <2>1. UNCHANGED lst
    BY <1>5 DEF OwnGone, PeerGone
  <2>2. OwnGone(c) => ~Listed(c, ptr[c])
    BY <1>1, ScansFind DEF OwnGone, LifeInv, AgreeInv
  <2>3. PeerGone(c) => ~Listed(Opponent(ptr[c], c), ptr[c])
    <3>1. Opponent(ptr[c], c) \in Client
      <4>1. Holds(c, ptr[c])
        BY <1>1 DEF Holds
      <4> QED
        BY <1>1, <4>1, HeldAllocated DEF LifeInv, AgreeInv, ListInv, RefInv, Named, Opponent
    <3> QED
      BY <1>1, <3>1, ScansFind DEF PeerGone, LifeInv, AgreeInv
  <2>4. ~inv[ptr[c]].early => \A d \in Client : ~Listed(d, ptr[c])
    BY <1>5, <2>2, <2>3, OwnListLast, PeerListLast DEF OwnGone, PeerGone
  <2>5. CASE op[c] = "move"
    <3>1. PICK q \in {"rmpeer", "post"} : Goto(c, q)
      BY <1>5, <2>5 DEF OwnGone, PeerGone
    <3>2. UNCHANGED <<inv, op, ptr, peer>>
      BY <1>5, <2>5 DEF OwnGone, PeerGone
    <3>3. Relisted(c) /\ Turned(c) /\ SameParties
      BY <1>1, <2>1, <3>2, ListsKept, StagesKept DEF SameParties
    <3>4. ~inv[ptr[c]].early => \A d \in Client, i \in Inv : i = ptr[c] => ~Listed(d, i)'
      BY <2>1, <2>4 DEF Listed
    <3>5. Framed(c) /\ pc'[c] = q
      BY <1>1, <3>1, <3>2, <3>3, <3>4, FrameOnward DEF Halfway
    <3> QED
      BY <1>2, <3>2, <3>5
  <2>6. CASE op[c] # "move"
    <3>1. DropInv(ptr[c], NoClient, NoClient) /\ Return(c, FALSE)
      BY <1>5, <2>6 DEF OwnGone, PeerGone, GiveUp
    <3> QED
      BY <1>1, <2>1, <2>4, <3>1, FrameReturn
  <2> QED
    BY <2>5, <2>6
<1> QED
  BY <1>3, <1>4, <1>5

LEMMA ServeFramed ==
    ASSUME LifeInv, AgreeInv', NEW c \in Client, Serve(c)
    PROVE  Framed(c) /\ Late(c)'
<1> Types
  BY DEF LifeInv, AgreeInv, ListInv, RefInv
<1> USE DEF At
<1>1. CASE Take(c)
  <2>1. UNCHANGED <<lst, inv, ptr, peer, op>> /\ pc[c] = "peeked"
        /\ (pc' = pc \/ Goto(c, "act"))
    BY <1>1 DEF Take
  <2>2. Apart(c) /\ pc'[c] \in {"peeked", "act"}
    <3>1. CASE pc' = pc
      BY <2>1, <3>1 DEF Apart, Alone
    <3>2. CASE Goto(c, "act")
      BY <2>1, <3>2, GotoApart
    <3> QED
      BY <2>1, <3>1, <3>2
  <2> QED
    BY <2>1, <2>2, FrameAside DEF Aside, Halfway
<1>2. CASE Refuse(c) \/ RefuseMove(c)
  BY <1>2, FrameReturn DEF Refuse, RefuseMove, GiveUp, Counting, Ends
<1>3. CASE Search(c)
  <2>1. /\ UNCHANGED <<lst, inv, ptr, op>> /\ pc[c] = "search"
        /\ \E x : peer' = [peer EXCEPT ![c] = x]
        /\ Goto(c, IF op[c] = "move" THEN "over" ELSE "drop")
    BY <1>3 DEF Search
  <2>2. PICK q \in {"over", "drop"} : Goto(c, q) /\ (q = "over" <=> op[c] = "move")
    BY <2>1
  <2>3. Relisted(c) /\ Turned(c) /\ SameParties
    BY <2>1, ListsKept, StagesKept DEF SameParties
  <2>4. Ends(c, ptr[c]) => Ends(c, ptr[c])'
    BY <2>1, <2>2, GotoFrame DEF Ends
  <2>5. Framed(c) /\ pc'[c] = q
    BY <2>1, <2>2, <2>3, <2>4, FrameOnward DEF Halfway, Counting
  <2>6. Late(c)'
    BY <2>1, <2>2, <2>5 DEF LifeInv, Late, Phase
  <2> QED
    BY <2>5, <2>6
<1>4. CASE SearchFails(c)
  <2>1. /\ pc[c] = "search" /\ lst' = lst /\ DropInv(ptr[c], NoClient, NoClient)
        /\ Return(c, FALSE) /\ ptr[c] \in Inv
    BY <1>4 DEF SearchFails, GiveUp, Types, Control, Counting
  <2>2. ~Listed(Opponent(ptr[c], c), ptr[c])
    <3>1. Opponent(ptr[c], c) \in Client
      <4>1. Holds(c, ptr[c])
        BY <2>1 DEF Holds, Counting
      <4> QED
        BY <2>1, <4>1, HeldAllocated DEF LifeInv, AgreeInv, ListInv, RefInv, Named, Opponent
    <3> QED
      BY <1>4, <2>1, <3>1, ScansFind DEF SearchFails, LifeInv, AgreeInv
  <2>3. Past(ptr[c]) /\ ~inv[ptr[c]].early =>
          \/ \A d \in Client : ~Listed(d, ptr[c])
          \/ \E t \in Client \ {c} : Ends(t, ptr[c])
    BY <2>1, <2>2, SearchedLast
  <2> QED
    BY <2>1, <2>3, FrameReturn DEF Counting
<1>5. CASE CheckOver(c)
  <2>1. /\ UNCHANGED lst /\ ptr[c] \in Inv /\ pc[c] = "over" /\ op[c] = "move"
        /\ Phase(ptr[c]) \in {"playing", "over", "resigned"}
    BY <1>5 DEF CheckOver, Types, Control, Counting, LifeInv, CountInv, PeerRight, Late
  <2>2. CASE inv[ptr[c]].game = "over"
    <3>1. Goto(c, "rmown") /\ UNCHANGED <<inv, ptr, peer, op>>
      BY <1>5, <2>2 DEF CheckOver
    <3>2. Relisted(c) /\ Turned(c) /\ SameParties
      BY <2>1, <3>1, ListsKept, StagesKept DEF SameParties
    <3>3. Ends(c, ptr[c])'
      BY <3>1, GotoFrame DEF Ends
    <3>4. Framed(c) /\ pc'[c] = "rmown"
      BY <2>1, <3>1, <3>2, <3>3, FrameOnward DEF Halfway, Counting
    <3>5. Past(ptr[c])
      BY <2>1, <2>2 DEF Past, Phase, PhaseOf
    <3>6. Late(c)'
      BY <2>1, <3>1, <3>4, <3>5 DEF Late, Past, Phase
    <3> QED
      BY <3>4, <3>6
  <2>3. CASE inv[ptr[c]].game # "over"
    <3>1. DropInv(ptr[c], NoClient, peer[c]) /\ Return(c, TRUE)
      BY <1>5, <2>3 DEF CheckOver
    <3>2. ~Past(ptr[c])
      BY <2>1, <2>3 DEF Past, Phase, PhaseOf
    <3> QED
      BY <2>1, <3>1, <3>2, FrameReturn DEF Counting
  <2> QED
    BY <2>2, <2>3
<1>6. CASE Post(c)
  <2>1. Goto(c, "drop") /\ UNCHANGED <<lst, ptr, peer, op>> /\ pc[c] = "post" /\ ptr[c] \in Inv
    BY <1>6 DEF Post, Types, Control, Counting
  <2>2. Turned(c)
    <3>1. PICK m : /\ inv' = [inv EXCEPT ![ptr[c]] = m]
                   /\ m.state = inv[ptr[c]].state /\ m.game = inv[ptr[c]].game
                   /\ m.early = inv[ptr[c]].early
      <4>1. PICK r : r = [inv[ptr[c]] EXCEPT !.posted = @ + 1]
        OBVIOUS
      <4>2. inv[ptr[c]] \in InvRecord /\ inv \in [Inv -> InvRecord]
        BY <2>1 DEF Types, TypeOK
      <4>3. /\ r.state = inv[ptr[c]].state /\ r.game = inv[ptr[c]].game
            /\ r.early = inv[ptr[c]].early
        BY <4>1, <4>2 DEF InvRecord
      <4>4. \/ inv' = [inv EXCEPT ![ptr[c]] = r]
            \/ inv' = [inv EXCEPT ![ptr[c]] = inv[ptr[c]]]
        BY <1>6, <4>1, <4>2 DEF Post
      <4> QED
        BY <4>3, <4>4
    <3>2. \A i \in Inv : /\ inv'[i].state = inv[i].state /\ inv'[i].game = inv[i].game
                         /\ inv'[i].early = inv[i].early
      BY <3>1 DEF Types, TypeOK
    <3> QED
      BY <2>1, <3>2 DEF Turned, Turns, EarlyKept, LifeInv, Staged, FitsGame, Phase, PhaseOf,
                        Allocated
  <2>3. Relisted(c) /\ SameParties
    BY <1>6, <2>1, ListsKept, ChangingParties DEF Changing
  <2>4. Framed(c) /\ pc'[c] = "drop"
    BY <2>1, <2>2, <2>3, FrameOnward DEF Halfway, Counting, Ends
  <2>5. Late(c)'
    BY <2>4 DEF Late
  <2> QED
    BY <2>4, <2>5
<1>7. CASE Drop(c) /\ op[c] \in {"move", "resign"}
  <2>1. pc[c] = "drop" /\ UNCHANGED lst /\ DropInv(ptr[c], NoClient, peer[c])
    BY <1>7 DEF Drop
  <2>2. PICK ok : Return(c, ok)
    BY <1>7 DEF Drop
  <2> QED
    BY <2>1, <2>2, FrameReturn DEF Counting, Ends
<1>8. CASE Drop(c) /\ op[c] \notin {"move", "resign"}
  <2>1. /\ pc[c] = "drop" /\ UNCHANGED lst /\ DropInv(ptr[c], NoClient, NoClient)
        /\ ptr[c] \in Inv /\ Goto(c, "notify") /\ ptr' = [ptr EXCEPT ![c] = NoInv]
        /\ peer' = peer /\ op' = op
    BY <1>8 DEF Drop, Types, Control, Counting
  <2>2. Apart(c) /\ pc'[c] = "notify"
    BY <2>1, GotoApart, Zenon
  <2>3. Relisted(c) /\ Turned(c) /\ SameParties /\ Ceded(c)
    BY <2>1, <2>2, ListsKept, StagesDropped, DropParties, CededKept
  <2>4. Finished(c) /\ Late(c)'
    BY <2>1, <2>2 DEF Finished, Late, Halfway, Ends
  <2> QED
    BY <2>2, <2>3, <2>4 DEF Framed
<1>9. CASE Notify(c)
  <2>1. PICK ok : Return(c, ok)
    BY <1>9 DEF Notify
  <2>2. Apart(c) /\ pc'[c] \in {"idle", "ack", "scan"}
    BY <2>1, ReturnApart
  <2> QED
    BY <1>9, <2>2, FrameAside DEF Notify, Aside, Halfway
<1>10. CASE Ack(c)
  <2>1. /\ Goto(c, "idle") /\ UNCHANGED <<lst, inv, ptr, peer>> /\ pc[c] = "ack"
        /\ op' = [op EXCEPT ![c] = "none"]
    BY <1>10 DEF Ack, objects
  <2>2. Apart(c) /\ pc'[c] = "idle"
    BY <2>1, GotoApart, Zenon
  <2> QED
    BY <2>1, <2>2, FrameAside DEF Aside, Halfway
<1> QED
  BY <1>1, <1>2, <1>3, <1>4, <1>5, <1>6, <1>7, <1>8, <1>9, <1>10,
     StagesActed, OnwardFramed, RemovalFramed DEF Serve

LEMMA OtherFramed ==
    ASSUME LifeInv, NEW c \in Client, Arrive(c) \/ Logout(c)
    PROVE  Framed(c) /\ Late(c)'
<1>1. /\ UNCHANGED <<lst, inv>> /\ Apart(c) /\ Harmless(c)
      /\ pc[c] \in {"idle", "scan", "unregister"} /\ pc'[c] \in Elsewhere
  BY OtherApart DEF LifeInv, AgreeInv, ListInv, RefInv
<1> QED
  BY <1>1, FrameAside DEF Aside, Halfway, Elsewhere

-----------------------------------------------------------------------------
LEMMA LifeInit == Init => LifeInv /\ L!Init
<1> SUFFICES ASSUME Init PROVE LifeInv /\ L!Init
  OBVIOUS
<1>1. AgreeInv /\ CountInv /\ CloserInv
  BY AgreeInit, CountsInit, RefsInit DEF Init, CloserInv, OneCloser, Closer, Closers, Counting
<1>2. \A i \in Inv : Phase(i) = "none" /\ ~Allocated(i)
  BY DEF Init, Blank, Phase, PhaseOf, Allocated
<1>3. \A c \in Client : pc[c] = "idle"
  BY DEF Init
<1>4. LifeInv
  BY <1>1, <1>2, <1>3 DEF LifeInv, Own, Late, Staged, Both, Leaving, Past, Halfway
<1>5. L!Init
  <2>1. ASSUME NEW i \in Inv PROVE Lives[i] = L!Nothing
    <3>1. /\ StageOf(inv[i]) = "none" /\ inv[i].src = NoClient /\ inv[i].tgt = NoClient
          /\ Conceding(i) = {}
      BY DEF Init, Blank, StageOf, Conceding
    <3> QED
      BY <1>2, <3>1, LifeFields DEF L!Nothing
  <2> QED
    BY <2>1 DEF L!Init, Lives
<1> QED
  BY <1>4, <1>5

LEMMA LifeNext == LifeInv /\ [Next]_vars => LifeInv' /\ [L!Next]_Lives
<1> SUFFICES ASSUME LifeInv, [Next]_vars PROVE LifeInv' /\ [L!Next]_Lives
  OBVIOUS
<1>1. AgreeInv' /\ CountInv' /\ CloserInv'
  BY AgreeNext, CountsStep, CloserStep DEF LifeInv
<1>2. CASE UNCHANGED vars \/ \E c \in Client : Disconnect(c)
  <2>1. UNCHANGED <<objects, threads>>
    BY <1>2 DEF vars, Disconnect
  <2>2. LifeInv'
    BY <1>1, <2>1 DEF objects, threads, LifeInv, Own, Late, Staged, Both, Leaving, Past,
                      Ends, Phase, Listed, Shared, Parties, Allocated
  <2>3. \A i : Conceding(i)' = Conceding(i) /\ (Shared(i)' <=> Shared(i))
    BY <2>1 DEF objects, threads, Conceding, Shared, Parties, Listed
  <2>4. \A i \in Inv : Lives'[i] = Lives[i]
    <3> SUFFICES ASSUME NEW i \in Inv PROVE Lives'[i] = Lives[i]
      OBVIOUS
    <3>1. inv'[i] = inv[i] /\ (Allocated(i)' /\ Shared(i)') = (Allocated(i) /\ Shared(i))
      BY <2>1, <2>3 DEF objects, Allocated
    <3> QED
      BY <2>3, <3>1, LifeFields
  <2>5. Lives' = Lives
    BY <2>4 DEF Lives
  <2> QED
    BY <2>2, <2>5
<1>3. ASSUME NEW c \in Client, NEW n \in Inv, Create(c, n)
      PROVE  LifeInv' /\ [L!Next]_Lives
  <2>1. LifeInv' /\ \E t \in Client : L!Offer(n, c, t)
    BY <1>1, <1>3, LifeCreate
  <2>2. L!Next
    BY <2>1 DEF L!Next
  <2> QED
    BY <2>1, <2>2
<1>4. ASSUME NEW c \in Client, Arrive(c) \/ Work(c), \A n \in Inv : ~Create(c, n)
      PROVE  LifeInv' /\ [L!Next]_Lives
  <2>1. Framed(c) /\ Late(c)'
    BY <1>1, <1>4, InviteFramed, ServeFramed, OtherFramed DEF Work
  <2> QED
    BY <1>1, <2>1, LifeStep, LifeMaps
<1> QED
  BY <1>2, <1>3, <1>4 DEF Next, Halted

\* An invitation that was closed, or whose game ended, is on its way out of
\* the lists: while it is in one, a thread that ended it is still at work on
\* it (the removals of client_revoke_invitation, client_decline_invitation,
\* client_resign_game and client_make_move, and their early returns).  So it is
\* whoever leaves and whatever malloc() hands out again, for every invitation
\* that nobody acted upon before it was in both lists.
THEOREM EndedOnesLeave == Spec => []ClosedLeaves
<1>1. LifeInv => ClosedLeaves
  <2> SUFFICES ASSUME LifeInv, NEW c \in Client, NEW k \in Slot, NEW i, i = lst[c][k],
                      i # NoInv, ~inv[i].early,
                      inv[i].state = "closed" \/ inv[i].game = "over"
               PROVE  Ending(i)
    BY DEF ClosedLeaves
  <2>1. i \in Inv /\ Listed(c, i)
    BY DEF LifeInv, AgreeInv, ListInv, RefInv, Types, TypeOK, Listed
  <2>2. Allocated(i) /\ Staged(i)
    BY <2>1, ListedThere DEF LifeInv, AgreeInv
  <2>3. Past(i)
    BY <2>1, <2>2 DEF Staged, FitsGame, Past, Phase, PhaseOf, Allocated, LifeInv, AgreeInv,
                      ListInv, RefInv, Types, TypeOK, InvRecord
  <2> QED
    BY <2>1, <2>3 DEF LifeInv, Leaving, Ends, Ending
<1> QED
  BY <1>1, LifeInit, LifeNext, PTL DEF Spec

\* Accepts, closings, moves, resignations and releases that meet on one
\* invitation take it through its life in order, though the checks and the
\* assignments of a move and of a resignation are steps apart: none is taken up
\* after it was withdrawn, one party at most resigns its game, both keep it in
\* their lists until it is withdrawn or over, and none is freed in mid-game
\* (inv_accept, inv_close, game_apply_move, game_resign,
\* client_remove_invitation, inv_unref).
THEOREM LifeInOrder == Spec => KeepsLifecycle
<1>1. Init => LifeInv /\ L!Init
  BY LifeInit
<1>2. LifeInv /\ [Next]_vars => LifeInv' /\ [L!Next]_Lives
  BY LifeNext
<1> QED
  BY <1>1, <1>2, PTL DEF Spec, KeepsLifecycle, L!Spec

-----------------------------------------------------------------------------
\* A game that ended is rated, as long as both players stay: somebody who will
\* post its result holds the invitation until then.

\* Thread t will post the result of the game of i, whatever the lists are;
Sure(t, i) == /\ ptr[t] = i
              /\ \/ op[t] = "move" /\ pc[t] \in {"over", "rmown", "rmpeer", "post"}
                 \/ op[t] = "resign" /\ pc[t] = "post"

\* ... unless somebody else empties a list before it gets there;
Able(t, i) == /\ ptr[t] = i
              /\ \/ op[t] = "move" /\ pc[t] = "search"
                 \/ op[t] = "resign" /\ pc[t] \in {"close", "rmown"}
              /\ Shared(i)

\* ... unless somebody else empties the other party's list.
Awaits(t, i) == /\ ptr[t] = i /\ op[t] = "resign" /\ pc[t] = "rmpeer"
                /\ Listed(Opponent(i, t), i)

Watches(t, i) == Sure(t, i) \/ Able(t, i) \/ Awaits(t, i)
Watched(i) == \E t \in Client : Watches(t, i)

Due(i) == /\ Allocated(i) /\ inv[i].game = "over" /\ inv[i].posted = 0
          /\ \A p \in Parties(i) : player[p]

Rated(i) == Due(i) => Watched(i)

\* Who posts a result posts that of both parties.
HasPeer(c) == pc[c] = "post" => c \in Parties(ptr[c]) /\ peer[c] = Opponent(ptr[c], c)

Two(i) == Allocated(i) => inv[i].src # inv[i].tgt

\* Who could move or resign reaches a game through its list: whoever has a
\* pointer to it before it is in both is still making it, or took it up.
Reach(i) == Phase(i) \in {"offered", "playing"} /\ ~Shared(i) =>
    /\ ptr[inv[i].src] = i => pc[inv[i].src] \in Halfway
    /\ Phase(i) = "playing" /\ ptr[inv[i].tgt] = i =>
         op[inv[i].tgt] = "accept" /\ pc[inv[i].tgt] \in {"search", "drop"}

RatedInv == /\ LifeInv
            /\ \A c \in Client : HasPeer(c)
            /\ \A i \in Inv : Two(i) /\ Reach(i) /\ Rated(i)

\* A step of thread c takes up no invitation but as its target, ...
TakenUp(c) == \A i \in Inv : Phase(i) # "playing" /\ Phase(i)' = "playing" =>
    c = inv[i].tgt /\ op'[c] = "accept" /\ pc'[c] = "search"

\* ... and reaches none before it is in both lists, but as its maker or target.
Reaches(c) ==
    \/ ptr'[c] = NoInv
    \/ /\ pc[c] \in {"idle", "scan", "unregister"} /\ UNCHANGED <<lst, inv>>
       /\ \E k \in Slot : ptr'[c] = lst[c][k]
    \/ /\ ptr'[c] = ptr[c]
       /\ \/ pc'[c] \in Halfway
          \/ pc[c] \notin Halfway /\ ~(op[c] = "accept" /\ pc[c] \in {"search", "drop"})
          \/ pc[c] = "search" /\ pc'[c] = "drop" /\ op' = op
          \/ Shared(ptr[c])'

LEMMA TypesOfLife == LifeInv => Types
BY DEF LifeInv, AgreeInv, ListInv, RefInv

LEMMA DroppedPhase ==
    ASSUME Types, NEW x, NEW gain, NEW loss, DropInv(x, gain, loss), NEW i \in Inv
    PROVE  (i # x => inv'[i] = inv[i]) /\ (inv'[i] = inv[i] \/ Phase(i)' = "none")
<1>1. inv' = inv \/ inv' = [inv EXCEPT ![x] = Released]
  BY DEF DropInv
<1>2. Released.state \in {"free", "quarantined"}
  BY DEF Released, Blank
<1> QED
  BY <1>1, <1>2 DEF Phase, PhaseOf, Types, TypeOK

LEMMA TakenUpStep ==
    ASSUME LifeInv, NEW c \in Client, Framed(c), Arrive(c) \/ Work(c)
    PROVE  TakenUp(c)
<1> Types
  BY TypesOfLife
<1> SUFFICES ASSUME NEW i \in Inv, Phase(i) # "playing", Phase(i)' = "playing"
             PROVE  c = inv[i].tgt /\ op'[c] = "accept" /\ pc'[c] = "search"
  BY DEF TakenUp
<1>1. i = ptr[c] /\ pc[c] = "act" /\ Phase(i) = "offered"
  BY DEF Framed, Turned, Turns
<1>2. Refuse(c) \/ RefuseMove(c) \/ Act(c)
  <2>1. ~Arrive(c) /\ ~Logout(c)
    BY <1>1, OtherApart
  <2>2. ~Invite(c)
    BY <1>1 DEF Invite, CreateFails, Create, AddToSource, SourceFull, AddToTarget,
                TargetFull, Undo, At
  <2> QED
    BY <1>1, <2>1, <2>2 DEF Work, Serve, Take, Resign, Close, Place, Finish, EraseOwn, OwnGone,
                            ErasePeer, PeerGone, Search, SearchFails, CheckOver, Post, Drop,
                            Notify, Ack, At
<1>3. CASE Refuse(c) \/ RefuseMove(c)
  <2>1. DropInv(ptr[c], NoClient, NoClient)
    BY <1>3 DEF Refuse, RefuseMove, GiveUp
  <2>2. inv'[i] = inv[i] \/ Phase(i)' = "none"
    BY <2>1, DroppedPhase
  <2> QED
    BY <2>2 DEF Phase
<1>4. CASE Act(c)
  <2>1. /\ May(c, i) /\ Effect(c, i) /\ op' = op /\ Goto(c, AfterAct(op[c]))
        /\ op[c] \in Request
    BY <1>1, <1>4 DEF Act, At, Types, Control
  <2>2. Late(c)' /\ ptr'[c] = i
    BY <1>1, <1>4, StagesActed DEF Act
  <2>3. op[c] \notin {"resign", "move"}
    BY <2>1 DEF Effect, Phase
  <2>4. op[c] \notin {"revoke", "decline"}
    <3> SUFFICES ASSUME op[c] \in {"revoke", "decline"} PROVE FALSE
      OBVIOUS
    <3>1. pc'[c] = "rmown"
      BY <2>1, GotoFrame DEF AfterAct
    <3>2. Phase(ptr[c])' = Phase(i)'
      BY <2>2 DEF Phase
    <3> QED
      BY <2>2, <3>1, <3>2 DEF Late, Past
  <2>5. op[c] = "accept"
    BY <2>1, <2>3, <2>4 DEF Request, Closing
  <2>6. pc'[c] = "search"
    BY <2>1, <2>5, GotoFrame DEF AfterAct
  <2> QED
    BY <2>1, <2>5, <2>6 DEF May, Entitled
<1> QED
  BY <1>2, <1>3, <1>4

\* What a party reaches through its list, and has not ended, is in both.
LEMMA ListedShared ==
    ASSUME LifeInv, NEW c \in Client, pc[c] \in {"idle", "scan", "unregister"},
           NEW i \in Inv, Listed(c, i), Phase(i) \in {"offered", "playing"}
    PROVE  Shared(i)
<1> SUFFICES ASSUME NEW p \in Parties(i), ~Listed(p, i) PROVE FALSE
  BY DEF Shared
<1>1. p \in Client
  <2>1. Allocated(i)
    BY PhaseAllocated
  <2> QED
    BY <2>1 DEF Parties, LifeInv, AgreeInv, ListInv, RefInv, Named
<1>2. pc[p] = "rmpeer" /\ ptr[p] = i
  BY <1>1 DEF LifeInv, AgreeInv, Even
<1> QED
  BY <1>1, <1>2 DEF LifeInv, Late, Past

LEMMA ReachStep ==
    ASSUME RatedInv, AgreeInv', NEW c \in Client, Framed(c), TakenUp(c), Reaches(c),
           NEW i \in Inv
    PROVE  Reach(i)'
<1> LifeInv
  BY DEF RatedInv
<1>1. \A d \in Client \ {c} : pc'[d] = pc[d] /\ ptr'[d] = ptr[d] /\ op'[d] = op[d]
  BY DEF Framed, Apart, Alone
<1> SUFFICES ASSUME Phase(i)' \in {"offered", "playing"}, ~Shared(i)'
             PROVE  /\ ptr'[inv'[i].src] = i => pc'[inv'[i].src] \in Halfway
                    /\ Phase(i)' = "playing" /\ ptr'[inv'[i].tgt] = i =>
                         op'[inv'[i].tgt] = "accept" /\ pc'[inv'[i].tgt] \in {"search", "drop"}
  BY DEF Reach
<1>2. Phase(i) \in {"offered", "playing"}
  BY DEF Framed, Turned, Turns
<1>3. Allocated(i)
  BY <1>2, PhaseAllocated
<1>4. ~Shared(i)
  <2>1. ~(i = ptr[c] /\ pc[c] \in {"rmown", "rmpeer"})
    BY <1>2 DEF LifeInv, Late, Past
  <2> QED
    BY <1>3, <2>1, SharedStays
<1>5. PICK s, t \in Client : /\ s = inv[i].src /\ t = inv[i].tgt /\ s # t
                             /\ inv'[i].src = s /\ inv'[i].tgt = t
  <2>1. AgreeInv /\ SameParties
    BY DEF Framed, LifeInv
  <2>2. inv'[i].src = inv[i].src /\ inv'[i].tgt = inv[i].tgt
    BY <1>3, <2>1, PartiesStay
  <2>3. inv[i].src \in Client /\ inv[i].tgt \in Client /\ inv[i].src # inv[i].tgt
    BY <1>3 DEF RatedInv, Two, LifeInv, AgreeInv, ListInv, RefInv, Named
  <2> QED
    BY <2>2, <2>3
<1>6. /\ ptr[s] = i => pc[s] \in Halfway
      /\ Phase(i) = "playing" /\ ptr[t] = i => op[t] = "accept" /\ pc[t] \in {"search", "drop"}
  BY <1>2, <1>4, <1>5 DEF RatedInv, Reach
<1>7. ASSUME ptr'[c] = i
      PROVE  /\ ptr[c] = i /\ ~Shared(ptr[c])'
             /\ ~(pc[c] \in {"idle", "scan", "unregister"} /\ \E k \in Slot : i = lst[c][k])
  <2>1. i # NoInv
    BY InvAssumption
  <2>2. ~(pc[c] \in {"idle", "scan", "unregister"} /\ \E k \in Slot : i = lst[c][k])
    <3> SUFFICES ASSUME pc[c] \in {"idle", "scan", "unregister"}, NEW k \in Slot, i = lst[c][k]
                 PROVE  FALSE
      OBVIOUS
    <3>1. Listed(c, i)
      BY DEF Listed
    <3> QED
      BY <1>2, <1>4, <3>1, ListedShared
  <2>3. ptr[c] = i
    BY <1>7, <2>1, <2>2 DEF Reaches
  <2>4. ~Shared(ptr[c])'
    BY <1>7 DEF Shared, Parties, Listed
  <2> QED
    BY <2>2, <2>3, <2>4
<1>8. pc'[c] \in Halfway => pc[c] \in Halfway /\ inv[ptr[c]].src = c
  BY DEF Framed, Finished, LifeInv, AgreeInv, Made
<1>9. ptr'[s] = i => pc'[s] \in Halfway
  <2>1. CASE s # c
    BY <1>1, <1>6, <2>1
  <2>2. CASE s = c
    <3> SUFFICES ASSUME ptr'[c] = i PROVE pc'[c] \in Halfway
      BY <2>2
    <3>1. pc[c] \in Halfway
      BY <1>6, <1>7, <2>2
    <3> QED
      BY <1>7, <3>1, InvAssumption DEF Reaches, Halfway
  <2> QED
    BY <2>1, <2>2
<1>10. ASSUME Phase(i)' = "playing", ptr'[t] = i
       PROVE  op'[t] = "accept" /\ pc'[t] \in {"search", "drop"}
  <2>1. CASE Phase(i) # "playing"
    BY <1>5, <1>10, <2>1 DEF TakenUp
  <2>2. CASE Phase(i) = "playing" /\ t # c
    BY <1>1, <1>6, <1>10, <2>2
  <2>3. CASE Phase(i) = "playing" /\ t = c
    <3>1. ptr[c] = i /\ op[c] = "accept" /\ pc[c] \in {"search", "drop"}
      BY <1>6, <1>7, <1>10, <2>3
    <3>2. pc'[c] \notin Halfway
      BY <1>8, <3>1 DEF Halfway
    <3> QED
      BY <1>7, <1>10, <2>3, <3>1, <3>2, InvAssumption DEF Reaches
  <2> QED
    BY <2>1, <2>2, <2>3
<1> QED
  BY <1>5, <1>9, <1>10

\* Every step reaches no more than that.
LEMMA ReachesInvite ==
    ASSUME LifeInv, NEW c \in Client, Invite(c), \A n \in Inv : ~Create(c, n)
    PROVE  Reaches(c)
<1> Types
  BY TypesOfLife
<1>1. CASE CreateFails(c) \/ SourceFull(c) \/ Undo(c)
  <2>1. PICK ok \in BOOLEAN : Return(c, ok)
    BY <1>1 DEF CreateFails, SourceFull, Undo, GiveUp
  <2> QED
    BY <2>1, ReturnApart DEF Reaches
<1>2. CASE AddToSource(c) \/ TargetFull(c)
  <2>1. PICK q \in Halfway : Goto(c, q) /\ ptr' = ptr
    BY <1>2 DEF AddToSource, TargetFull, Halfway
  <2> QED
    BY <2>1, GotoFrame DEF Reaches
<1>3. CASE AddToTarget(c)
  <2>1. PICK i \in Inv, p \in Client : i = ptr[c] /\ p = peer[c] /\ Parties(i) = {c, p}
    BY <1>3, MakerThere DEF AddToTarget, At, Halfway, LifeInv
  <2>2. PICK k \in Slot : Insert(p, i, k) /\ ptr' = ptr /\ inv' = inv /\ pc[c] = "addtgt"
    BY <1>3, <2>1 DEF AddToTarget, At
  <2>3. PICK m \in Slot : lst[c][m] = i
    BY <2>1, <2>2 DEF LifeInv, AgreeInv, Made, Halfway, Listed
  <2>4. lst' = [lst EXCEPT ![p][k] = i] /\ lst[p][k] = NoInv /\ i # NoInv
    BY <2>2 DEF Insert, IsFirst
  <2>5. lst'[c][m] = i /\ lst'[p][k] = i
    BY <2>3, <2>4 DEF Types, TypeOK
  <2>6. Shared(i)'
    BY <2>1, <2>2, <2>5 DEF Shared, Parties, Listed
  <2>7. Shared(ptr[c])'
    BY <2>1, <2>2, <2>6 DEF Shared, Parties, Listed
  <2> QED
    BY <2>1, <2>2, <2>7 DEF Reaches
<1> QED
  BY <1>1, <1>2, <1>3 DEF Invite

LEMMA ReachesServe ==
    ASSUME LifeInv, NEW c \in Client, Serve(c)
    PROVE  Reaches(c)
<1> Types
  BY TypesOfLife
<1>1. ASSUME NEW ok, Return(c, ok) PROVE ptr'[c] = NoInv
  BY <1>1, ReturnApart
<1>2. CASE Refuse(c) \/ RefuseMove(c) \/ SearchFails(c) \/ Notify(c)
  BY <1>1, <1>2 DEF Refuse, RefuseMove, SearchFails, Notify, GiveUp, Reaches
<1>3. CASE Take(c) \/ Act(c) \/ Resign(c) \/ Close(c) \/ Place(c) \/ Finish(c) \/ Post(c) \/ Ack(c)
  BY <1>3 DEF Take, Act, Resign, Close, Place, Finish, Post, Ack, At, Reaches, Halfway
<1>4. CASE EraseOwn(c) \/ OwnGone(c) \/ ErasePeer(c) \/ PeerGone(c) \/ CheckOver(c)
  <2>1. pc[c] \in {"rmown", "rmpeer", "over"} /\ (ptr' = ptr \/ \E ok \in BOOLEAN : Return(c, ok))
    BY <1>4 DEF EraseOwn, OwnGone, ErasePeer, PeerGone, CheckOver, GiveUp, At
  <2> QED
    BY <1>1, <2>1 DEF Reaches, Halfway
<1>5. CASE Search(c)
  <2>1. /\ pc[c] = "search" /\ ptr' = ptr /\ op' = op
        /\ Goto(c, IF op[c] = "move" THEN "over" ELSE "drop")
    BY <1>5 DEF Search, At
  <2>2. pc'[c] = IF op[c] = "move" THEN "over" ELSE "drop"
    BY <2>1, GotoFrame
  <2> QED
    BY <2>1, <2>2 DEF Reaches, Halfway
<1>6. CASE Drop(c)
  BY <1>1, <1>6 DEF Drop, Reaches, Types, TypeOK
<1> QED
  BY <1>2, <1>3, <1>4, <1>5, <1>6 DEF Serve

LEMMA ReachesOther ==
    ASSUME LifeInv, NEW c \in Client, Arrive(c) \/ Logout(c)
    PROVE  Reaches(c)
<1>1. /\ UNCHANGED <<lst, inv>> /\ Harmless(c) /\ pc[c] \in {"idle", "scan", "unregister"}
  BY OtherApart, TypesOfLife
<1> QED
  BY <1>1 DEF Reaches, Harmless, Halfway

-----------------------------------------------------------------------------
\* Nobody comes by a player.
LEMMA PlayersStay ==
    ASSUME NEW c \in Client, Arrive(c) \/ Work(c), NEW p \in Client, player'[p], Types
    PROVE  player[p]
<1>1. CASE Arrive(c) \/ Invite(c)
  BY <1>1 DEF Arrive, Lookup, Ask, Invite, CreateFails, Create, AddToSource, SourceFull,
              AddToTarget, TargetFull, Undo, objects
<1>2. CASE Serve(c)
  <2>1. CASE Take(c) \/ Refuse(c) \/ RefuseMove(c) \/ Act(c)
    BY <2>1 DEF Take, Refuse, RefuseMove, Act
  <2>2. CASE Resign(c) \/ Close(c) \/ Place(c) \/ Finish(c)
    BY <2>2 DEF Resign, Close, Place, Finish
  <2>3. CASE EraseOwn(c) \/ OwnGone(c) \/ ErasePeer(c) \/ PeerGone(c)
    BY <2>3 DEF EraseOwn, OwnGone, ErasePeer, PeerGone
  <2>4. CASE Search(c) \/ SearchFails(c) \/ CheckOver(c)
    BY <2>4 DEF Search, SearchFails, CheckOver
  <2>5. CASE Post(c) \/ Drop(c) \/ Notify(c) \/ Ack(c)
    BY <2>5 DEF Post, Drop, Notify, Ack, objects
  <2> QED
    BY <1>2, <2>1, <2>2, <2>3, <2>4, <2>5 DEF Serve
<1>3. CASE Logout(c)
  <2>1. player' = player \/ player' = [player EXCEPT ![c] = FALSE]
    BY <1>3 DEF Logout, Leave, ScanEmpty, ScanPeek, LoggedOut, Unregister, objects
  <2> QED
    BY <2>1 DEF Types, TypeOK
<1> QED
  BY <1>1, <1>2, <1>3 DEF Work

\* Whom a thread has to do with that is at work on a game.
LEMMA Aims ==
    ASSUME RatedInv, NEW c \in Client, pc[c] \in Working
    PROVE  /\ ptr[c] \in Inv /\ Allocated(ptr[c]) /\ c \in Parties(ptr[c])
           /\ Opponent(ptr[c], c) \in Client /\ Opponent(ptr[c], c) # c
           /\ Parties(ptr[c]) = {c, Opponent(ptr[c], c)}
<1>1. ptr[c] \in Inv /\ Phase(ptr[c]) # "none"
  BY KnownThere DEF RatedInv, LifeInv, Known, Working, Counting
<1>2. Allocated(ptr[c])
  BY <1>1, PhaseAllocated
<1>3. inv[ptr[c]].src \in Client /\ inv[ptr[c]].tgt \in Client
  BY <1>1, <1>2 DEF RatedInv, LifeInv, CountInv, RefInv, Named
<1>4. c \in Parties(ptr[c])
  BY DEF RatedInv, LifeInv, AgreeInv, AtWork
<1> QED
  BY <1>1, <1>2, <1>3, <1>4 DEF RatedInv, Two, Parties, Opponent

\* Which steps lead to the result.
LEMMA WhoPosts ==
    ASSUME Types, NEW c \in Client, Arrive(c) \/ Work(c), pc'[c] = "post"
    PROVE  ErasePeer(c) \/ PeerGone(c)
<1>1. \A p \in Pc \ {"post"} : ~Goto(c, p)
  BY GotoFrame
<1>2. ~Return(c, TRUE) /\ ~Return(c, FALSE) /\ \A ok \in SendOutcomes(peer[c]) : ~Return(c, ok)
  <2>1. \A ok \in BOOLEAN : ~Return(c, ok)
    BY ReturnFrame
  <2> QED
    BY <2>1 DEF SendOutcomes
<1>3. ~Arrive(c) /\ ~Logout(c)
  BY OtherApart DEF Elsewhere
<1>4. ~Invite(c)
  BY <1>1, <1>2 DEF Invite, CreateFails, Create, AddToSource, SourceFull, AddToTarget,
                    TargetFull, Undo, GiveUp, Pc
<1>5. ~Take(c)
  BY <1>1 DEF Take, At, Pc
<1>6. ~(Refuse(c) \/ RefuseMove(c) \/ SearchFails(c) \/ Search(c))
  BY <1>1, <1>2 DEF Refuse, RefuseMove, SearchFails, Search, GiveUp, Pc
<1>7. ~(Resign(c) \/ Close(c) \/ Place(c) \/ Finish(c))
  BY <1>1 DEF Resign, Close, Place, Finish, Pc
<1>8. ~Act(c)
  <2>1. AfterAct(op[c]) \in Pc \ {"post"}
    BY DEF AfterAct, Pc
  <2> QED
    BY <1>1, <2>1 DEF Act
<1>9. ~(EraseOwn(c) \/ OwnGone(c) \/ CheckOver(c))
  BY <1>1, <1>2 DEF EraseOwn, OwnGone, CheckOver, GiveUp, Pc
<1>10. ~(Post(c) \/ Notify(c) \/ Ack(c))
  BY <1>1, <1>2 DEF Post, Notify, Ack, Pc
<1>11. ~Drop(c)
  BY <1>1, <1>2 DEF Drop, Pc
<1> QED
  BY <1>3, <1>4, <1>5, <1>6, <1>7, <1>8, <1>9, <1>10, <1>11 DEF Work, Serve

LEMMA SidesStep ==
    ASSUME RatedInv, AgreeInv', NEW c \in Client, Arrive(c) \/ Work(c), Framed(c)
    PROVE  /\ \A d \in Client : HasPeer(d)'
           /\ \A i \in Inv : Two(i)'
<1> LifeInv /\ Types
  BY TypesOfLife DEF RatedInv
<1>1. \A d \in Client \ {c} :
        pc'[d] = pc[d] /\ ptr'[d] = ptr[d] /\ op'[d] = op[d] /\ peer'[d] = peer[d]
  BY DEF Framed, Apart, Alone
<1>2. Known'
  BY KnownThere, PTL
<1>3. ASSUME NEW i \in Inv PROVE Two(i)'
  <2> SUFFICES ASSUME Allocated(i)' PROVE inv'[i].src # inv'[i].tgt
    BY DEF Two
  <2>1. Phase(i)' # "none"
    BY DEF Phase, PhaseOf, Allocated
  <2>2. Phase(i) # "none"
    BY <2>1 DEF Framed, Turned, Turns
  <2>3. Allocated(i)
    BY <2>2, PhaseAllocated
  <2> QED
    BY <2>3 DEF Framed, SameParties, RatedInv, Two
<1>4. ASSUME NEW d \in Client, pc'[d] = "post", NEW i \in Inv, ptr[d] = i, ptr'[d] = i,
             Allocated(i), d \in Parties(i), peer'[d] = Opponent(i, d)
      PROVE  HasPeer(d)'
  <2>1. Phase(ptr[d])' # "none"
    BY <1>2, <1>4 DEF Known, Counting
  <2>2. Phase(i)' # "none"
    BY <1>4, <2>1 DEF Phase
  <2>3. inv'[i].src = inv[i].src /\ inv'[i].tgt = inv[i].tgt
    BY <1>4, <2>2, PartiesStay DEF Framed, LifeInv
  <2> QED
    BY <1>4, <2>3 DEF HasPeer, Parties, Opponent
<1>5. ASSUME NEW d \in Client, d # c PROVE HasPeer(d)'
  <2> SUFFICES ASSUME pc[d] = "post" PROVE HasPeer(d)'
    BY <1>1, <1>5 DEF HasPeer
  <2>1. ptr[d] \in Inv /\ Phase(ptr[d]) # "none"
    BY KnownThere DEF LifeInv, Known, Counting
  <2>2. PICK i \in Inv : i = ptr[d]
    BY <2>1
  <2>3. Allocated(i) /\ d \in Parties(i) /\ peer[d] = Opponent(i, d)
    BY <2>1, <2>2, PhaseAllocated DEF RatedInv, HasPeer
  <2> QED
    BY <1>1, <1>4, <1>5, <2>2, <2>3
<1>6. HasPeer(c)'
  <2> SUFFICES ASSUME pc'[c] = "post" PROVE HasPeer(c)'
    BY DEF HasPeer
  <2>1. ErasePeer(c) \/ PeerGone(c)
    BY WhoPosts
  <2>2. pc[c] = "rmpeer"
    BY <2>1 DEF ErasePeer, PeerGone, At
  <2>3. PICK i \in Inv : i = ptr[c] /\ Allocated(i) /\ c \in Parties(i)
    BY <2>2, Aims DEF Working
  <2>4. ~Return(c, FALSE)
    BY ReturnFrame
  <2>5. ptr' = ptr /\ peer'[c] = Opponent(i, c)
    <3>1. CASE ErasePeer(c)
      BY <2>3, <3>1 DEF ErasePeer, Types, TypeOK
    <3>2. CASE PeerGone(c)
      <4>1. op[c] = "move" /\ peer' = peer /\ ptr' = ptr
        BY <2>4, <3>2 DEF PeerGone, GiveUp
      <4> QED
        BY <2>2, <2>3, <4>1 DEF LifeInv, CountInv, PeerRight
    <3> QED
      BY <2>1, <3>1, <3>2
  <2> QED
    BY <1>4, <2>3, <2>5
<1> QED
  BY <1>3, <1>5, <1>6

-----------------------------------------------------------------------------
\* Whoever else will see to the result of i goes on to do so, unless this step
\* takes i out of a list.
LEMMA OthersWatch ==
    ASSUME RatedInv, AgreeInv', NEW c \in Client, Framed(c), NEW i \in Inv,
           NEW t \in Client \ {c}, Watches(t, i),
           ~Sure(t, i) => ~(ptr[c] = i /\ pc[c] \in {"rmown", "rmpeer"})
    PROVE  Watched(i)'
<1> LifeInv
  BY DEF RatedInv
<1>1. pc'[t] = pc[t] /\ ptr'[t] = ptr[t] /\ op'[t] = op[t]
  BY DEF Framed, Apart, Alone
<1>2. CASE Sure(t, i)
  BY <1>1, <1>2 DEF Sure, Watches, Watched
<1>3. CASE ~Sure(t, i)
  <2>1. pc[t] \in Working /\ ptr[t] = i
    BY <1>3 DEF Watches, Able, Awaits, Working
  <2>2. Allocated(i)
    BY <2>1, Aims
  <2>3. CASE Able(t, i)
    <3>1. Shared(i)'
      BY <1>3, <2>2, <2>3, SharedStays DEF Able
    <3> QED
      BY <1>1, <2>3, <3>1 DEF Able, Watches, Watched
  <2>4. CASE Awaits(t, i)
    <3>1. PICK p \in Client : p = Opponent(i, t) /\ Listed(p, i)
      BY <2>1, <2>4, Aims DEF Awaits
    <3>2. ~(i = ptr[c] /\ pc[c] = "undo")
      BY <2>1, <2>4 DEF LifeInv, AgreeInv, Pair, Early, Halfway, Counting, Awaits
    <3>3. Listed(p, i)'
      BY <1>3, <3>1, <3>2 DEF Framed, Relisted
    <3>4. Phase(i)' # "none"
      <4>1. Known'
        BY KnownThere, PTL
      <4> QED
        BY <3>1, <3>3, <4>1 DEF Known
    <3>5. Opponent(i, t)' = p
      <4>1. inv'[i].src = inv[i].src /\ inv'[i].tgt = inv[i].tgt
        BY <2>2, <3>4, PartiesStay DEF Framed, LifeInv
      <4> QED
        BY <3>1, <4>1 DEF Opponent
    <3> QED
      BY <1>1, <2>4, <3>3, <3>5 DEF Awaits, Watches, Watched, Listed
  <2> QED
    BY <1>3, <2>3, <2>4 DEF Watches
<1> QED
  BY <1>2, <1>3

\* A step by who has nothing to do with the result.
LEMMA WatchedAside ==
    ASSUME RatedInv, AgreeInv', NEW c \in Client, Framed(c), NEW i \in Inv,
           Watched(i), ~Watches(c, i), ~(ptr[c] = i /\ pc[c] \in {"rmown", "rmpeer"})
    PROVE  Watched(i)'
<1>1. PICK t \in Client : Watches(t, i)
  BY DEF Watched
<1> QED
  BY <1>1, OthersWatch

\* Of two who resign, one is refused.
LEMMA ResignerAlone ==
    ASSUME RatedInv, NEW c \in Client, NEW t \in Client, NEW i \in Inv, t # c,
           ptr[c] = i, pc[c] \in {"close", "rmown", "rmpeer"}, op[c] = "resign"
    PROVE  ~Awaits(t, i)
<1> SUFFICES ASSUME Awaits(t, i) PROVE FALSE
  OBVIOUS
<1>1. c \in Closers(i) /\ t \in Closers(i)
  BY DEF Closers, Awaits, Closing, Counting
<1> QED
  BY <1>1 DEF RatedInv, LifeInv, CloserInv, OneCloser

\* A resigner who does not find the invitation in a list leaves the result to a mover.
LEMMA RemovalWatched ==
    ASSUME RatedInv, AgreeInv', NEW c \in Client, Framed(c), NEW i \in Inv, ptr[c] = i,
           EraseOwn(c) \/ OwnGone(c) \/ ErasePeer(c) \/ PeerGone(c), Watched(i),
           inv[i].game = "over"
    PROVE  Watched(i)'
<1> LifeInv /\ Types
  BY TypesOfLife DEF RatedInv
<1>1. pc[c] \in {"rmown", "rmpeer"} /\ pc[c] \in Working
  BY DEF EraseOwn, OwnGone, ErasePeer, PeerGone, At, Working
<1>2. PICK p \in Client : /\ p = Opponent(i, c) /\ p # c
                          /\ Parties(i) = {c, p} /\ Allocated(i)
  BY <1>1, Aims
<1>3. op[c] \in {"move", "resign"}
  BY <1>1 DEF LifeInv, Late, Phase, PhaseOf
<1>4. CASE op[c] = "move"
  <2>1. PICK q \in {"rmpeer", "post"} : Goto(c, q) /\ ptr' = ptr /\ op' = op
    BY <1>4 DEF EraseOwn, OwnGone, ErasePeer, PeerGone
  <2>2. pc'[c] \in {"rmpeer", "post"}
    BY <2>1, GotoFrame
  <2> QED
    BY <1>4, <2>1, <2>2 DEF Watched, Watches, Sure
<1>5. CASE op[c] = "resign"
  <2>1. PICK t \in Client : Watches(t, i)
    BY DEF Watched
  <2>2. CASE t # c /\ Sure(t, i)
    BY <2>1, <2>2, OthersWatch
  <2>3. CASE t # c /\ Awaits(t, i)
    BY <1>1, <1>5, <2>3, ResignerAlone
  <2>4. ASSUME t = c \/ Able(t, i)
        PROVE  Listed(p, i) /\ (pc[c] = "rmown" => Listed(c, i))
    <3>1. CASE Able(t, i)
      BY <1>2, <3>1 DEF Able, Shared
    <3>2. CASE t = c
      BY <1>1, <1>2, <1>5, <2>1, <3>2 DEF Watches, Able, Sure, Awaits, Shared
    <3> QED
      BY <2>4, <3>1, <3>2
  <2>5. CASE t = c \/ Able(t, i)
    <3>1. ~OwnGone(c) /\ ~PeerGone(c)
      BY <1>2, <2>4, <2>5, ScansFind DEF OwnGone, PeerGone, At, LifeInv, AgreeInv
    <3>2. ptr' = ptr /\ op' = op
      BY <3>1 DEF EraseOwn, ErasePeer
    <3>3. CASE ErasePeer(c)
      <4>1. pc'[c] = "post"
        BY <1>5, <3>3, GotoFrame DEF ErasePeer
      <4> QED
        BY <1>5, <3>2, <4>1 DEF Watched, Watches, Sure
    <3>4. CASE EraseOwn(c)
      <4>1. pc'[c] = "rmpeer" /\ \E k \in Slot : Erase(c, i, k)
        BY <3>4, GotoFrame DEF EraseOwn
      <4>2. Listed(p, i)'
        BY <1>2, <2>4, <2>5, <4>1, ErasedListed DEF LifeInv, AgreeInv
      <4>3. Phase(i)' # "none"
        <5>1. Known'
          BY KnownThere, PTL
        <5> QED
          BY <1>2, <4>2, <5>1 DEF Known
      <4>4. Opponent(i, c)' = p
        <5>1. inv'[i].src = inv[i].src /\ inv'[i].tgt = inv[i].tgt
          BY <1>2, <4>3, PartiesStay DEF Framed, LifeInv
        <5> QED
          BY <1>2, <5>1 DEF Opponent
      <4> QED
        BY <1>5, <3>2, <4>1, <4>2, <4>4 DEF Awaits, Listed, Watches, Watched
    <3> QED
      BY <3>1, <3>3, <3>4
  <2> QED
    BY <2>1, <2>2, <2>3, <2>5 DEF Watches
<1> QED
  BY <1>3, <1>4, <1>5

\* A mover looks for the slot of the other party, and then at the end of the game;
\* a resigner closes the invitation.
LEMMA MoverWatched ==
    ASSUME RatedInv, AgreeInv', NEW c \in Client, Framed(c), NEW i \in Inv, ptr[c] = i,
           Search(c) \/ SearchFails(c) \/ CheckOver(c) \/ Close(c), Watched(i),
           inv[i].game = "over"
    PROVE  Watched(i)'
<1> LifeInv /\ Types
  BY TypesOfLife DEF RatedInv
<1>1. pc[c] \in {"search", "over", "close"} /\ pc[c] \in Working
  BY DEF Search, SearchFails, CheckOver, Close, At, Working
<1>2. CASE ~Watches(c, i)
  BY <1>1, <1>2, WatchedAside
<1>3. CASE Watches(c, i)
  <2>1. /\ op[c] = IF pc[c] = "close" THEN "resign" ELSE "move"
        /\ pc[c] # "over" => Able(c, i) /\ Shared(i)
    BY <1>1, <1>3 DEF Watches, Sure, Able, Awaits
  <2>2. ~SearchFails(c)
    <3> SUFFICES ASSUME SearchFails(c) PROVE FALSE
      OBVIOUS
    <3>1. PICK p \in Client : p = Opponent(i, c) /\ Parties(i) = {c, p}
      BY <1>1, Aims
    <3>2. ~Listed(p, i)
      BY <3>1, ScansFind DEF SearchFails, LifeInv, AgreeInv
    <3> QED
      BY <2>1, <3>1, <3>2 DEF SearchFails, At, Shared
  <2>3. CASE Search(c)
    <3>1. pc[c] = "search" /\ op[c] = "move"
      BY <2>1, <2>3 DEF Search, At
    <3>2. pc'[c] = "over" /\ ptr' = ptr /\ op' = op
      BY <2>3, <3>1, GotoFrame DEF Search
    <3> QED
      BY <3>1, <3>2 DEF Watched, Watches, Sure
  <2>4. CASE CheckOver(c)
    <3>1. pc'[c] = "rmown" /\ ptr' = ptr /\ op' = op /\ pc[c] = "over"
      BY <2>4, GotoFrame DEF CheckOver, At
    <3> QED
      BY <2>1, <3>1 DEF Watched, Watches, Sure
  <2>5. CASE Close(c)
    <3>1. pc'[c] = "rmown" /\ ptr' = ptr /\ op' = op /\ pc[c] = "close"
      BY <2>5, GotoFrame DEF Close, At
    <3>2. Shared(i)'
      BY <1>1, <2>1, <3>1, Aims, SharedStays
    <3> QED
      BY <2>1, <3>1, <3>2 DEF Watched, Watches, Able
  <2> QED
    BY <2>2, <2>3, <2>4, <2>5
<1> QED
  BY <1>2, <1>3

\* The result that is posted counts, when both players are there.
LEMMA PostRates ==
    ASSUME RatedInv, NEW c \in Client, Post(c), NEW i \in Inv, i = ptr[c],
           \A p \in Parties(i) : player[p]
    PROVE  Phase(i)' # "none" /\ inv'[i].posted > 0
<1> Types
  BY TypesOfLife DEF RatedInv
<1>1. pc[c] = "post" /\ inv[i] \in InvRecord
  BY DEF Post, At, Types, TypeOK
<1>2. Phase(i) # "none"
  BY <1>1, KnownThere DEF RatedInv, LifeInv, Known, Counting
<1>3. player[c] /\ player[peer[c]]
  BY <1>1 DEF RatedInv, HasPeer, Parties, Opponent
<1>4. inv' = [inv EXCEPT ![i].posted = @ + 1]
  BY <1>3 DEF Post
<1>5. inv'[i].posted > 0 /\ inv'[i].state = inv[i].state /\ inv'[i].game = inv[i].game
  BY <1>1, <1>4 DEF Types, TypeOK, InvRecord
<1> QED
  BY <1>2, <1>5 DEF Phase, PhaseOf

\* A game that was over and not rated is watched still, or rated.
LEMMA OverWatched ==
    ASSUME RatedInv, AgreeInv', NEW c \in Client, Arrive(c) \/ Work(c), Framed(c),
           NEW i \in Inv, Due(i)
    PROVE  Watched(i)' \/ (Phase(i)' # "none" /\ inv'[i].posted > 0)
<1> LifeInv /\ Types
  BY TypesOfLife DEF RatedInv
<1>1. Watched(i) /\ inv[i].game = "over" /\ \A p \in Parties(i) : player[p]
  BY DEF RatedInv, Rated, Due
<1>2. CASE Post(c) /\ ptr[c] = i
  BY <1>1, <1>2, PostRates
<1>3. CASE ptr[c] # i \/ pc[c] \notin {"search", "over", "close", "rmown", "rmpeer", "post"}
  BY <1>1, <1>3, WatchedAside DEF Watches, Sure, Able, Awaits
<1>4. CASE ptr[c] = i /\ pc[c] \in {"search", "over", "close", "rmown", "rmpeer", "post"} /\ ~Post(c)
  <2>1. \/ EraseOwn(c) \/ OwnGone(c) \/ ErasePeer(c) \/ PeerGone(c)
        \/ Search(c) \/ SearchFails(c) \/ CheckOver(c) \/ Close(c)
    <3>1. ~Arrive(c) /\ ~Logout(c)
      BY <1>4, OtherApart
    <3>2. ~Invite(c)
      BY <1>4 DEF Invite, CreateFails, Create, AddToSource, SourceFull, AddToTarget,
                  TargetFull, Undo, At
    <3>3. ~(Take(c) \/ Refuse(c) \/ RefuseMove(c) \/ Act(c) \/ Resign(c) \/ Place(c)
            \/ Finish(c) \/ Drop(c) \/ Notify(c) \/ Ack(c))
      BY <1>4 DEF Take, Refuse, RefuseMove, Act, Resign, Place, Finish, Drop, Notify, Ack, At
    <3> QED
      BY <1>4, <3>1, <3>2, <3>3 DEF Work, Serve
  <2> QED
    BY <1>1, <1>4, <2>1, RemovalWatched, MoverWatched
<1> QED
  BY <1>2, <1>3, <1>4

\* Who ends a game finds it in both lists.
LEMMA EndWatched ==
    ASSUME RatedInv, AgreeInv', NEW c \in Client, Arrive(c) \/ Work(c), Framed(c),
           NEW i \in Inv, i = ptr[c], pc[c] \in {"resign", "finish"},
           Phase(i) = "playing", Phase(i)' = "over"
    PROVE  Watched(i)'
<1> LifeInv /\ Types
  BY TypesOfLife DEF RatedInv
<1>1. Resign(c) \/ Finish(c)
  <2>1. ~Arrive(c) /\ ~Logout(c)
    BY OtherApart
  <2>2. ~Invite(c)
    BY DEF Invite, CreateFails, Create, AddToSource, SourceFull, AddToTarget,
           TargetFull, Undo, At
  <2> QED
    BY <2>1, <2>2 DEF Work, Serve, Take, Refuse, RefuseMove, Act, Close, Place, EraseOwn, OwnGone,
                      ErasePeer, PeerGone, Search, SearchFails, CheckOver, Post, Drop,
                      Notify, Ack, At
<1>2. /\ ptr' = ptr /\ op' = op /\ op[c] = IF Resign(c) THEN "resign" ELSE "move"
      /\ Goto(c, IF Resign(c) THEN "close" ELSE "search")
  BY <1>1 DEF Resign, Finish, At, Types, Control
<1>3. pc'[c] = IF Resign(c) THEN "close" ELSE "search"
  BY <1>2, GotoFrame
<1>4. c \in Parties(i) /\ Allocated(i)
  BY Aims DEF Working
<1>5. Shared(i)
  BY <1>4 DEF RatedInv, Reach, Parties, Halfway
<1>6. Shared(i)'
  BY <1>4, <1>5, SharedStays
<1> QED
  BY <1>2, <1>3, <1>6 DEF Watched, Watches, Able

\* A game of which a result is known keeps it.
LEMMA RatedStays ==
    ASSUME LifeInv, NEW c \in Client, Arrive(c) \/ Work(c), \A n \in Inv : ~Create(c, n),
           NEW i \in Inv, inv[i].game = "over", Allocated(i), Phase(i)' # "none",
           inv[i].posted # 0
    PROVE  inv'[i].posted # 0
<1> Types
  BY TypesOfLife
<1>1. inv[i] \in InvRecord
  BY DEF Types, TypeOK
<1>2. ASSUME NEW x, NEW gain, NEW loss, DropInv(x, gain, loss) PROVE inv'[i].posted # 0
  BY <1>2, DroppedPhase DEF Phase
<1>3. ASSUME inv' = inv PROVE inv'[i].posted # 0
  BY <1>3
<1>4. CASE Arrive(c) \/ Logout(c)
  BY <1>3, <1>4, OtherApart
<1>5. CASE Invite(c)
  BY <1>2, <1>3, <1>5 DEF Invite, CreateFails, AddToSource, SourceFull, AddToTarget, TargetFull,
                          Undo, GiveUp
<1>6. CASE Take(c) \/ Refuse(c) \/ RefuseMove(c) \/ Search(c) \/ SearchFails(c) \/ CheckOver(c)
  BY <1>2, <1>3, <1>6 DEF Take, Refuse, RefuseMove, Search, SearchFails, CheckOver, GiveUp
<1>7. CASE EraseOwn(c) \/ OwnGone(c) \/ ErasePeer(c) \/ PeerGone(c)
  BY <1>2, <1>3, <1>7 DEF EraseOwn, OwnGone, ErasePeer, PeerGone, GiveUp
<1>8. CASE Drop(c) \/ Notify(c) \/ Ack(c)
  BY <1>2, <1>3, <1>8 DEF Drop, Notify, Ack, objects
<1>9. CASE Act(c)
  <2>1. ptr[c] \in Inv /\ \A j \in Inv \ {ptr[c]} : inv'[j] = inv[j]
    BY <1>9 DEF Act, Effect, Becomes, At, Types, TypeOK, Control, Counting
  <2>2. CASE i = ptr[c]
    <3>1. op[c] \in {"resign", "move"}
      BY <1>9, <2>2 DEF Act, May, MayWithdraw, MayAccept, LifeInv, Staged, FitsGame
    <3> QED
      BY <1>3, <1>9, <3>1 DEF Act, Effect
  <2> QED
    BY <2>1, <2>2
<1>10. CASE Resign(c) \/ Close(c) \/ Place(c) \/ Finish(c) \/ Post(c)
  <2>1. PICK x \in Inv : x = ptr[c] /\ inv[x] \in InvRecord
    BY <1>10 DEF Resign, Close, Place, Finish, Post, At, Types, TypeOK, Control, Counting
  <2> DEFINE Keeps(m) == m.posted \in {inv[x].posted, inv[x].posted + 1}
  <2>2. \/ inv' = inv
        \/ \E m : inv' = [inv EXCEPT ![x] = m] /\ Keeps(m)
    <3>1. CASE Resign(c) \/ Finish(c)
      <4>1. inv' = inv \/ inv' = [inv EXCEPT ![x].game = "over"]
        BY <2>1, <3>1 DEF Resign, Finish
      <4>2. Keeps([inv[x] EXCEPT !.game = "over"])
        BY <2>1 DEF InvRecord
      <4> QED
        BY <4>1, <4>2
    <3>2. CASE Close(c)
      <4>1. Keeps([inv[x] EXCEPT !.state = "closed"])
        BY <2>1 DEF InvRecord
      <4> QED
        BY <2>1, <3>2, <4>1 DEF Close
    <3>3. CASE Place(c)
      <4>1. Keeps([inv[x] EXCEPT !.turn = Opponent(x, c)])
        BY <2>1 DEF InvRecord
      <4> QED
        BY <2>1, <3>3, <4>1 DEF Place
    <3>4. CASE Post(c)
      <4>1. inv' = inv \/ inv' = [inv EXCEPT ![x].posted = @ + 1]
        BY <2>1, <3>4 DEF Post
      <4>2. Keeps([inv[x] EXCEPT !.posted = @ + 1])
        BY <2>1 DEF InvRecord
      <4> QED
        BY <4>1, <4>2
    <3> QED
      BY <1>10, <3>1, <3>2, <3>3, <3>4
  <2>3. ASSUME NEW m, inv' = [inv EXCEPT ![x] = m], Keeps(m) PROVE inv'[i].posted # 0
    <3>1. inv'[x] = m /\ \A j \in Inv \ {x} : inv'[j] = inv[j]
      BY <2>3 DEF Types, TypeOK
    <3>2. inv[x].posted \in Nat
      BY <2>1 DEF InvRecord
    <3> QED
      BY <2>3, <3>1, <3>2
  <2> QED
    BY <1>3, <2>2, <2>3
<1> QED
  BY <1>4, <1>5, <1>6, <1>7, <1>8, <1>9, <1>10 DEF Work, Serve

LEMMA RatedCreate ==
    ASSUME RatedInv, NEW c \in Client, NEW n \in Inv, Create(c, n)
    PROVE  /\ \A d \in Client : HasPeer(d)'
           /\ \A i \in Inv : Two(i)' /\ Reach(i)' /\ Rated(i)'
           /\ \A i \in Inv : Allocated(i) => Allocated(i)'
<1> LifeInv /\ Types
  BY TypesOfLife DEF RatedInv
<1>1. /\ Goto(c, "addsrc") /\ ptr' = [ptr EXCEPT ![c] = n] /\ pc[c] = "create"
      /\ op' = op /\ lst' = lst /\ peer' = peer /\ peer[c] # c /\ player' = player
      /\ inv' = [inv EXCEPT ![n] = Fresh(c, peer[c])] /\ inv[n].state = "free"
  BY DEF Create, At
<1>2. /\ pc'[c] = "addsrc" /\ ptr'[c] = n
      /\ \A d \in Client \ {c} : pc'[d] = pc[d] /\ ptr'[d] = ptr[d]
      /\ inv'[n] = Fresh(c, peer[c]) /\ \A i \in Inv \ {n} : inv'[i] = inv[i]
  BY <1>1, GotoFrame DEF Types, TypeOK
<1>3. /\ Fresh(c, peer[c]).src = c /\ Fresh(c, peer[c]).tgt = peer[c]
      /\ Fresh(c, peer[c]).game = "none" /\ Fresh(c, peer[c]).state = "open"
  BY DEF Fresh, Blank
<1>4. ASSUME NEW d \in Client PROVE HasPeer(d)'
  <2> SUFFICES ASSUME d # c, pc[d] = "post" PROVE HasPeer(d)'
    BY <1>2 DEF HasPeer
  <2>1. ptr[d] \in Inv /\ Phase(ptr[d]) # "none"
    BY KnownThere DEF LifeInv, Known, Counting
  <2>2. ptr[d] # n
    BY <1>1, <2>1 DEF Phase, PhaseOf
  <2>3. inv'[ptr[d]] = inv[ptr[d]] /\ ptr'[d] = ptr[d] /\ peer'[d] = peer[d] /\ HasPeer(d)
    BY <1>1, <1>2, <2>1, <2>2 DEF RatedInv
  <2> QED
    BY <2>3 DEF HasPeer, Parties, Opponent
<1>5. ASSUME NEW i \in Inv PROVE Two(i)'
  BY <1>1, <1>2, <1>3 DEF RatedInv, Two, Allocated
<1>6. ASSUME NEW i \in Inv, i # n
      PROVE  /\ Phase(i)' = Phase(i)
             /\ Shared(i)' <=> Shared(i)
             /\ Allocated(i)' <=> Allocated(i)
             /\ Due(i)' <=> Due(i)
  BY <1>1, <1>2, <1>6 DEF Phase, Shared, Allocated, Due, Parties, Listed
<1>7. ASSUME NEW i \in Inv PROVE Reach(i)'
  <2>1. CASE i = n
    <3>1. inv'[n].src = c /\ Phase(n)' = "offered"
      BY <1>2, <1>3 DEF Phase, PhaseOf
    <3> QED
      BY <1>2, <2>1, <3>1 DEF Reach, Halfway
  <2>2. CASE i # n
    <3>1. inv'[i] = inv[i] /\ op' = op
      BY <1>1, <1>2, <2>2
    <3>2. \A d \in Client : ptr'[d] = i => ptr[d] = i /\ pc'[d] = pc[d]
      BY <1>2, <2>2
    <3> SUFFICES ASSUME Phase(i)' \in {"offered", "playing"}, ~Shared(i)' PROVE Reach(i)'
      BY DEF Reach
    <3>3. inv[i].src \in Client /\ inv[i].tgt \in Client
      <4>1. Phase(i) # "none"
        BY <1>6, <2>2
      <4>2. Allocated(i)
        BY <4>1, PhaseAllocated
      <4> QED
        BY <4>2 DEF LifeInv, AgreeInv, ListInv, RefInv, Named
    <3>4. Phase(i)' = Phase(i) /\ ~Shared(i) /\ Reach(i)
      BY <1>6, <2>2 DEF RatedInv
    <3> QED
      BY <3>1, <3>2, <3>3, <3>4 DEF Reach
  <2> QED
    BY <2>1, <2>2
<1>8. ASSUME NEW i \in Inv PROVE Rated(i)'
  <2> SUFFICES ASSUME i # n, Due(i) PROVE Watched(i)'
    BY <1>2, <1>3, <1>6 DEF Rated, Due
  <2>1. PICK t \in Client : Watches(t, i)
    BY DEF RatedInv, Rated, Watched
  <2>2. t # c
    BY <1>1, <2>1 DEF Watches, Sure, Able, Awaits
  <2>3. /\ pc'[t] = pc[t] /\ ptr'[t] = ptr[t] /\ op'[t] = op[t]
        /\ inv'[i] = inv[i] /\ lst' = lst
    BY <1>1, <1>2, <2>2
  <2>4. Opponent(i, t)' = Opponent(i, t)
    BY <2>3 DEF Opponent
  <2>5. Shared(i) => Shared(i)'
    BY <1>6
  <2>6. Watches(t, i)'
    BY <2>1, <2>3, <2>4, <2>5 DEF Watches, Sure, Able, Awaits, Listed
  <2> QED
    BY <2>6 DEF Watched
<1>9. ASSUME NEW i \in Inv, Allocated(i) PROVE Allocated(i)'
  BY <1>1, <1>2, <1>9 DEF Allocated
<1> QED
  BY <1>4, <1>5, <1>7, <1>8, <1>9

\* No invitation whose game is over, and due to be rated, is released.
LEMMA RatedStep ==
    RatedInv /\ [Next]_vars => RatedInv' /\ \A i \in Inv : Due(i) => Allocated(i)'
<1> SUFFICES ASSUME RatedInv, [Next]_vars
             PROVE  RatedInv' /\ \A i \in Inv : Due(i) => Allocated(i)'
  OBVIOUS
<1> LifeInv /\ Types
  BY TypesOfLife DEF RatedInv
<1>1. LifeInv' /\ AgreeInv'
  BY LifeNext DEF LifeInv
<1>2. CASE UNCHANGED <<objects, threads>>
  <2>1. UNCHANGED <<lst, inv, pc, op, ptr, peer, player>>
    BY <1>2 DEF objects, threads
  <2>2. \A d \in Client : HasPeer(d)'
    BY <2>1 DEF RatedInv, HasPeer, Parties, Opponent
  <2>3. \A i \in Inv : Two(i)' /\ (Allocated(i)' <=> Allocated(i))
    BY <2>1 DEF RatedInv, Two, Allocated
  <2>4. \A i \in Inv : Shared(i)' <=> Shared(i)
    BY <2>1 DEF Shared, Parties, Listed
  <2>5. \A i \in Inv : Watched(i)' <=> Watched(i)
    BY <2>1, <2>4 DEF Watched, Watches, Sure, Able, Awaits, Listed, Opponent
  <2>6. \A i \in Inv : Due(i)' <=> Due(i)
    BY <2>1, <2>3 DEF Due, Parties
  <2>7. \A i \in Inv : Rated(i)'
    BY <2>5, <2>6 DEF RatedInv, Rated
  <2>8. ASSUME NEW i \in Inv PROVE Reach(i)'
    <3>1. Phase(i)' = Phase(i)
      BY <2>1 DEF Phase
    <3> QED
      BY <2>1, <2>4, <3>1 DEF RatedInv, Reach
  <2> QED
    BY <1>1, <2>2, <2>3, <2>7, <2>8 DEF RatedInv, Due
<1>3. ASSUME NEW c \in Client, NEW n \in Inv, Create(c, n)
      PROVE  RatedInv' /\ \A i \in Inv : Due(i) => Allocated(i)'
  BY <1>1, <1>3, RatedCreate DEF RatedInv, Due
<1>4. ASSUME NEW c \in Client, Arrive(c) \/ Work(c), \A n \in Inv : ~Create(c, n)
      PROVE  RatedInv' /\ \A i \in Inv : Due(i) => Allocated(i)'
  <2>1. Framed(c)
    BY <1>1, <1>4, InviteFramed, ServeFramed, OtherFramed DEF Work
  <2>2. /\ \A d \in Client : HasPeer(d)'
        /\ \A i \in Inv : Two(i)'
    BY <1>1, <1>4, <2>1, SidesStep
  <2>3. Reaches(c)
    BY <1>4, ReachesInvite, ReachesServe, ReachesOther DEF Work
  <2>4. \A i \in Inv : Reach(i)'
    BY <1>1, <1>4, <2>1, <2>3, TakenUpStep, ReachStep
  <2>5. Known'
    BY <1>1, KnownThere, PTL
  <2>6. ASSUME NEW i \in Inv, Due(i) PROVE (Watched(i)' \/ ~Due(i)') /\ Phase(i)' # "none"
    <3>1. Watched(i)' \/ (Phase(i)' # "none" /\ inv'[i].posted > 0)
      BY <1>1, <1>4, <2>1, <2>6, OverWatched
    <3>2. Watched(i)' => Phase(i)' # "none"
      <4> SUFFICES ASSUME NEW t \in Client, Watches(t, i)' PROVE Phase(i)' # "none"
        BY DEF Watched
      <4>1. ptr'[t] = i /\ pc'[t] \in Counting
        BY DEF Watches, Sure, Able, Awaits, Counting
      <4>2. Phase(ptr[t])' # "none"
        BY <2>5, <4>1 DEF Known
      <4> QED
        BY <4>1, <4>2 DEF Phase
    <3>3. inv'[i].posted > 0 => ~Due(i)'
      BY DEF Due
    <3> QED
      BY <3>1, <3>2, <3>3
  <2>7. ASSUME NEW i \in Inv PROVE Rated(i)'
    <3> SUFFICES ASSUME Due(i)' PROVE Watched(i)'
      BY DEF Rated
    <3>1. Phase(i)' \in {"over", "resigned"} /\ Turns(c, i)
      BY <2>1 DEF Due, Phase, PhaseOf, Allocated, Framed, Turned
    <3>2. CASE i = ptr[c] /\ pc[c] \in {"resign", "finish"} /\ Phase(i) = "playing"
      <4>1. Phase(i)' = "over"
        BY <3>1, <3>2 DEF Turns
      <4> QED
        BY <1>1, <1>4, <2>1, <3>2, <4>1, EndWatched
    <3>3. CASE ~(i = ptr[c] /\ pc[c] \in {"resign", "finish"} /\ Phase(i) = "playing")
      <4>1. Phase(i) \in {"over", "resigned"}
        BY <3>1, <3>3 DEF Turns
      <4>2. Allocated(i) /\ inv[i].game = "over" /\ Phase(i)' # "none"
        BY <3>1, <4>1 DEF Phase, PhaseOf, Allocated
      <4>3. Parties(i)' = Parties(i) /\ Parties(i) \subseteq Client
        BY <2>1, <4>2, PartiesStay DEF Framed, LifeInv
      <4>4. \A p \in Parties(i) : player[p]
        BY <1>4, <4>3, PlayersStay DEF Due
      <4>5. inv[i].posted = 0
        BY <1>4, <4>2, RatedStays DEF Due
      <4>6. Due(i)
        BY <4>2, <4>4, <4>5 DEF Due
      <4> QED
        BY <2>6, <4>6
    <3> QED
      BY <3>2, <3>3
  <2>8. ASSUME NEW i \in Inv, Due(i) PROVE Allocated(i)'
    <3>1. Phase(i)' # "none"
      BY <2>6, <2>8
    <3> QED
      BY <3>1 DEF Phase, PhaseOf, Allocated
  <2> QED
    BY <1>1, <2>2, <2>4, <2>7, <2>8 DEF RatedInv
<1> QED
  BY <1>2, <1>3, <1>4 DEF Next, Halted, Disconnect, vars

\* A game that ended is rated before its invitation is forgotten, unless one of
\* its parties has logged out by then: whatever the order in which a last move and
\* a resignation meet, whoever empties the lists (client_make_move,
\* client_resign_game, player_post_result), whichever of the clients leave, and
\* whatever malloc() hands out again.
THEOREM RatedInTime == Spec => RatedBeforeRelease
<1>1. Init => RatedInv
  <2> SUFFICES ASSUME Init PROVE RatedInv
    OBVIOUS
  <2>1. LifeInv
    BY LifeInit
  <2>2. \A c \in Client : HasPeer(c)
    BY DEF Init, HasPeer
  <2>3. \A i \in Inv : ~Allocated(i) /\ Phase(i) = "none"
    BY DEF Init, Blank, Allocated, Phase, PhaseOf
  <2> QED
    BY <2>1, <2>2, <2>3 DEF RatedInv, Two, Reach, Rated, Due
<1>2. RatedInv /\ [Next]_vars =>
        [\A i \in Inv :
           Allocated(i) /\ inv[i].game = "over" /\ ~Allocated(i)'
             => \/ inv[i].posted > 0
                \/ \E c \in Parties(i) : ~player[c]]_vars
  <2> SUFFICES ASSUME RatedInv, [Next]_vars, NEW i \in Inv, Allocated(i),
                      inv[i].game = "over", ~Allocated(i)', \A c \in Parties(i) : player[c]
               PROVE  inv[i].posted > 0
    OBVIOUS
  <2>1. inv[i].posted \in Nat
    BY TypesOfLife DEF RatedInv, Types, TypeOK, InvRecord
  <2>2. ~Due(i)
    BY RatedStep
  <2> QED
    BY <2>1, <2>2 DEF Due
<1>3. RatedInv /\ [Next]_vars => RatedInv'
  BY RatedStep
<1> QED
  BY <1>1, <1>2, <1>3, PTL DEF Spec, RatedBeforeRelease
=============================================================================
