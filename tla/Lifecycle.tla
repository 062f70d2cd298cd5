----------------------------- MODULE Lifecycle -----------------------------
(***************************************************************************)
(* What an invitation promises its two parties, whatever happens to        *)
(* pointers, counts and threads: it is offered by one client to another    *)
(* and put in both their lists; it is taken up or withdrawn, not both; a   *)
(* game that was started is known to both until it is over, by a move or   *)
(* by the resignation of one party; only then is it forgotten; and the     *)
(* parties never change.  Nothing more is promised of an invitation that   *)
(* the target has acted upon before it was in both lists: it is astray.    *)
(***************************************************************************)
CONSTANTS
    Client,    \* the clients
    Inv,       \* the addresses of invitations
    NoClient   \* no client: the party of an invitation that is not there

\* For each address, the stage of the invitation, its parties, whether both
\* have it in their lists, and who is resigning its game.
VARIABLE life

Stage == {"none", "offered", "withdrawn", "playing", "over", "resigned", "stray"}

Nothing == [stage |-> "none", src |-> NoClient, tgt |-> NoClient,
            shared |-> FALSE, conceding |-> {}]

Init == life = [i \in Inv |-> Nothing]

Is(i, s) == life[i].stage = s
Becomes(i, s) == life' = [life EXCEPT ![i].stage = s]

Offer(i, s, t) ==
    /\ life[i] = Nothing /\ s # t
    /\ life' = [life EXCEPT ![i] = [stage |-> "offered", src |-> s, tgt |-> t,
                                    shared |-> FALSE, conceding |-> {}]]

\* In both lists, and not any more.
Share(i) ==
    /\ Is(i, "offered") \/ Is(i, "stray")
    /\ life' = [life EXCEPT ![i].shared = TRUE]

Part(i) ==
    /\ ~Is(i, "offered") /\ ~Is(i, "playing")
    /\ life' = [life EXCEPT ![i].shared = FALSE]

Withdraw(i) ==
    Is(i, "offered") /\ Becomes(i, IF life[i].shared THEN "withdrawn" ELSE "stray")

TakeUp(i) ==
    Is(i, "offered") /\ Becomes(i, IF life[i].shared THEN "playing" ELSE "stray")

\* A party resigns a game that is running; the game is over, by that or by
\* a move; and the resignation closes it.
Concede(i) ==
    /\ Is(i, "playing") /\ life[i].conceding = {}
    /\ \E c \in {life[i].src, life[i].tgt} :
         life' = [life EXCEPT ![i].conceding = {c}]

End(i) == Is(i, "playing") /\ Becomes(i, "over")

Close(i) ==
    /\ Is(i, "over") /\ life[i].conceding # {}
    /\ life' = [life EXCEPT ![i].stage = "resigned", ![i].conceding = {}]

Forget(i) ==
    /\ ~Is(i, "playing") /\ ~life[i].shared /\ life[i].conceding = {}
    /\ life' = [life EXCEPT ![i] = Nothing]

\* One invitation takes a step in its life.
Next == \E i \in Inv :
    \/ \E s, t \in Client : Offer(i, s, t)
    \/ Share(i)
    \/ Part(i)
    \/ Withdraw(i)
    \/ TakeUp(i)
    \/ Concede(i)
    \/ End(i)
    \/ Close(i)
    \/ Forget(i)

Spec == Init /\ [][Next]_life
=============================================================================
