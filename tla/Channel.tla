------------------------------ MODULE Channel ------------------------------
(***************************************************************************)
(* What a connection promises to whoever sends packets on it: they arrive  *)
(* whole, each once, in one order.  It may fall silent at any point.       *)
(***************************************************************************)
EXTENDS Sequences, Naturals

CONSTANT Packet

VARIABLES
    log,   \* the packets sent, in order
    got    \* those received

vars == <<log, got>>

Init == log = <<>> /\ got = <<>>

Send(p) == log' = Append(log, p) /\ UNCHANGED got

Receive == /\ Len(got) < Len(log)
           /\ got' = Append(got, log[Len(got) + 1])
           /\ UNCHANGED log

Next == (\E p \in Packet : Send(p)) \/ Receive

Spec == Init /\ [][Next]_vars
=============================================================================
