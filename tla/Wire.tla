-------------------------------- MODULE Wire --------------------------------
(***************************************************************************)
(* One direction of a connection: threads that send packets to one client  *)
(* (client_send_packet, proto_send_packet) over a stream of bytes, in      *)
(* pieces of any size, and the end that receives them (proto_recv_packet). *)
(*                                                                         *)
(* A byte is known by its packet's number in log and its place in the      *)
(* packet, header first.  A read or write that returns EINTR is tried      *)
(* again with nothing changed: a step that stutters.                       *)
(***************************************************************************)
EXTENDS Integers, Sequences, SequencesExt

CONSTANTS
    Sender,      \* the threads that may send to this client
    NoSender,    \* nobody
    HdrLen,      \* the bytes of a JEUX_PACKET_HEADER (16)
    Lengths,     \* the lengths of payloads that are sent
    Modulus,     \* 2^16: the size field of a header has 16 bits
    BufCap,      \* the bytes that the connection holds
    MaxPackets   \* bound: packets sent

ASSUME SenderAssumption == NoSender \notin Sender
ASSUME SizeAssumption == /\ HdrLen \in Nat \ {0} /\ Modulus \in Nat \ {0}
                         /\ BufCap \in Nat \ {0} /\ Lengths \subseteq Nat
                         /\ MaxPackets \in Nat

VARIABLES
    fdm,      \* the holder of fd_mutex
    log,      \* the packets in the order in which their senders got the mutex
    done,     \* how many bytes of its packet the holder has written
    sent,     \* the numbers of the packets whose sending has succeeded
    stream,   \* the bytes written and not yet read
    part,     \* the bytes that the receiver has of the next packet
    got,      \* the packets received
    fd,       \* the descriptor of the sending side: open or closed
    peer      \* the receiver: it reads, has stopped reading, or is gone

sending == <<fdm, log, done, sent, fd>>
receiving == <<part, got, peer>>
vars == <<sending, stream, receiving>>

-----------------------------------------------------------------------------
\* What cannot be a packet.
Garbled == [from |-> NoSender, size |-> 0]

\* pack_header: the length goes into 16 bits, and so many bytes are sent.
Pack(s, n) == [from |-> s, size |-> n % Modulus]

Packets == {Pack(s, n) : s \in Sender, n \in Lengths}

Total(p) == HdrLen + p.size

Lesser(m, n) == IF m < n THEN m ELSE n

\* Byte j of packet k.
Byte(k, j) == [pkt |-> k, at |-> j]

\* The bytes i to j of the packet that is being sent.
Piece(i, j) == [x \in 1 .. j - i + 1 |-> Byte(Len(log), i + x - 1)]

Init ==
    /\ fdm = NoSender /\ log = <<>> /\ done = 0 /\ sent = {}
    /\ stream = <<>> /\ part = <<>> /\ got = <<>>
    /\ fd = "open" /\ peer = "reading"

-----------------------------------------------------------------------------
\* client_send_packet.

\* Mutant of Lock: fd_mutex is not waited for.
LockNot(s, n) ==
    /\ Len(log) < MaxPackets
    /\ fdm' = s
    /\ log' = Append(log, Pack(s, n))
    /\ done' = 0
    /\ UNCHANGED <<sent, fd, stream, receiving>>

\* fd_mutex is locked for the packet.
Lock(s, n) ==
    /\ fdm = NoSender /\ Len(log) < MaxPackets
    /\ fdm' = s
    /\ log' = Append(log, Pack(s, n))
    /\ done' = 0
    /\ UNCHANGED <<sent, fd, stream, receiving>>

\* The end of what the current fd_op is to write: the header, or the payload.
Goal == IF done < HdrLen THEN HdrLen ELSE Total(Last(log))

\* The next n bytes are on their way; when the receiver has gone, but write()
\* does not know it yet, to nobody.
Arrive(n) == stream' = IF peer = "gone" THEN stream
                       ELSE stream \o Piece(done + 1, done + n)

\* Mutants of Write: the size is not lowered by what was written; what
\* write() has left over is not written.
WriteAgain ==
    /\ fdm # NoSender /\ fd = "open"
    /\ done # Goal
    /\ \E n \in 1 .. Lesser(IF done < HdrLen THEN HdrLen ELSE Last(log).size,
                           BufCap - Len(stream)) :
         /\ Arrive(n)
         /\ done' = done + n
    /\ UNCHANGED <<fdm, log, sent, fd, receiving>>

WriteOnce ==
    /\ fdm # NoSender /\ fd = "open"
    /\ \E n \in 1 .. Lesser(Goal - done, BufCap - Len(stream)) :
         Arrive(n)
    /\ done' = Goal
    /\ UNCHANGED <<fdm, log, sent, fd, receiving>>

\* write() takes some of the bytes, as far as there is room for them.
Write ==
    /\ fdm # NoSender /\ fd = "open"
    /\ \E n \in 1 .. Lesser(Goal - done, BufCap - Len(stream)) :
         /\ Arrive(n)
         /\ done' = done + n
    /\ UNCHANGED <<fdm, log, sent, fd, receiving>>

\* Mutant of Fail: the early return leaves the mutex locked.
FailLocked ==
    /\ fdm # NoSender /\ done < Total(Last(log))
    /\ fd = "closed" \/ peer = "gone"
    /\ UNCHANGED vars

\* write() fails: the rest of the packet is given up.
Fail ==
    /\ fdm # NoSender /\ done < Total(Last(log))
    /\ fd = "closed" \/ peer = "gone"
    /\ fdm' = NoSender
    /\ UNCHANGED <<log, done, sent, fd, stream, receiving>>

\* Mutant of Sent: proto_send_packet does not write the payload.
SentHeader ==
    /\ fdm # NoSender /\ done >= HdrLen
    /\ fdm' = NoSender
    /\ sent' = sent \cup {Len(log)}
    /\ UNCHANGED <<log, done, fd, stream, receiving>>

\* proto_send_packet returns 0.
Sent ==
    /\ fdm # NoSender /\ done = Total(Last(log))
    /\ fdm' = NoSender
    /\ sent' = sent \cup {Len(log)}
    /\ UNCHANGED <<log, done, fd, stream, receiving>>

\* creg_unregister closes the descriptor; it does not wait for fd_mutex.
Close ==
    /\ fd = "open"
    /\ fd' = "closed"
    /\ UNCHANGED <<fdm, log, done, sent, stream, receiving>>

-----------------------------------------------------------------------------
\* proto_recv_packet.

\* The header of some packet, whole.
IsHeader(bytes) == \E k \in DOMAIN log : bytes = [j \in 1 .. HdrLen |-> Byte(k, j)]

\* What the size field of a header says; of bytes that are none, anything.
Announced(bytes) == IF IsHeader(bytes) THEN log[bytes[1].pkt].size ELSE 0

\* How many bytes the packet has, as far as the receiver knows.
Expected(bytes) == IF Len(bytes) < HdrLen THEN HdrLen
                   ELSE HdrLen + Announced(SubSeq(bytes, 1, HdrLen))

\* Whether the bytes are one packet from its first to its last.
Whole(bytes) == \E k \in DOMAIN log :
    bytes = [j \in 1 .. Total(log[k]) |-> Byte(k, j)]

\* read() returns some of the bytes that are there, as many as were asked for
\* at most.
Read ==
    /\ peer = "reading" /\ Len(part) < Expected(part)
    /\ \E n \in 1 .. Lesser(Len(stream), Expected(part) - Len(part)) :
         /\ part' = part \o SubSeq(stream, 1, n)
         /\ stream' = SubSeq(stream, n + 1, Len(stream))
    /\ UNCHANGED <<sending, got, peer>>

\* The packet is complete, and handed to the handlers.
Received ==
    /\ peer = "reading" /\ Len(part) = Expected(part)
    /\ got' = Append(got, IF Whole(part) THEN log[part[1].pkt] ELSE Garbled)
    /\ part' = <<>>
    /\ UNCHANGED <<sending, stream, peer>>

\* End of file, perhaps inside a packet: the receiver ends.
Eof ==
    /\ peer = "reading" /\ fd = "closed" /\ stream = <<>>
    /\ Len(part) < Expected(part)
    /\ peer' = "gone"
    /\ UNCHANGED <<sending, stream, part, got>>

\* The receiver stops reading for good, or goes away.
Stall == peer = "reading" /\ peer' = "stalled" /\ UNCHANGED <<sending, stream, part, got>>
Leave == peer # "gone" /\ peer' = "gone" /\ UNCHANGED <<sending, stream, part, got>>

Over == (fd = "closed" \/ Len(log) = MaxPackets) /\ UNCHANGED vars

SendStep == Write \/ Fail \/ Sent
ReceiveStep == Read \/ Received \/ Eof

Next ==
    \/ \E s \in Sender, n \in Lengths : Lock(s, n)
    \/ SendStep \/ Close
    \/ ReceiveStep \/ Stall \/ Leave
    \/ Over

\* A sender goes on while write() lets it; a receiver that reads goes on.
Spec == Init /\ [][Next]_vars /\ WF_vars(SendStep) /\ WF_vars(ReceiveStep)

-----------------------------------------------------------------------------
TypeOK ==
    /\ fdm \in Sender \cup {NoSender}
    /\ log \in Seq(Packets) /\ Len(log) <= MaxPackets
    /\ got \in Seq(Packets \cup {Garbled})
    /\ done \in Nat /\ (fdm # NoSender => done <= Total(Last(log)))
    /\ sent \subseteq DOMAIN log
    /\ Len(stream) <= BufCap
    /\ Len(part) <= Expected(part)
    /\ fd \in {"open", "closed"}
    /\ peer \in {"reading", "stalled", "gone"}

\* What arrives is the packets that were sent, each of them whole and once,
\* in the order in which their senders got fd_mutex: no reader ever takes
\* bytes of one packet for bytes of another, wherever reads and writes end
\* early and wherever the connection breaks.
C == INSTANCE Channel WITH Packet <- Packets
PacketsWhole == C!Spec

\* A sender does not keep fd_mutex for good, unless the receiver is there and
\* does not read: then every thread with something to say to this client is
\* held up behind it.
MutexFreed == fdm # NoSender ~> (fdm = NoSender \/ peer = "stalled")

\* A packet whose sending was reported as a success arrives, unless the
\* receiver leaves or stops reading.
SentArrives == \A k \in 1 .. MaxPackets :
    k \in sent ~> (Len(got) >= k \/ peer # "reading")
=============================================================================
