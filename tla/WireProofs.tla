----------------------------- MODULE WireProofs -----------------------------
(***************************************************************************)
(* Theorems about Wire, for any senders, header, lengths, field width and  *)
(* buffer: what is on the way, and that Wire implements Channel.           *)
(***************************************************************************)
EXTENDS Wire, WellFoundedInduction, TLAPS

-----------------------------------------------------------------------------
\* What the variables hold.

AnyByte == [pkt : Nat, at : Nat]

Types ==
    /\ fdm \in Sender \cup {NoSender}
    /\ log \in Seq(Packets) /\ Len(log) <= MaxPackets
    /\ got \in Seq(Packets)
    /\ done \in Nat
    /\ fdm # NoSender => log # <<>> /\ done <= Total(log[Len(log)])
    /\ sent \subseteq DOMAIN log
    /\ stream \in Seq(AnyByte) /\ Len(stream) <= BufCap
    /\ part \in Seq(AnyByte)
    /\ fd \in {"open", "closed"}
    /\ peer \in {"reading", "stalled", "gone"}

\* A byte of a packet, and the one that is sent next.
OfPacket(b) == b.pkt \in DOMAIN log /\ b.at \in 1 .. Total(log[b.pkt])

After(b) == IF b.at = Total(log[b.pkt]) THEN Byte(b.pkt + 1, 1)
            ELSE Byte(b.pkt, b.at + 1)

\* What the receiver has is the beginning of the next packet.
Nxt == Len(got) + 1

Begun == part # <<>> =>
    /\ Nxt \in DOMAIN log /\ Len(part) <= Total(log[Nxt])
    /\ \A j \in 1 .. Len(part) : part[j] = Byte(Nxt, j)

\* The byte that the receiver needs next, and the one that is written next.
NextRead == IF part # <<>> /\ Len(part) = Total(log[Nxt]) THEN Byte(Nxt + 1, 1)
         ELSE Byte(Nxt, Len(part) + 1)

NextWritten == IF fdm = NoSender \/ done = Total(log[Len(log)])
        THEN Byte(Len(log) + 1, 1) ELSE Byte(Len(log), done + 1)

\* The bytes on the way follow each other, from the one to the other; once
\* nothing can be written any more the latter does not matter.
InOrder ==
    /\ \A i \in 1 .. Len(stream) : OfPacket(stream[i])
    /\ \A i \in 1 .. Len(stream) - 1 : stream[i + 1] = After(stream[i])
    /\ stream # <<>> => stream[1] = NextRead

Writable == fd = "open" /\ peer # "gone"

UpToWriter == Writable =>
    NextWritten = IF stream = <<>> THEN NextRead ELSE After(stream[Len(stream)])

Inv == Types /\ Begun /\ InOrder /\ UpToWriter

-----------------------------------------------------------------------------
\* Packets and bytes.

LEMMA PacketSize ==
    /\ \A p \in Packets : p.size \in Nat /\ Total(p) \in Nat
                          /\ Total(p) = HdrLen + p.size /\ Total(p) >= HdrLen
    /\ HdrLen \in Nat /\ HdrLen >= 1
<1>1. \A s \in Sender, n \in Lengths : n % Modulus \in Nat
  BY SizeAssumption
<1>2. \A p \in Packets : p.size \in Nat
  BY <1>1 DEF Packets, Pack
<1> QED
  BY <1>2, SizeAssumption DEF Total

LEMMA LastOfLog == Last(log) = log[Len(log)]
BY DEF Last

\* The bytes on the way that belong to one packet are next to each other.
LEMMA Run ==
    ASSUME Types, InOrder, stream # <<>>, NEW a \in Nat,
           stream[1] = Byte(Nxt, a), NEW n \in 1 .. Len(stream),
           a + n - 1 <= Total(log[Nxt])
    PROVE  \A i \in 1 .. n : stream[i] = Byte(Nxt, a + i - 1)
<1> DEFINE S == {i \in 1 .. n : stream[i] # Byte(Nxt, a + i - 1)}
<1> SUFFICES ASSUME S # {} PROVE FALSE
  OBVIOUS
<1>1. Len(stream) \in Nat /\ S \in SUBSET Nat
  BY DEF Types
<1>2. PICK i \in S : \A j \in S : <<j, i>> \notin OpToRel(<, Nat)
  BY <1>1, WFMin, NatLessThanWellFounded
<1>3. \A j \in S : ~(j < i)
  BY <1>1, <1>2, Zenon DEF OpToRel
<1> HIDE DEF S
<1>4. /\ i \in 1 .. n /\ i \in Nat /\ n \in Nat /\ n <= Len(stream)
      /\ stream[i] # Byte(Nxt, a + i - 1)
  <2>1. i \in 1 .. n /\ stream[i] # Byte(Nxt, a + i - 1)
    BY <1>2, Zenon DEF S
  <2> QED
    BY <1>1, <2>1
<1>5. i # 1
  <2> SUFFICES ASSUME i = 1 PROVE FALSE
    OBVIOUS
  <2>1. a + i - 1 = a
    OBVIOUS
  <2> QED
    BY <1>4, <2>1
<1>6. i - 1 \in 1 .. n /\ i - 1 < i
  BY <1>4, <1>5
<1>7. stream[i - 1] = Byte(Nxt, a + (i - 1) - 1)
  BY <1>3, <1>6 DEF S
<1>8. OfPacket(stream[i - 1]) /\ stream[(i - 1) + 1] = After(stream[i - 1])
  BY <1>1, <1>4, <1>6 DEF InOrder
<1>9. (i - 1) + 1 = i /\ a + (i - 1) - 1 = a + i - 2 /\ (a + i - 2) + 1 = a + i - 1
  BY <1>4
<1>10. Nxt \in DOMAIN log /\ Total(log[Nxt]) \in Nat
  <2>1. Nxt \in DOMAIN log
    BY <1>7, <1>8 DEF OfPacket, Byte
  <2> QED
    BY <2>1, PacketSize DEF Types
<1>11. a + i - 2 # Total(log[Nxt])
  BY <1>4, <1>10
<1>12. After(stream[i - 1]) = Byte(Nxt, a + i - 1)
  BY <1>7, <1>9, <1>11 DEF After, Byte
<1> QED
  BY <1>4, <1>8, <1>9, <1>12

\* The receiver knows the length of the packet once it has the header.
LEMMA ExpectedLength ==
    ASSUME Types, Begun
    PROVE  Expected(part) = IF Len(part) < HdrLen THEN HdrLen ELSE Total(log[Nxt])
<1>1. CASE Len(part) < HdrLen
  BY <1>1 DEF Expected
<1>2. CASE ~(Len(part) < HdrLen)
  <2> DEFINE h == SubSeq(part, 1, HdrLen)
  <2>1. Len(part) \in Nat /\ HdrLen \in 1 .. Len(part) /\ part # <<>>
    BY <1>2, PacketSize DEF Types
  <2>2. h = [j \in 1 .. HdrLen |-> Byte(Nxt, j)]
    <3>1. h = [j \in 1 .. HdrLen |-> part[j]]
      BY <2>1, PacketSize DEF Types
    <3> QED
      BY <2>1, <3>1 DEF Begun
  <2>3. Nxt \in DOMAIN log /\ h[1].pkt = Nxt
    <3>1. 1 \in 1 .. HdrLen
      BY PacketSize
    <3>2. h[1] = Byte(Nxt, 1)
      BY <2>2, <3>1
    <3> HIDE DEF h
    <3> QED
      BY <2>1, <3>2 DEF Begun, Byte
  <2>4. Announced(h) = log[Nxt].size
    BY <2>2, <2>3 DEF Announced, IsHeader
  <2> QED
    BY <1>2, <2>4 DEF Expected, Total
<1> QED
  BY <1>1, <1>2

-----------------------------------------------------------------------------
\* The steps.

LEMMA InitInv == Init => Inv
<1> SUFFICES ASSUME Init PROVE Inv
  OBVIOUS
<1>1. Types
  BY SizeAssumption DEF Init, Types
<1>2. Begun /\ InOrder
  BY DEF Init, Begun, InOrder
<1>3. NextWritten = NextRead
  BY DEF Init, NextWritten, NextRead, Nxt
<1> QED
  BY <1>1, <1>2, <1>3 DEF Init, Inv, UpToWriter

\* A step that leaves bytes and packets alone.
LEMMA StepAside ==
    ASSUME Inv, UNCHANGED <<log, got, part, stream>>, Types',
           Writable' => Writable /\ NextWritten' = NextWritten
    PROVE  Inv'
<1>1. Begun'
  BY DEF Inv, Begun, Nxt
<1>2. NextRead' = NextRead
  BY DEF NextRead, Nxt
<1>3. InOrder'
  BY <1>2 DEF Inv, InOrder, OfPacket, After
<1>4. UpToWriter'
  BY <1>2 DEF Inv, UpToWriter, After
<1> QED
  BY <1>1, <1>3, <1>4 DEF Inv

LEMMA StepFail == Inv /\ Fail => Inv'
<1> SUFFICES ASSUME Inv, Fail PROVE Inv'
  OBVIOUS
<1>1. UNCHANGED <<log, done, sent, fd, stream, part, got, peer>> /\ fdm' = NoSender
      /\ (fd = "closed" \/ peer = "gone")
  BY DEF Fail, receiving
<1>2. Types'
  BY <1>1 DEF Inv, Types
<1>3. ~Writable'
  BY <1>1 DEF Writable
<1> QED
  BY <1>1, <1>2, <1>3, StepAside

LEMMA StepSent == Inv /\ Sent => Inv'
<1> SUFFICES ASSUME Inv, Sent PROVE Inv'
  OBVIOUS
<1>1. /\ UNCHANGED <<log, done, fd, stream, part, got, peer>>
      /\ fdm # NoSender /\ fdm' = NoSender /\ sent' = sent \cup {Len(log)}
      /\ done = Total(log[Len(log)])
  BY LastOfLog DEF Sent, receiving
<1>2. Len(log) \in DOMAIN log
  BY <1>1 DEF Inv, Types
<1>3. Types'
  BY <1>1, <1>2 DEF Inv, Types
<1>4. NextWritten' = NextWritten /\ Writable' = Writable
  BY <1>1 DEF NextWritten, Writable
<1> QED
  BY <1>1, <1>3, <1>4, StepAside

\* Descriptors and the receiver going.
LEMMA StepEnd == Inv /\ (Close \/ Eof \/ Stall \/ Leave \/ Over) => Inv'
<1> SUFFICES ASSUME Inv, Close \/ Eof \/ Stall \/ Leave \/ Over PROVE Inv'
  OBVIOUS
<1>1. /\ UNCHANGED <<fdm, log, done, sent, stream, part, got>>
      /\ fd' = fd \/ fd' = "closed"
      /\ peer' = peer \/ peer' = "gone" \/ (peer = "reading" /\ peer' = "stalled")
  <2>1. CASE Close
    BY <2>1 DEF Close, receiving
  <2>2. CASE Eof
    BY <2>2 DEF Eof, sending
  <2>3. CASE Stall \/ Leave
    BY <2>3 DEF Stall, Leave, sending
  <2>4. CASE Over
    BY <2>4 DEF Over, vars, sending, receiving
  <2> QED
    BY <2>1, <2>2, <2>3, <2>4
<1>2. Types'
  BY <1>1 DEF Inv, Types
<1>3. Writable' => Writable
  BY <1>1 DEF Writable
<1>4. NextWritten' = NextWritten
  BY <1>1 DEF NextWritten
<1> QED
  BY <1>1, <1>2, <1>3, <1>4, StepAside

LEMMA StepLock == \A s \in Sender, n \in Lengths : Inv /\ Lock(s, n) => Inv'
<1> SUFFICES ASSUME NEW s \in Sender, NEW n \in Lengths, Inv, Lock(s, n) PROVE Inv'
  OBVIOUS
<1> DEFINE p == Pack(s, n)
<1>1. /\ fdm = NoSender /\ fdm' = s /\ Len(log) < MaxPackets
      /\ log' = Append(log, p) /\ done' = 0
      /\ UNCHANGED <<sent, fd, stream, part, got, peer>>
  BY DEF Lock, receiving
<1>2. p \in Packets /\ Total(p) \in Nat /\ Total(p) # 0 /\ s # NoSender
  <2>1. p \in Packets
    BY DEF Packets
  <2> QED
    BY <2>1, PacketSize, SenderAssumption
<1> HIDE DEF p
<1>3. /\ log \in Seq(Packets) /\ Len(log) \in Nat /\ Len(log') = Len(log) + 1
      /\ log' \in Seq(Packets) /\ log'[Len(log')] = p
      /\ DOMAIN log \subseteq DOMAIN log'
  BY <1>1, <1>2 DEF Inv, Types
<1>4. \A i \in DOMAIN log : log'[i] = log[i]
  BY <1>1, <1>2, <1>3
<1>5. Types'
  <2>1. fdm' # NoSender => log' # <<>> /\ done' <= Total(log'[Len(log')])
    BY <1>1, <1>2, <1>3
  <2> QED
    BY <1>1, <1>3, <2>1, SizeAssumption DEF Inv, Types
<1>6. Begun'
  BY <1>1, <1>3, <1>4 DEF Inv, Begun, Nxt
<1>7. NextRead' = NextRead
  BY <1>1, <1>4 DEF NextRead, Nxt, Inv, Begun
<1>8. \A b : OfPacket(b) => OfPacket(b)' /\ After(b)' = After(b)
  BY <1>3, <1>4 DEF OfPacket, After
<1>9. InOrder'
  BY <1>1, <1>7, <1>8 DEF Inv, InOrder, Types
<1>10. NextWritten' = NextWritten
  BY <1>1, <1>2, <1>3 DEF NextWritten
<1>11. UpToWriter'
  <2>1. stream # <<>> => After(stream[Len(stream)])' = After(stream[Len(stream)])
    BY <1>1, <1>8 DEF Inv, InOrder, Types
  <2> QED
    BY <1>1, <1>7, <1>10, <2>1 DEF Inv, UpToWriter, Writable
<1> QED
  BY <1>5, <1>6, <1>9, <1>11 DEF Inv

\* What write() takes is at most what is left of the packet.
LEMMA WriteBound ==
    ASSUME Types, fdm # NoSender, NEW n \in 1 .. Lesser(Goal - done, BufCap - Len(stream))
    PROVE  /\ n \in Nat /\ n >= 1 /\ Len(stream) + n <= BufCap
           /\ Len(log) \in DOMAIN log /\ Total(log[Len(log)]) \in Nat
           /\ done + n <= Total(log[Len(log)])
<1> DEFINE T == Total(log[Len(log)])
<1>1. /\ Len(log) \in DOMAIN log /\ Len(stream) \in Nat /\ done \in Nat /\ done <= T
      /\ log[Len(log)] \in Packets
  BY DEF Types
<1>2. T \in Nat /\ T >= HdrLen /\ HdrLen \in Nat /\ BufCap \in Nat
  BY <1>1, PacketSize, SizeAssumption
<1>3. Goal \in Nat /\ Goal <= T
  BY <1>2, LastOfLog DEF Goal
<1> HIDE DEF T
<1>4. Lesser(Goal - done, BufCap - Len(stream)) \in Int
      /\ Lesser(Goal - done, BufCap - Len(stream)) <= Goal - done
      /\ Lesser(Goal - done, BufCap - Len(stream)) <= BufCap - Len(stream)
  BY <1>1, <1>2, <1>3 DEF Lesser
<1>5. n \in Nat /\ n >= 1 /\ Len(stream) + n <= BufCap /\ done + n <= T
  BY <1>1, <1>2, <1>3, <1>4
<1> QED
  BY <1>1, <1>2, <1>5 DEF T

\* Bytes for a receiver that has gone.
LEMMA StepWriteLost == Inv /\ Write /\ peer = "gone" => Inv'
<1> SUFFICES ASSUME Inv, Write, peer = "gone" PROVE Inv'
  OBVIOUS
<1>1. PICK n \in 1 .. Lesser(Goal - done, BufCap - Len(stream)) :
        stream' = stream /\ done' = done + n
  BY DEF Write, Arrive
<1>2. /\ UNCHANGED <<fdm, log, sent, fd, part, got, peer>>
      /\ fdm # NoSender /\ ~Writable'
  BY DEF Write, Writable, receiving
<1>3. n \in Nat /\ done + n <= Total(log[Len(log)])
  BY <1>2, WriteBound DEF Inv
<1>4. Types'
  BY <1>1, <1>2, <1>3 DEF Inv, Types
<1> QED
  BY <1>1, <1>2, <1>4, StepAside

LEMMA StepWrite == Inv /\ Write /\ peer # "gone" => Inv'
<1> SUFFICES ASSUME Inv, Write, peer # "gone" PROVE Inv'
  OBVIOUS
<1> DEFINE L == Len(log)
           T == Total(log[L])
           m == Len(stream)
<1>1. PICK n \in 1 .. Lesser(Goal - done, BufCap - Len(stream)) :
        stream' = stream \o Piece(done + 1, done + n) /\ done' = done + n
  BY DEF Write, Arrive
<1>2. /\ UNCHANGED <<fdm, log, sent, fd, part, got, peer>>
      /\ fdm # NoSender /\ Writable
  BY DEF Write, Writable, receiving
<1>3. /\ n \in Nat /\ n >= 1 /\ m + n <= BufCap /\ L \in DOMAIN log /\ T \in Nat
      /\ done + n <= T
  BY <1>2, WriteBound DEF Inv
<1>4. m \in Nat /\ done \in Nat /\ L \in Nat /\ stream \in Seq(AnyByte)
  BY DEF Inv, Types
<1>5. Piece(done + 1, done + n) = [x \in 1 .. n |-> Byte(L, done + x)]
  <2>1. (done + n) - (done + 1) + 1 = n /\ \A x \in 1 .. n : (done + 1) + x - 1 = done + x
    BY <1>3, <1>4
  <2> QED
    BY <2>1 DEF Piece
<1> DEFINE w == Piece(done + 1, done + n)
<1>6. /\ w \in Seq(AnyByte) /\ Len(w) = n
      /\ \A x \in 1 .. n : w[x] = Byte(L, done + x)
  <2>1. \A x \in 1 .. n : Byte(L, done + x) \in AnyByte
    BY <1>4, <1>3 DEF Byte, AnyByte
  <2> QED
    BY <1>3, <1>5, <2>1
<1> HIDE DEF w, L, T, m
<1>7. /\ stream' \in Seq(AnyByte) /\ Len(stream') = m + n /\ stream' # <<>>
      /\ \A i \in 1 .. m : stream'[i] = stream[i]
      /\ \A i \in m + 1 .. m + n : stream'[i] = Byte(L, done + (i - m))
  <2>1. stream' = stream \o w
    BY <1>1 DEF w
  <2>2. stream' \in Seq(AnyByte) /\ Len(stream') = m + n
    <3> HIDE DEF AnyByte
    <3>1. Len(stream \o w) = Len(stream) + Len(w) /\ stream \o w \in Seq(AnyByte)
      BY <1>4, <1>6
    <3> QED
      BY <2>1, <3>1, <1>6 DEF m
  <2>3. \A i \in 1 .. m : stream'[i] = stream[i]
    BY <2>1, <1>4, <1>6, <1>3 DEF m
  <2>4. \A i \in m + 1 .. m + n : stream'[i] = w[i - m] /\ i - m \in 1 .. n
    BY <2>1, <1>4, <1>6, <1>3 DEF m
  <2> QED
    BY <2>2, <2>3, <2>4, <1>3, <1>4, <1>6
<1>8. Types'
  <2>1. fdm' # NoSender => log' # <<>> /\ done' <= Total(log'[Len(log')])
    BY <1>1, <1>2, <1>3 DEF Inv, Types, L, T
  <2> QED
    BY <1>1, <1>2, <1>3, <1>4, <1>7, <2>1 DEF Inv, Types
<1>9. Begun' /\ NextRead' = NextRead
  BY <1>2 DEF Inv, Begun, NextRead, Nxt
<1>10. /\ \A b : OfPacket(b)' <=> OfPacket(b)
       /\ \A b : After(b)' = After(b)
  BY <1>2 DEF OfPacket, After
<1>11. NextWritten = Byte(L, done + 1)
  BY <1>2, <1>3, <1>4 DEF NextWritten, L, T
<1>12. \A x \in 1 .. T : OfPacket(Byte(L, x))
  BY <1>3 DEF OfPacket, Byte, T
<1>13. \A x \in 1 .. T - 1 : After(Byte(L, x)) = Byte(L, x + 1)
  BY <1>3 DEF After, Byte, T
<1>14. InOrder'
  <2>1. ASSUME NEW i \in 1 .. Len(stream') PROVE OfPacket(stream'[i])
    <3>1. CASE i <= m
      BY <3>1, <1>4, <1>7 DEF Inv, InOrder, m
    <3>2. CASE i > m
      <4>1. i \in m + 1 .. m + n /\ done + (i - m) \in 1 .. T
        BY <3>2, <1>3, <1>4, <1>7
      <4> QED
        BY <4>1, <1>7, <1>12
    <3> QED
      BY <3>1, <3>2, <1>4, <1>7
  <2>2. ASSUME NEW i \in 1 .. Len(stream') - 1 PROVE stream'[i + 1] = After(stream'[i])
    <3>1. i \in Nat /\ i >= 1 /\ i + 1 <= m + n
      BY <1>3, <1>4, <1>7
    <3>2. CASE i < m
      <4>1. i \in 1 .. m /\ i + 1 \in 1 .. m /\ i \in 1 .. m - 1
        BY <3>1, <3>2, <1>4
      <4>2. stream[i + 1] = After(stream[i])
        BY <4>1 DEF Inv, InOrder, m
      <4> QED
        BY <4>1, <4>2, <1>7
    <3>3. CASE i = m
      <4>1. m + 1 \in m + 1 .. m + n /\ done + ((m + 1) - m) = done + 1 /\ m # 0 /\ m \in 1 .. m
        BY <3>1, <3>3, <1>3, <1>4
      <4>2. stream # <<>>
        BY <4>1 DEF m
      <4> QED
        BY <4>1, <4>2, <3>3, <1>2, <1>7, <1>11 DEF Inv, UpToWriter, m
    <3>4. CASE i > m
      <4>1. /\ i \in m + 1 .. m + n /\ i + 1 \in m + 1 .. m + n
            /\ done + (i - m) \in 1 .. T - 1
            /\ done + ((i + 1) - m) = (done + (i - m)) + 1
        BY <3>1, <3>4, <1>3, <1>4
      <4> QED
        BY <4>1, <1>7, <1>13
    <3> QED
      BY <3>1, <3>2, <3>3, <3>4, <1>4
  <2>3. stream'[1] = NextRead
    <3>1. CASE m = 0
      <4>1. 1 \in m + 1 .. m + n /\ done + (1 - m) = done + 1
        BY <3>1, <1>3, <1>4
      <4>2. stream = <<>>
        BY <3>1, <1>4 DEF m
      <4> QED
        BY <4>1, <4>2, <1>2, <1>7, <1>11 DEF Inv, UpToWriter
    <3>2. CASE m # 0
      <4>1. 1 \in 1 .. m
        BY <3>2, <1>4
      <4>2. stream # <<>>
        BY <3>2 DEF m
      <4> QED
        BY <4>1, <4>2, <1>7 DEF Inv, InOrder
    <3> QED
      BY <3>1, <3>2
  <2> QED
    BY <2>1, <2>2, <2>3, <1>9, <1>10 DEF InOrder
<1>15. UpToWriter'
  <2>1. stream'[Len(stream')] = Byte(L, done + n)
    <3>1. m + n \in m + 1 .. m + n /\ (m + n) - m = n
      BY <1>3, <1>4
    <3> QED
      BY <3>1, <1>7
  <2>2. NextWritten' = IF done + n = T THEN Byte(L + 1, 1) ELSE Byte(L, done + n + 1)
    BY <1>1, <1>2 DEF NextWritten, L, T
  <2>3. After(Byte(L, done + n)) = IF done + n = T THEN Byte(L + 1, 1) ELSE Byte(L, done + n + 1)
    BY DEF After, Byte, T
  <2>4. After(stream[Len(stream)])' = After(stream'[Len(stream')])
    BY <1>2 DEF After
  <2> QED
    BY <2>1, <2>2, <2>3, <2>4, <1>7 DEF UpToWriter
<1> QED
  BY <1>8, <1>9, <1>14, <1>15 DEF Inv

\* The receiver asks for no more bytes than the packet has left, and those
\* that come are the packet's.
LEMMA ReadBytes ==
    ASSUME Inv, Len(part) < Expected(part),
           NEW n \in 1 .. Lesser(Len(stream), Expected(part) - Len(part))
    PROVE  /\ n \in 1 .. Len(stream) /\ Nxt \in DOMAIN log /\ Nxt \in Nat
           /\ Total(log[Nxt]) \in Nat /\ Len(part) + n <= Total(log[Nxt])
           /\ NextRead = Byte(Nxt, Len(part) + 1)
           /\ \A i \in 1 .. n : stream[i] = Byte(Nxt, Len(part) + i)
<1>1. /\ Len(stream) \in Nat /\ Len(part) \in Nat /\ HdrLen \in Nat /\ Nxt \in Nat
      /\ part \in Seq(AnyByte) /\ stream \in Seq(AnyByte) /\ log \in Seq(Packets)
  BY PacketSize DEF Inv, Types, Nxt
<1>2. Expected(part) = IF Len(part) < HdrLen THEN HdrLen ELSE Total(log[Nxt])
  BY ExpectedLength DEF Inv
<1>3. part # <<>> => Nxt \in DOMAIN log /\ Len(part) <= Total(log[Nxt])
  BY DEF Inv, Begun
<1>4. Nxt \in DOMAIN log => Total(log[Nxt]) \in Nat /\ Total(log[Nxt]) >= HdrLen
  BY <1>1, PacketSize
<1>5. Expected(part) \in Nat
  <2>1. CASE part = <<>>
    BY <2>1, <1>1, <1>2, PacketSize
  <2>2. CASE part # <<>>
    BY <2>2, <1>1, <1>2, <1>3, <1>4
  <2> QED
    BY <2>1, <2>2
<1>6. Lesser(Len(stream), Expected(part) - Len(part)) \in Int
      /\ Lesser(Len(stream), Expected(part) - Len(part)) <= Len(stream)
      /\ Lesser(Len(stream), Expected(part) - Len(part)) <= Expected(part) - Len(part)
  BY <1>1, <1>5 DEF Lesser
<1>7. n \in Nat /\ n >= 1 /\ n <= Len(stream) /\ Len(part) + n <= Expected(part)
  BY <1>1, <1>5, <1>6
<1>8. NextRead = Byte(Nxt, Len(part) + 1)
  <2>1. part # <<>> => Len(part) # Total(log[Nxt])
    BY <1>1, <1>2, <1>3, <1>4
  <2> QED
    BY <2>1 DEF NextRead
<1>9. stream # <<>> /\ 1 \in 1 .. Len(stream)
  BY <1>1, <1>7
<1>10. stream[1] = Byte(Nxt, Len(part) + 1) /\ OfPacket(stream[1])
  BY <1>8, <1>9 DEF Inv, InOrder
<1>11. Nxt \in DOMAIN log
  BY <1>10 DEF OfPacket, Byte
<1>12. Len(part) + n <= Total(log[Nxt])
  BY <1>1, <1>2, <1>4, <1>7, <1>11
<1>13. n \in 1 .. Len(stream)
  BY <1>1, <1>7
<1>14. \A i \in 1 .. n : stream[i] = Byte(Nxt, (Len(part) + 1) + i - 1)
  <2>1. (Len(part) + 1) + n - 1 <= Total(log[Nxt]) /\ Len(part) + 1 \in Nat
    BY <1>1, <1>4, <1>7, <1>11, <1>12
  <2> QED
    BY <2>1, <1>9, <1>10, <1>13, Run DEF Inv
<1>15. \A i \in 1 .. n : (Len(part) + 1) + i - 1 = Len(part) + i
  BY <1>1, <1>7
<1> QED
  BY <1>1, <1>4, <1>8, <1>11, <1>12, <1>13, <1>14, <1>15

LEMMA StepRead == Inv /\ Read => Inv'
<1> SUFFICES ASSUME Inv, Read PROVE Inv'
  OBVIOUS
<1>1. PICK n \in 1 .. Lesser(Len(stream), Expected(part) - Len(part)) :
        /\ part' = part \o SubSeq(stream, 1, n)
        /\ stream' = SubSeq(stream, n + 1, Len(stream))
  BY DEF Read
<1>2. /\ UNCHANGED <<fdm, log, done, sent, fd, got, peer>>
      /\ Len(part) < Expected(part)
  BY DEF Read, sending
<1> DEFINE q == Len(part)
           m == Len(stream)
           T == Total(log[Nxt])
<1>3. /\ n \in 1 .. m /\ Nxt \in DOMAIN log /\ Nxt \in Nat /\ T \in Nat /\ q + n <= T
      /\ NextRead = Byte(Nxt, q + 1)
      /\ \A i \in 1 .. n : stream[i] = Byte(Nxt, q + i)
  BY <1>2, ReadBytes
<1>4. /\ m \in Nat /\ q \in Nat /\ n \in Nat /\ n >= 1 /\ n <= m
      /\ stream \in Seq(AnyByte) /\ part \in Seq(AnyByte)
  BY <1>3 DEF Inv, Types
<1>5. /\ part' \in Seq(AnyByte) /\ Len(part') = q + n /\ part' # <<>>
      /\ \A j \in 1 .. q : part'[j] = part[j]
      /\ \A j \in q + 1 .. q + n : part'[j] = stream[j - q]
  <2> DEFINE w == SubSeq(stream, 1, n)
  <2> HIDE DEF AnyByte
  <2>1. w \in Seq(AnyByte) /\ Len(w) = n /\ \A i \in 1 .. n : w[i] = stream[i]
    BY <1>3, <1>4
  <2> HIDE DEF w
  <2>2. part' = part \o w
    BY <1>1 DEF w
  <2>3. part' \in Seq(AnyByte) /\ Len(part') = q + n
    <3>1. Len(part \o w) = Len(part) + Len(w) /\ part \o w \in Seq(AnyByte)
      BY <1>4, <2>1
    <3> QED
      BY <2>1, <2>2, <3>1
  <2>4. \A j \in 1 .. q : part'[j] = part[j]
    BY <2>1, <2>2, <1>4
  <2>5. \A j \in q + 1 .. q + n : part'[j] = w[j - q] /\ j - q \in 1 .. n
    BY <2>1, <2>2, <1>4
  <2> QED
    BY <2>1, <2>3, <2>4, <2>5, <1>4
<1>6. /\ stream' \in Seq(AnyByte) /\ Len(stream') = m - n
      /\ \A i \in 1 .. m - n : stream'[i] = stream[i + n]
  <2> HIDE DEF AnyByte
  <2>1. stream' \in Seq(AnyByte) /\ Len(stream') = m - n
    BY <1>1, <1>3, <1>4
  <2>2. \A i \in 1 .. m - n : stream'[i] = stream[n + 1 + i - 1] /\ n + 1 + i - 1 = i + n
    BY <1>1, <1>3, <1>4
  <2> QED
    BY <2>1, <2>2
<1> HIDE DEF q, m, T
<1>7. Types'
  <2>1. Len(stream') <= BufCap
    BY <1>4, <1>6, SizeAssumption DEF Inv, Types, m
  <2> QED
    BY <1>2, <1>5, <1>6, <2>1 DEF Inv, Types
<1>8. Begun'
  <2>1. ASSUME NEW j \in 1 .. q + n PROVE part'[j] = Byte(Nxt, j)
    <3>1. CASE j <= q
      <4>1. j \in 1 .. q /\ part # <<>>
        BY <3>1, <1>4 DEF q
      <4> QED
        BY <4>1, <1>5 DEF Inv, Begun, q
    <3>2. CASE j > q
      <4>1. j \in q + 1 .. q + n /\ j - q \in 1 .. n /\ q + (j - q) = j
        BY <3>2, <1>4
      <4> QED
        BY <4>1, <1>3, <1>5
    <3> QED
      BY <3>1, <3>2, <1>4
  <2>2. Nxt' = Nxt /\ log' = log
    BY <1>2 DEF Nxt
  <2> QED
    BY <2>1, <2>2, <1>3, <1>5 DEF Begun, T
\* The byte needed next is the one after the last that was read.
<1>9. NextRead' = After(stream[n])
  <2>1. NextRead' = IF q + n = T THEN Byte(Nxt + 1, 1) ELSE Byte(Nxt, q + n + 1)
    BY <1>2, <1>5 DEF NextRead, Nxt, T
  <2>2. stream[n] = Byte(Nxt, q + n)
    BY <1>3, <1>4
  <2> QED
    BY <2>1, <2>2 DEF After, Byte, T
<1>10. /\ \A b : OfPacket(b)' <=> OfPacket(b)
       /\ \A b : After(b)' = After(b)
  BY <1>2 DEF OfPacket, After
<1>11. /\ \A i \in 1 .. m : OfPacket(stream[i])
       /\ \A i \in 1 .. m - 1 : stream[i + 1] = After(stream[i])
  BY DEF Inv, InOrder, m
<1>12. InOrder'
  <2>1. ASSUME NEW i \in 1 .. Len(stream') PROVE OfPacket(stream'[i])
    <3>1. i \in 1 .. m - n /\ i + n \in 1 .. m
      BY <1>4, <1>6
    <3> QED
      BY <3>1, <1>6, <1>11
  <2>2. ASSUME NEW i \in 1 .. Len(stream') - 1 PROVE stream'[i + 1] = After(stream'[i])
    <3>1. /\ i \in 1 .. m - n /\ i + 1 \in 1 .. m - n /\ i + n \in 1 .. m - 1
          /\ (i + 1) + n = (i + n) + 1
      BY <1>4, <1>6
    <3> QED
      BY <3>1, <1>6, <1>11
  <2>3. ASSUME stream' # <<>> PROVE stream'[1] = NextRead'
    <3>1. Len(stream') # 0
      BY <2>3, <1>6
    <3>2. 1 \in 1 .. m - n /\ n \in 1 .. m - 1 /\ 1 + n = n + 1
      BY <3>1, <1>4, <1>6
    <3> QED
      BY <3>2, <1>6, <1>9, <1>11
  <2> QED
    BY <2>1, <2>2, <2>3, <1>10 DEF InOrder
<1>13. UpToWriter'
  <2> SUFFICES ASSUME Writable'
               PROVE  NextWritten' = IF stream' = <<>> THEN NextRead'
                              ELSE After(stream'[Len(stream')])
    BY <1>10 DEF UpToWriter
  <2>1. stream # <<>>
    BY <1>4 DEF m
  <2>2. NextWritten' = After(stream[m])
    BY <2>1, <1>2 DEF Inv, UpToWriter, Writable, NextWritten, m
  <2>3. CASE stream' = <<>>
    <3>1. m = n
      BY <2>3, <1>4, <1>6
    <3> QED
      BY <2>2, <2>3, <3>1, <1>9
  <2>4. CASE stream' # <<>>
    <3>1. Len(stream') # 0
      BY <2>4, <1>6
    <3>2. m - n \in 1 .. m - n /\ (m - n) + n = m
      BY <3>1, <1>4, <1>6
    <3> QED
      BY <2>2, <2>4, <3>2, <1>6
  <2> QED
    BY <2>3, <2>4
<1> QED
  BY <1>7, <1>8, <1>12, <1>13 DEF Inv

\* A complete packet is the next of the log.
LEMMA PacketWhole ==
    ASSUME Inv, Len(part) = Expected(part)
    PROVE  /\ part # <<>> /\ Nxt \in DOMAIN log /\ Len(part) = Total(log[Nxt])
           /\ Whole(part) /\ part[1].pkt = Nxt
<1>1. Len(part) \in Nat /\ HdrLen \in Nat /\ HdrLen >= 1 /\ part \in Seq(AnyByte)
  BY PacketSize DEF Inv, Types
<1>2. Len(part) = Total(log[Nxt]) /\ ~(Len(part) < HdrLen)
  BY <1>1, ExpectedLength DEF Inv
<1>3. part # <<>> /\ 1 \in 1 .. Len(part)
  BY <1>1, <1>2
<1>4. /\ Nxt \in DOMAIN log
      /\ \A j \in 1 .. Len(part) : part[j] = Byte(Nxt, j)
  BY <1>3 DEF Inv, Begun
<1>5. part = [j \in 1 .. Total(log[Nxt]) |-> Byte(Nxt, j)]
  <2> HIDE DEF AnyByte
  <2>1. part = [j \in 1 .. Len(part) |-> part[j]]
    BY <1>1
  <2>2. [j \in 1 .. Len(part) |-> part[j]] = [j \in 1 .. Len(part) |-> Byte(Nxt, j)]
    BY <1>4
  <2> QED
    BY <2>1, <2>2, <1>2
<1>6. Whole(part)
  BY <1>4, <1>5 DEF Whole
<1>7. part[1].pkt = Nxt
  BY <1>3, <1>4 DEF Byte
<1> QED
  BY <1>2, <1>3, <1>4, <1>6, <1>7

LEMMA ReceivedNext ==
    ASSUME Inv, Received
    PROVE  /\ Nxt \in DOMAIN log /\ got' = Append(got, log[Nxt]) /\ part' = <<>>
           /\ UNCHANGED <<fdm, log, done, sent, fd, stream, peer>>
           /\ part # <<>> /\ Len(part) = Total(log[Nxt])
BY PacketWhole DEF Received, sending

LEMMA StepReceived == Inv /\ Received => Inv'
<1> SUFFICES ASSUME Inv, Received PROVE Inv'
  OBVIOUS
<1>1. /\ Nxt \in DOMAIN log /\ got' = Append(got, log[Nxt]) /\ part' = <<>>
      /\ UNCHANGED <<fdm, log, done, sent, fd, stream, peer>>
      /\ part # <<>> /\ Len(part) = Total(log[Nxt])
  BY ReceivedNext
<1>2. got' \in Seq(Packets) /\ Nxt' = Nxt + 1 /\ Nxt \in Nat
  BY <1>1 DEF Inv, Types, Nxt
<1>3. Types'
  BY <1>1, <1>2 DEF Inv, Types
<1>4. Begun'
  BY <1>1 DEF Begun
<1>5. NextRead' = NextRead
  BY <1>1, <1>2 DEF NextRead
<1>6. InOrder'
  BY <1>1, <1>5 DEF Inv, InOrder, OfPacket, After
<1>7. UpToWriter'
  BY <1>1, <1>5 DEF Inv, UpToWriter, Writable, NextWritten, After
<1> QED
  BY <1>3, <1>4, <1>6, <1>7 DEF Inv

LEMMA InvStep == Inv /\ [Next]_vars => Inv'
<1> SUFFICES ASSUME Inv, [Next]_vars PROVE Inv'
  OBVIOUS
<1>1. CASE \E s \in Sender, n \in Lengths : Lock(s, n)
  BY <1>1, StepLock
<1>2. CASE SendStep
  BY <1>2, StepWrite, StepWriteLost, StepFail, StepSent DEF SendStep
<1>3. CASE ReceiveStep
  BY <1>3, StepRead, StepReceived, StepEnd DEF ReceiveStep
<1>4. CASE Close \/ Stall \/ Leave \/ Over
  BY <1>4, StepEnd
<1>5. CASE UNCHANGED vars
  <2>1. UNCHANGED <<log, got, part, stream, fdm, done, sent, fd, peer>>
    BY <1>5 DEF vars, sending, receiving
  <2>2. Types' /\ Writable' = Writable /\ NextWritten' = NextWritten
    BY <2>1 DEF Inv, Types, Writable, NextWritten
  <2> QED
    BY <2>1, <2>2, StepAside
<1> QED
  BY <1>1, <1>2, <1>3, <1>4, <1>5 DEF Next

-----------------------------------------------------------------------------
\* Every variable keeps to its type: the receiver never has more bytes than it
\* asked for (proto_recv_packet), nor a sender written more than its packet.
THEOREM WireTypes == Spec => []TypeOK
<1>1. Inv => TypeOK
  <2> SUFFICES ASSUME Inv PROVE TypeOK
    OBVIOUS
  <2>1. Len(part) <= Expected(part)
    <3>1. CASE part = <<>>
      BY <3>1, PacketSize DEF Expected
    <3>2. CASE part # <<>>
      <4>1. /\ Nxt \in DOMAIN log /\ Len(part) <= Total(log[Nxt])
            /\ Len(part) \in Nat /\ HdrLen \in Nat
        BY <3>2, PacketSize DEF Inv, Begun, Types
      <4> QED
        BY <4>1, ExpectedLength DEF Inv
    <3> QED
      BY <3>1, <3>2
  <2>2. got \in Seq(Packets \cup {Garbled})
    BY DEF Inv, Types
  <2> QED
    BY <2>1, <2>2, LastOfLog DEF Inv, Types, TypeOK
<1> QED
  BY <1>1, InitInv, InvStep, PTL DEF Spec

\* The packets that proto_recv_packet returns are those that client_send_packet
\* was given, each whole and once, in the order in which fd_mutex was locked,
\* wherever reads and writes end early: Wire implements Channel.
THEOREM WireImplementsChannel == Spec => PacketsWhole
<1>1. Init => C!Init
  BY DEF Init, C!Init
<1>2. Inv /\ [Next]_vars => [C!Next]_C!vars
  <2> SUFFICES ASSUME Inv, [Next]_vars PROVE [C!Next]_C!vars
    OBVIOUS
  <2>1. CASE \E s \in Sender, n \in Lengths : Lock(s, n)
    <3>1. PICK s \in Sender, n \in Lengths : Lock(s, n)
      BY <2>1
    <3>2. Pack(s, n) \in Packets
      BY DEF Packets
    <3>3. log' = Append(log, Pack(s, n)) /\ got' = got
      BY <3>1 DEF Lock, receiving
    <3> QED
      BY <3>2, <3>3 DEF C!Next, C!Send
  <2>2. CASE Received
    <3>1. Nxt \in DOMAIN log /\ got' = Append(got, log[Nxt]) /\ log' = log
      BY <2>2, ReceivedNext
    <3>2. Len(got) \in Nat /\ Len(got) < Len(log)
      BY <3>1 DEF Inv, Types, Nxt
    <3> QED
      BY <3>1, <3>2 DEF C!Next, C!Receive, Nxt
  <2>3. CASE SendStep \/ Close
    BY <2>3 DEF SendStep, Write, Fail, Sent, Close, receiving, C!vars
  <2>4. CASE Read \/ Eof \/ Stall \/ Leave
    BY <2>4 DEF Read, Eof, Stall, Leave, sending, C!vars
  <2>5. CASE Over \/ UNCHANGED vars
    BY <2>5 DEF Over, vars, sending, receiving, C!vars
  <2> QED
    BY <2>1, <2>2, <2>3, <2>4, <2>5 DEF Next, ReceiveStep
<1> QED
  BY <1>1, <1>2, InitInv, InvStep, PTL DEF Spec, PacketsWhole, C!Spec
=============================================================================
