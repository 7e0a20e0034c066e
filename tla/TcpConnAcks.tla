------------------------------ MODULE TcpConnAcks ------------------------------
(***************************************************************************)
(* The acknowledgements of one TCP connection, proved for every value of   *)
(* the constants: rcv.NXT counts what its host has received, and snd.UNA   *)
(* never runs ahead of what the peer has received, however segments are    *)
(* lost, repeated, reordered and retransmitted.                            *)
(***************************************************************************)
EXTENDS TcpConnHandshake

-----------------------------------------------------------------------------
(* Sequence numbers *)

\* Numbers modulo SeqMod: quotient and remainder, and that they are unique.
LEMMA Modulus ==
  /\ SeqMod \in Nat \ {0}
  /\ \A x \in Int : x % SeqMod \in Seqs /\ \E k \in Int : x = k * SeqMod + (x % SeqMod)
  /\ \A x, k \in Int : \A r \in Seqs : x = k * SeqMod + r => x % SeqMod = r
  /\ \A r \in Seqs : r \in Nat /\ r < SeqMod
  <1>1. SeqMod \in Nat \ {0}
    BY ConstantsAssumption
  <1>2. \A m \in Nat \ {0}, x \in Int : x = (x \div m) * m + (x % m) /\ x % m \in 0..(m - 1) /\ x \div m \in Int
    OBVIOUS
  <1>3. ASSUME NEW m \in Nat \ {0}, NEW x \in Int, NEW k \in Int, NEW r \in 0..(m-1), x = k * m + r
        PROVE  x % m = r
    BY <1>3
  <1>4. \A x \in Int : x % SeqMod \in Seqs /\ \E k \in Int : x = k * SeqMod + (x % SeqMod)
    BY <1>1, <1>2 DEF Seqs
  <1>5. \A x, k \in Int : \A r \in Seqs : x = k * SeqMod + r => x % SeqMod = r
    BY <1>1, <1>3 DEF Seqs
  <1>6. \A r \in Seqs : r \in Nat /\ r < SeqMod
    BY <1>1 DEF Seqs
  <1> QED BY <1>1, <1>4, <1>5, <1>6

\* A sequence number is a number.
LEMMA SeqsType == SeqMod \in Nat \ {0} /\ \A r \in Seqs : r \in Int
  BY ConstantsAssumption DEF Seqs

\* What Plus adds and takes away.
LEMMA PlusModulus ==
  ASSUME NEW a \in Seqs, NEW n \in Nat
  PROVE  Plus(a, n) \in Seqs /\ \E k \in Int : a + n = k * SeqMod + Plus(a, n)
  <1>1. a + n \in Int
    BY Modulus
  <1> QED BY <1>1, Modulus DEF Plus

\* A sum that is the remainder.
LEMMA PlusUnique ==
  ASSUME NEW a \in Seqs, NEW n \in Nat, NEW k \in Int, NEW r \in Seqs, a + n = k * SeqMod + r
  PROVE  Plus(a, n) = r
  <1>1. a + n \in Int
    BY Modulus
  <1> QED BY <1>1, Modulus DEF Plus

\* Adding twice is adding the sum.
LEMMA PlusPlus ==
  ASSUME NEW a \in Seqs, NEW i \in Nat, NEW j \in Nat PROVE Plus(Plus(a, i), j) = Plus(a, i + j)
  <1> DEFINE p == Plus(a, i)
             r == Plus(p, j)
  <1>1. p \in Seqs /\ \E k \in Int : a + i = k * SeqMod + p
    BY PlusModulus
  <1>2. r \in Seqs /\ \E l \in Int : p + j = l * SeqMod + r
    BY <1>1, PlusModulus
  <1> HIDE DEF p, r
  <1>3. PICK k \in Int : a + i = k * SeqMod + p
    BY <1>1
  <1>4. PICK l \in Int : p + j = l * SeqMod + r
    BY <1>2
  <1>5. a \in Int /\ p \in Int /\ r \in Int /\ SeqMod \in Int
    BY <1>1, <1>2, Modulus
  <1>6. a + (i + j) = (k + l) * SeqMod + r
    BY <1>3, <1>4, <1>5
  <1> QED BY <1>2, <1>6, PlusUnique DEF p, r

\* The distance from a number to a later one, when it is less than the space.
LEMMA Distance ==
  ASSUME NEW a \in Seqs, NEW j \in Seqs PROVE (Plus(a, j) - a) % SeqMod = j
  <1> DEFINE p == Plus(a, j)
  <1>1. p \in Seqs /\ \E k \in Int : a + j = k * SeqMod + p
    BY Modulus, PlusModulus
  <1> HIDE DEF p
  <1>2. PICK k \in Int : a + j = k * SeqMod + p
    BY <1>1
  <1>3. a \in Int /\ p \in Int /\ j \in Int /\ SeqMod \in Int
    BY <1>1, Modulus
  <1>4. p - a = (-k) * SeqMod + j
    BY <1>2, <1>3
  <1>5. p - a \in Int /\ -k \in Int
    BY <1>1, Modulus
  <1> QED BY <1>4, <1>5, Modulus DEF p

\* It is never more than what was added.
LEMMA DistanceAtMost ==
  ASSUME NEW a \in Seqs, NEW j \in Nat PROVE (Plus(a, j) - a) % SeqMod <= j
  <1>1. CASE j \in Seqs
    BY <1>1, Distance
  <1>2. CASE j \notin Seqs
    <2>1. Plus(a, j) \in Int /\ a \in Int
      BY PlusModulus, Modulus
    <2>2. (Plus(a, j) - a) % SeqMod \in Seqs
      BY <2>1, Modulus
    <2>3. j >= SeqMod
      BY <1>2, Modulus DEF Seqs
    <2> QED BY <2>2, <2>3, Modulus
  <1> QED BY <1>1, <1>2

\* Different distances lead to different numbers.
LEMMA PlusInjective == \A a, i, j \in Seqs : Plus(a, i) = Plus(a, j) => i = j
  BY Distance

-----------------------------------------------------------------------------
(* What one step does to the bytes its host has received *)

\* The states in which payloads are taken, or may still be on their way to rcv.buf.
Taking == {"SYN_RECEIVED", "ESTABLISHED", "FIN_WAIT_1", "FIN_WAIT_2"}

\* Nothing is received, and no number moves.
Waits(h) ==
    /\ rcv'[h].NXT = rcv[h].NXT /\ rcv'[h].IRS = rcv[h].IRS /\ rcv'[h].early = rcv[h].early
    /\ iface'[h] = iface[h] /\ Received(h)' = Received(h)

\* The connection is opened: VConnect, handleSYN, handleSYNACK.
Opens(h) ==
    /\ state[h] \in {"NONE", "SYN_SENT"}
    /\ ~Connected(h)' \/ rcv'[h].NXT = Plus(rcv'[h].IRS, 1)
    /\ rcv'[h].early \subseteq rcv[h].early /\ iface'[h] = iface[h] /\ iface[h].pc = "idle"
    /\ Received(h) = <<>> /\ Received(h)' = <<>>

\* A payload that is not the next one is kept.
KeepsEarly(h) ==
    /\ \E g \in Wire(Peer(h)) :
          g.data # <<>> /\ rcv'[h].early = rcv[h].early \cup {[seq |-> g.seq, data |-> g.data]}
    /\ rcv'[h].NXT = rcv[h].NXT /\ rcv'[h].IRS = rcv[h].IRS
    /\ iface'[h] = iface[h] /\ Received(h)' = Received(h)

\* The next payload is to be written into rcv.buf.
StartsWrite(h) ==
    /\ iface[h].pc = "idle" /\ state[h] \in Taking /\ state'[h] = state[h]
    /\ \E g \in Wire(Peer(h)) :
          /\ g.data # <<>> /\ g.data \in Bytes /\ g.seq = rcv[h].NXT
          /\ iface'[h].pc = "write" /\ iface'[h].seg = g
          /\ iface'[h].rest = g.data /\ iface'[h].len = Len(g.data)
    /\ rcv'[h] = rcv[h] /\ Received(h)' = Received(h)

\* A part of it has been written.
WritesPart(h) ==
    /\ iface[h].pc = "write" /\ iface'[h].pc = "write" /\ state'[h] = state[h]
    /\ Len(iface[h].rest) > Free(rcv[h].buf)
    /\ \E n \in 1..Len(iface[h].rest) :
          /\ Received(h)' = Received(h) \o SubSeq(iface[h].rest, 1, n)
          /\ iface'[h].rest = SubSeq(iface[h].rest, n + 1, Len(iface[h].rest))
    /\ iface'[h].seg = iface[h].seg /\ iface'[h].len = iface[h].len
    /\ rcv'[h].NXT = rcv[h].NXT /\ rcv'[h].IRS = rcv[h].IRS /\ rcv'[h].early = rcv[h].early

\* All of it has been written; early data may follow.
WritesAll(h) ==
    /\ iface[h].pc = "write"
    /\ Received(h)' = Received(h) \o iface[h].rest
    /\ rcv'[h].NXT = NewNXT(h) /\ rcv'[h].IRS = rcv[h].IRS /\ rcv'[h].early \subseteq rcv[h].early
    /\ \/ iface'[h].pc = "idle"
       \/ /\ iface'[h].pc = "write" /\ iface'[h].seg = iface[h].seg /\ state'[h] = state[h]
          /\ \E e \in rcv[h].early : /\ e.seq = NewNXT(h) /\ e.data \in Bytes
                                     /\ iface'[h].rest = e.data /\ iface'[h].len = Len(e.data)

\* The FIN of the peer is taken.
TakesFIN(h) ==
    /\ \E x \in Wire(Peer(h)) : "FIN" \in x.flags /\ rcv'[h].NXT = Plus(x.seq, 1)
    /\ state'[h] \notin Taking
    /\ rcv'[h].IRS = rcv[h].IRS /\ rcv'[h].early = rcv[h].early
    /\ iface'[h] = iface[h] /\ iface[h].pc = "idle" /\ Received(h)' = Received(h)

ReceiverStep(h) ==
    \/ Waits(h) \/ Opens(h) \/ KeepsEarly(h) \/ StartsWrite(h) \/ WritesPart(h) \/ WritesAll(h)
    \/ TakesFIN(h)

\* Where snd.UNA comes from, and what else of SND the interface goroutine writes.
AckStep(h) ==
    \/ state[h] = "NONE" /\ snd'[h].UNA = snd'[h].ISS
    \/ /\ snd'[h].ISS = snd[h].ISS
       /\ \/ snd'[h].UNA = snd[h].UNA
          \/ \E x \in Wire(Peer(h)) : "ACK" \in x.flags /\ snd'[h].UNA = x.ack
          \/ iface[h].pc = "write" /\ "ACK" \in iface[h].seg.flags /\ snd'[h].UNA = iface[h].seg.ack

Shakes(h) == (h = Server /\ handleSYN(Head(net[h]))) \/ handleSYNACK(h, Head(net[h]))
InterfaceStep(h) == ReceiverStep(h) /\ AckStep(h) /\ (Shakes(h) \/ Kept(snd'[h], snd[h]))

\* The two ends of a handshake start with nothing received.
LEMMA OpensSilent ==
  ASSUME HInv, NEW h \in Hosts, state[h] \in {"NONE", "SYN_SENT"}
  PROVE  ~Connected(h) /\ Silent(h)
  <1>1. CASE h = Client
    BY <1>1 DEF HInv, SilentInv, Agreed, Connected
  <1>2. CASE h = Server
    BY <1>2, ConstantsAssumption DEF HInv, SilentInv, AInv, Connected
  <1> QED BY <1>1, <1>2 DEF Hosts

\* Nothing of the socket's receiving side is touched.
LEMMA NothingReceived ==
  ASSUME NEW h, rcv'[h] = rcv[h], iface'[h] = iface[h], delivered'[h] = delivered[h]
  PROVE  Waits(h)
  BY DEF Waits, Received

\* The handlers that open the connection.
LEMMA HandshakeReceives ==
  ASSUME HInv, NEW h \in Hosts, Step(h), Shakes(h)
  PROVE  Opens(h) /\ AckStep(h)
  <1> DEFINE g == Head(net[h])
  <1>0. IInv /\ rcv \in [Hosts -> RCV] /\ snd \in [Hosts -> SND] /\ g = Head(net[h])
    BY Owned DEF HInv
  <1>1. Receives(h, g) => g \in Wire(Peer(h)) /\ g \in Segments
    BY <1>0, HeadWire
  <1> HIDE DEF g
  <1>2. CASE h = Server /\ handleSYN(g)
    <2>1. state[h] = "NONE" /\ iface' = iface /\ delivered' = delivered
      BY <1>2 DEF handleSYN, threads, history
    <2>2. delivered[h] \o rcv[h].buf = <<>> /\ iface[h].pc = "idle"
      BY <2>1, OpensSilent DEF Silent, Received
    <2>3. delivered[h] \in Bytes /\ rcv[h].buf \in Bytes
      BY <1>0, Owned DEF RCV
    <2>4. delivered[h] = <<>>
      BY <2>2, <2>3, ConcatEqualIffEmpty DEF Bytes
    <2>5. /\ rcv'[h].buf = <<>> /\ rcv'[h].early = {} /\ rcv'[h].IRS = g.seq
          /\ rcv'[h].NXT = Plus(g.seq, 1)
      BY <1>0, <1>2 DEF handleSYN, NewRCV
    <2>6. Received(h)' = <<>>
      BY <2>1, <2>4, <2>5 DEF Received
    <2>7. Opens(h)
      BY <2>1, <2>2, <2>5, <2>6 DEF Opens, Received
    <2>8. snd'[h].UNA = snd'[h].ISS
      BY <1>0, <1>2 DEF handleSYN, Tracked, NewSND
    <2> QED BY <2>1, <2>7, <2>8 DEF AckStep
  <1>3. CASE handleSYNACK(h, g)
    <2>1. state[h] = "SYN_SENT" /\ iface' = iface /\ delivered' = delivered
      BY <1>3 DEF handleSYNACK, history
    <2>2. Received(h) = <<>> /\ iface[h].pc = "idle"
      BY <2>1, OpensSilent DEF Silent
    <2>3. /\ rcv'[h].buf = rcv[h].buf /\ rcv'[h].early = rcv[h].early /\ rcv'[h].IRS = g.seq
          /\ rcv'[h].NXT = Plus(g.seq, 1)
      BY <1>0, <1>3 DEF handleSYNACK, RCV
    <2>4. Opens(h)
      BY <2>1, <2>2, <2>3 DEF Opens, Received
    <2>5. snd'[h].UNA = g.ack /\ snd'[h].ISS = snd[h].ISS /\ g \in Wire(Peer(h)) /\ "ACK" \in g.flags
      BY <1>0, <1>1, <1>3 DEF handleSYNACK, SND
    <2> QED BY <2>4, <2>5 DEF AckStep
  <1> QED BY <1>2, <1>3 DEF Shakes, g

\* Joining three buffers.
LEMMA Regroup ==
  ASSUME NEW a \in Bytes, NEW b \in Bytes, NEW c \in Bytes PROVE a \o (b \o c) = (a \o b) \o c
  <1>1. a \in Seq(Nat) /\ b \in Seq(Nat) /\ c \in Seq(Nat)
    BY DEF Bytes
  <1>2. (a \o b) \o c = a \o (b \o c)
    BY <1>1
  <1> QED BY <1>2

\* The handlers and the rest of the interface goroutine.
LEMMA ReceivingReceives ==
  ASSUME HInv, NEW h \in Hosts, Step(h), Receiving(h) PROVE InterfaceStep(h)
  <1> DEFINE g == Head(net[h])
  <1>0. /\ IInv /\ state \in [Hosts -> States] /\ snd \in [Hosts -> SND] /\ rcv \in [Hosts -> RCV]
        /\ iface \in [Hosts -> IFACE] /\ g = Head(net[h]) /\ snd[h] \in SND /\ rcv[h] \in RCV
    BY Owned DEF HInv
  <1>g. Receives(h, g) => /\ g \in Wire(Peer(h)) /\ g \in Segments /\ g.ack \in Seqs /\ g.data \in Bytes
                          /\ iface[h].pc = "idle"
    BY <1>0, HeadWire DEF Segments, Receives
  <1> HIDE DEF g
  <1>k. Kept(snd[h], snd[h]) /\ (snd'[h] = snd[h] => Kept(snd'[h], snd[h]) /\ AckStep(h))
    BY DEF Kept, AckStep
  <1>a. ASSUME Kept(snd'[h], snd[h]), snd'[h].UNA = snd[h].UNA PROVE AckStep(h)
    BY <1>a DEF Kept, AckStep
  <1>1. CASE (h = Server /\ handleSYN(g)) \/ handleSYNACK(h, g)
    <2>1. Shakes(h)
      BY <1>0, <1>1 DEF Shakes
    <2> QED BY <2>1, HandshakeReceives DEF InterfaceStep, ReceiverStep
  <1>2. CASE handleACK(h, g)
    <2> DEFINE s == cleanUpInFlightPackets(snd[h], g.ack)
    <2>1. s \in SND /\ Kept(s, snd[h]) /\ s.UNA = snd[h].UNA
      BY <1>0, <1>2, <1>g, CleanUpKeeps, CleanUpType DEF handleACK
    <2>2. snd'[h] = [s EXCEPT !.timer = s.inFlight # {}]
      BY <1>0, <1>2 DEF handleACK
    <2> HIDE DEF s
    <2>3. Kept(snd'[h], snd[h]) /\ snd'[h].UNA = snd[h].UNA
      BY <2>1, <2>2 DEF SND, Kept
    <2>4. Waits(h)
      BY <1>2, NothingReceived DEF handleACK, threads, history
    <2> QED BY <1>a, <2>3, <2>4 DEF InterfaceStep, ReceiverStep
  <1>3. CASE handleEstablishedPacket(h, g)
    <2> DEFINE s == [snd[h] EXCEPT !.WND = g.wnd]
               x == [seq |-> g.seq, data |-> g.data]
               r == IF g.data = <<>> THEN rcv[h] ELSE [rcv[h] EXCEPT !.early = @ \cup {x}]
               c == state[h] \in FinWait /\ "ACK" \in g.flags
    <2>1. /\ AfterData(h, s, r, g, c) /\ g \in Segments /\ g \in Wire(Peer(h)) /\ iface' = iface
          /\ delivered' = delivered
      BY <1>3, <1>g DEF handleEstablishedPacket, threads, history
    <2>2. s \in SND /\ Kept(s, snd[h]) /\ s.UNA = snd[h].UNA
      BY <1>0, <2>1 DEF SND, Segments, Kept
    <2>3. /\ r \in RCV /\ r.IRS = rcv[h].IRS /\ r.buf = rcv[h].buf /\ r.NXT = rcv[h].NXT
          /\ \/ r.early = rcv[h].early
             \/ g.data # <<>> /\ r.early = rcv[h].early \cup {x}
      <3>1. x \in Early
        BY <2>1 DEF Early, Segments
      <3> HIDE DEF x
      <3>2. rcv[h].early \cup {x} \in SUBSET Early
        BY <1>0, <3>1 DEF RCV
      <3> QED BY <1>0, <3>2 DEF RCV
    <2>4. c \in BOOLEAN
      OBVIOUS
    <2> HIDE DEF s, r, c
    <2>5. /\ Kept(snd'[h], s)
          /\ snd'[h].UNA = s.UNA \/ ("ACK" \in g.flags /\ snd'[h].UNA = g.ack)
          /\ rcv'[h].IRS = r.IRS /\ rcv'[h].NXT = r.NXT /\ rcv'[h].buf = r.buf /\ rcv'[h].early = r.early
      BY <1>0, <2>1, <2>2, <2>3, <2>4, AfterDataKeeps
    <2>6. Kept(snd'[h], snd[h]) /\ AckStep(h)
      BY <2>1, <2>2, <2>5 DEF Kept, AckStep
    <2>7. Waits(h) \/ KeepsEarly(h)
      BY <2>1, <2>3, <2>5 DEF Waits, KeepsEarly, Received
    <2> QED BY <2>6, <2>7 DEF InterfaceStep, ReceiverStep
  <1>4. CASE handleData(h, g)
    <2>1. Kept(snd'[h], snd[h]) /\ snd'[h].UNA = snd[h].UNA
      BY <1>0, <1>4 DEF handleData, SND, Kept
    <2>2. /\ iface'[h].pc = "write" /\ iface'[h].seg = g
          /\ iface'[h].rest = g.data /\ iface'[h].len = Len(g.data)
      BY <1>0, <1>4 DEF handleData
    <2>3. /\ g \in Wire(Peer(h)) /\ g.data # <<>> /\ g.data \in Bytes /\ g.seq = rcv[h].NXT
          /\ iface[h].pc = "idle" /\ state[h] \in Taking /\ state' = state /\ rcv' = rcv
      BY <1>4, <1>g DEF handleData, Taking, FinWait
    <2>4. Received(h)' = Received(h)
      BY <1>4 DEF handleData, history, Received
    <2>5. StartsWrite(h)
      BY <2>2, <2>3, <2>4 DEF StartsWrite
    <2> QED BY <1>a, <2>1, <2>5 DEF InterfaceStep, ReceiverStep
  <1>5. CASE handleFIN(h, g)
    <2>1. Kept(snd'[h], snd[h]) /\ snd'[h].UNA = snd[h].UNA
      BY <1>0, <1>5, <1>g, CleanUpKeeps DEF handleFIN
    <2>2. /\ rcv'[h].IRS = rcv[h].IRS /\ rcv'[h].buf = rcv[h].buf /\ rcv'[h].early = rcv[h].early
          /\ rcv'[h].NXT = Plus(g.seq, 1)
      BY <1>0, <1>5 DEF handleFIN, RCV
    <2>3. state'[h] \in {"CLOSE_WAIT", "TIME_WAIT"}
      BY <1>0, <1>5 DEF handleFIN
    <2>4. "FIN" \in g.flags /\ g \in Wire(Peer(h)) /\ iface' = iface /\ delivered' = delivered
      BY <1>5, <1>g DEF handleFIN, threads, history
    <2>5. TakesFIN(h)
      BY <1>5, <1>g, <2>2, <2>3, <2>4 DEF handleFIN, TakesFIN, Taking, Received
    <2> QED BY <1>a, <2>1, <2>5 DEF InterfaceStep, ReceiverStep
  <1>6. CASE handleClosingACK(h, g)
    <2>1. Kept(snd'[h], snd[h]) /\ snd'[h].UNA = snd[h].UNA
      BY <1>0, <1>6, <1>g, ClosingKeeps DEF handleClosingACK
    <2>2. /\ rcv'[h].IRS = rcv[h].IRS /\ rcv'[h].buf = rcv[h].buf /\ rcv'[h].NXT = rcv[h].NXT
          /\ rcv'[h].early = rcv[h].early
      BY <1>0, <1>6 DEF handleClosingACK, RCV
    <2>3. Waits(h)
      BY <1>6, <2>2 DEF handleClosingACK, threads, history, Waits, Received
    <2> QED BY <1>a, <2>1, <2>3 DEF InterfaceStep, ReceiverStep
  <1>7. CASE handleRST(h, g) \/ ignore(h, g)
    <2>1. Waits(h) /\ snd' = snd
      BY <1>7, NothingReceived DEF handleRST, ignore, sockets, threads, history
    <2> QED BY <1>k, <2>1 DEF InterfaceStep, ReceiverStep
  <1>8. CASE rcvBufWrite(h)
    <2> DEFINE rest == iface[h].rest
               n == Free(rcv[h].buf)
               b == rcv[h].buf \o SubSeq(rest, 1, n)
    <2>1. /\ iface[h].pc = "write" /\ n > 0 /\ Len(rest) > n
          /\ rcv' = [rcv EXCEPT ![h].buf = b]
          /\ iface' = [iface EXCEPT ![h].rest = SubSeq(rest, n + 1, Len(rest))]
          /\ state' = state /\ snd' = snd /\ delivered' = delivered
      BY <1>8 DEF rcvBufWrite, history
    <2>2. n \in 1..Len(rest)
      <3>1. n \in Int
        BY <1>0, HostType, ConstantsAssumption DEF Free
      <3>2. Len(rest) \in Nat
        BY <1>0, Owned DEF Bytes
      <3> HIDE DEF n, rest
      <3> QED BY <2>1, <3>1, <3>2
    <2>3. Received(h)' = Received(h) \o SubSeq(rest, 1, n)
      <3>1. rcv'[h].buf = b
        BY <1>0, <2>1 DEF RCV
      <3>2. delivered[h] \in Bytes /\ rcv[h].buf \in Bytes /\ SubSeq(rest, 1, n) \in Bytes
        BY <1>0, <2>2, Owned, Cut DEF RCV
      <3> HIDE DEF n, rest
      <3>3. Received(h)' = delivered[h] \o (rcv[h].buf \o SubSeq(rest, 1, n))
        BY <2>1, <3>1 DEF Received
      <3>4. @ = (delivered[h] \o rcv[h].buf) \o SubSeq(rest, 1, n)
        BY <3>2, Regroup
      <3> QED BY <3>3, <3>4 DEF Received
    <2>f. n = Free(rcv[h].buf)
      OBVIOUS
    <2> HIDE DEF n, b
    <2>4. /\ iface'[h].pc = "write" /\ iface'[h].seg = iface[h].seg /\ iface'[h].len = iface[h].len
          /\ iface'[h].rest = SubSeq(rest, n + 1, Len(rest))
      BY <1>0, <2>1 DEF IFACE
    <2>5. /\ rcv'[h].NXT = rcv[h].NXT /\ rcv'[h].IRS = rcv[h].IRS /\ rcv'[h].early = rcv[h].early
      BY <1>0, <2>1 DEF RCV
    <2>6. WritesPart(h)
      BY <2>f, <2>1, <2>2, <2>3, <2>4, <2>5 DEF WritesPart
    <2> QED BY <1>k, <2>1, <2>6 DEF InterfaceStep, ReceiverStep
  <1>9. CASE processInOrderData(h)
    <2>1. iface[h].pc = "write" /\ delivered' = delivered /\ iface[h].seg \in Segments
      BY <1>0, <1>9, Owned DEF processInOrderData, history
    <2>2. /\ delivered[h] \in Bytes /\ rcv[h].buf \in Bytes /\ iface[h].rest \in Bytes
          /\ FullRCV(h) \in RCV /\ FullRCV(h).IRS = rcv[h].IRS /\ FullRCV(h).buf = Filled(h)
          /\ FullRCV(h).NXT = NewNXT(h) /\ FullRCV(h).early = rcv[h].early
      BY <1>0, <1>9, FullType, Owned DEF RCV
    <2>3. ASSUME rcv'[h].buf = Filled(h) PROVE Received(h)' = Received(h) \o iface[h].rest
      <3>1. Received(h)' = delivered[h] \o (rcv[h].buf \o iface[h].rest)
        BY <2>1, <2>3 DEF Received, Filled
      <3>2. @ = (delivered[h] \o rcv[h].buf) \o iface[h].rest
        BY <2>2, Regroup
      <3> QED BY <3>1, <3>2 DEF Received
    <2>4. ASSUME NEW e, GoesOn(h, e) PROVE InterfaceStep(h)
      <3>1. /\ rcv'[h].buf = Filled(h) /\ rcv'[h].NXT = NewNXT(h) /\ rcv'[h].IRS = rcv[h].IRS
            /\ rcv'[h].early \subseteq rcv[h].early
        BY <1>0, <2>4 DEF GoesOn, RCV
      <3>2. /\ iface'[h].pc = "write" /\ iface'[h].seg = iface[h].seg
            /\ iface'[h].rest = e.data /\ iface'[h].len = Len(e.data)
        BY <1>0, <2>1, <2>4 DEF GoesOn, IFACE
      <3>3. e \in rcv[h].early /\ e.seq = NewNXT(h) /\ state' = state /\ snd' = snd
        BY <2>4 DEF GoesOn
      <3>4. e.data \in Bytes
        BY <1>0, <3>3 DEF RCV, Early
      <3>5. WritesAll(h)
        BY <2>1, <2>3, <3>1, <3>2, <3>3, <3>4 DEF WritesAll
      <3> QED BY <1>k, <3>3, <3>5 DEF InterfaceStep, ReceiverStep
    <2>5. CASE Finishes(h)
      <3>1. /\ Kept(snd'[h], snd[h])
            /\ \/ snd'[h].UNA = snd[h].UNA
               \/ "ACK" \in iface[h].seg.flags /\ snd'[h].UNA = iface[h].seg.ack
            /\ rcv'[h].IRS = rcv[h].IRS /\ rcv'[h].NXT = NewNXT(h) /\ rcv'[h].buf = Filled(h)
            /\ rcv'[h].early = rcv[h].early
        BY <1>0, <2>1, <2>2, <2>5, Owned, AfterDataKeeps DEF Finishes
      <3>2. iface'[h].pc = "idle"
        BY <1>0, <2>5 DEF Finishes, IfaceIdle
      <3>3. WritesAll(h)
        BY <2>1, <2>3, <3>1, <3>2 DEF WritesAll
      <3>4. AckStep(h)
        BY <2>1, <3>1 DEF AckStep, Kept
      <3> QED BY <3>1, <3>3, <3>4 DEF InterfaceStep, ReceiverStep
    <2> QED BY <1>9, <2>4, <2>5, InOrderCases
  <1> QED
    BY <1>1, <1>2, <1>3, <1>4, <1>5, <1>6, <1>7, <1>8, <1>9 DEF Receiving, HandlePacket, g

\* A buffer is its beginning and its end.
LEMMA Halves ==
  ASSUME NEW b \in Bytes, NEW n \in 0..Len(b)
  PROVE  SubSeq(b, 1, n) \o SubSeq(b, n + 1, Len(b)) = b
  <1>1. b \in Seq(Nat) /\ Len(b) \in Nat
    BY DEF Bytes
  <1>2. 1 \in 1..(Len(b) + 1) /\ n \in (1 - 1)..Len(b) /\ Len(b) \in n..Len(b)
    BY <1>1
  <1>3. SubSeq(b, 1, n) \o SubSeq(b, n + 1, Len(b)) = SubSeq(b, 1, Len(b))
    BY <1>1, <1>2, ConcatAdjacentSubSeq, Zenon
  <1> QED BY <1>1, <1>3, SubSeqFull

\* Reading takes bytes from rcv.buf and hands them to the application.
LEMMA ReadReceives ==
  ASSUME IInv, NEW h \in Hosts, VReadReturn(h)
  PROVE  /\ Waits(h)
         /\ \E n \in 0..Len(rcv[h].buf) :
               /\ repl[h].n > 0 => n > 0
               /\ delivered' = [delivered EXCEPT ![h] = @ \o SubSeq(rcv[h].buf, 1, n)]
               /\ rcv'[h].buf = SubSeq(rcv[h].buf, n + 1, Len(rcv[h].buf))
  <1> DEFINE buf == rcv[h].buf
             n == Smaller(repl[h].n, Len(buf))
             a == SubSeq(buf, 1, n)
             b == SubSeq(buf, n + 1, Len(buf))
  <1>1. /\ buf # <<>> /\ iface' = iface
        /\ rcv' = [rcv EXCEPT ![h] = [@ EXCEPT !.buf = b, !.WND = Free(b)]]
        /\ delivered' = [delivered EXCEPT ![h] = @ \o a]
    BY DEF VReadReturn
  <1>2. buf \in Bytes /\ Len(buf) \in Nat /\ repl[h].n \in Nat /\ delivered[h] \in Bytes /\ Len(buf) # 0
    <2>1. buf \in Bytes /\ Len(buf) \in Nat /\ repl[h].n \in Nat /\ delivered[h] \in Bytes
      BY HostType, Owned
    <2>2. Len(buf) # 0
      BY <1>1, <2>1, EmptySeq DEF Bytes
    <2> QED BY <2>1, <2>2
  <1>3. n \in 0..Len(buf) /\ (repl[h].n > 0 => n > 0)
    BY <1>2 DEF Smaller
  <1> HIDE DEF n
  <1>4. a \in Bytes /\ b \in Bytes /\ a \o b = buf
    BY <1>2, <1>3, Cut, Halves
  <1>5. /\ rcv'[h].buf = b /\ rcv'[h].NXT = rcv[h].NXT /\ rcv'[h].IRS = rcv[h].IRS
        /\ rcv'[h].early = rcv[h].early
    <2> HIDE DEF b
    <2> QED BY <1>1, Owned DEF RCV
  <1>6. delivered'[h] = delivered[h] \o a
    <2> HIDE DEF a
    <2> QED BY <1>1, Owned
  <1>7. Received(h)' = (delivered[h] \o a) \o b
    BY <1>5, <1>6 DEF Received
  <1>8. @ = delivered[h] \o (a \o b)
    BY <1>2, <1>4, Regroup
  <1>9. Received(h)' = Received(h)
    BY <1>4, <1>7, <1>8 DEF Received
  <1> QED BY <1>1, <1>3, <1>5, <1>9 DEF Waits

\* VConnect, which fills in the socket of the client.
LEMMA VConnectReceives == ASSUME HInv, VConnect PROVE ReceiverStep(Client) /\ AckStep(Client)
  <1> DEFINE h == Client
  <1>0. IInv /\ h \in Hosts /\ state[h] = "NONE" /\ iface' = iface /\ delivered' = delivered
    BY DEF HInv, VConnect, Hosts, history
  <1>1. PICK isn \in ISNs[h] : VConnect!3!(isn)
    BY DEF VConnect
  <1>2. /\ rcv'[h].buf = <<>> /\ rcv'[h].early = {}
    BY <1>0, <1>1, Owned DEF NewRCV
  <1>3. snd'[h].UNA = snd'[h].ISS
    BY <1>0, <1>1, Owned DEF Tracked, NewSND
  <1>4. ~Connected(h) /\ Silent(h)
    BY <1>0, OpensSilent
  <1>5. ~Connected(h)'
    BY <1>4 DEF Connected, VConnect
  <1>6. Received(h) = <<>> /\ delivered[h] \in Bytes /\ rcv[h].buf \in Bytes
    BY <1>0, <1>4, Owned DEF Silent, RCV
  <1>7. delivered[h] = <<>>
    BY <1>6, ConcatEqualIffEmpty DEF Bytes, Received
  <1>8. Received(h)' = <<>>
    BY <1>0, <1>2, <1>7 DEF Received
  <1>9. Opens(h)
    BY <1>0, <1>2, <1>4, <1>5, <1>6, <1>8 DEF Opens, Silent
  <1> QED BY <1>0, <1>3, <1>9 DEF ReceiverStep, AckStep

\* TryWrite leaves the numbers alone.
LEMMA TryWriteKeeps ==
  ASSUME IInv, NEW h \in Hosts, NEW d, TryWrite(h, d)
  PROVE  snd'[h].UNA = snd[h].UNA /\ snd'[h].ISS = snd[h].ISS /\ snd'[h].NXT = snd[h].NXT
  <1>1. PICK b : snd' = [snd EXCEPT ![h].buf = b]
    BY DEF TryWrite
  <1> QED BY <1>1, Owned DEF SND

\* Retransmission works on the list, the count and the timer only.
LEMMA RetransmittingKeeps ==
  ASSUME IInv, NEW h \in Hosts, Retransmitting(h)
  PROVE  /\ snd'[h].UNA = snd[h].UNA /\ snd'[h].ISS = snd[h].ISS
         /\ snd'[h].NXT = snd[h].NXT /\ snd'[h].buf = snd[h].buf
  <1>0. snd \in [Hosts -> SND] /\ snd[h] \in SND
    BY Owned
  <1>1. CASE retransmitPacket(h) \/ nothingToRetransmit(h)
    BY <1>0, <1>1 DEF retransmitPacket, nothingToRetransmit, SND
  <1>2. CASE relistPacket(h)
    <2> DEFINE f == {q \in snd[h].inFlight : q.seq # rtx[h].pkt.seq}
               l == IF f = {} THEN 0 ELSE snd[h].place
               p == [rtx[h].pkt EXCEPT !.len = 0]
               s == [snd[h] EXCEPT !.inFlight = f, !.place = l]
    <2>1. snd'[h] = [Tracked(s, p) EXCEPT !.retransmissions = @ + 1, !.timer = TRUE]
      BY <1>0, <1>2 DEF relistPacket
    <2> HIDE DEF p, f, l
    <2>2. s.UNA = snd[h].UNA /\ s.ISS = snd[h].ISS /\ s.NXT = snd[h].NXT /\ s.buf = snd[h].buf /\ DOMAIN s = DOMAIN snd[h]
      BY <1>0 DEF SND
    <2> HIDE DEF s
    <2> QED BY <1>0, <2>1, <2>2 DEF Tracked, SND
  <1>3. CASE giveUp(h)
    <2>1. [snd[h] EXCEPT !.timer = FALSE] \in SND
      BY <1>0 DEF SND
    <2>2. CASE sendFIN(h, [snd[h] EXCEPT !.timer = FALSE])
      BY <1>0, <2>1, <2>2, FINKeeps DEF SND
    <2>3. CASE snd' = [snd EXCEPT ![h].timer = FALSE]
      BY <1>0, <2>3 DEF SND
    <2> QED BY <1>3, <2>2, <2>3 DEF giveUp
  <1>4. CASE giveUpReturn(h)
    BY <1>4 DEF giveUpReturn
  <1> QED BY <1>1, <1>2, <1>3, <1>4 DEF Retransmitting

\* What the application and the retransmission goroutine write of SND.
LEMMA OthersUNA ==
  ASSUME IInv, NEW h \in Hosts,
         Application(h) \/ VReadReturn(h) \/ VCloseReturn(h) \/ Sending(h) \/ Probing(h) \/ Retransmitting(h)
  PROVE  snd'[h].UNA = snd[h].UNA /\ snd'[h].ISS = snd[h].ISS
  <1>0. snd \in [Hosts -> SND] /\ snd[h] \in SND
    BY Owned
  <1>1. CASE VWrite(h) \/ VWriteLoop(h)
    <2>1. snd' = snd \/ \E d : TryWrite(h, d)
      BY <1>1 DEF VWrite, VWriteLoop
    <2> QED BY <2>1, TryWriteKeeps
  <1>2. CASE VClose(h)
    BY <1>0, <1>2, FINKeeps DEF VClose
  <1>3. CASE VRead(h) \/ sendRST(h) \/ VReadReturn(h) \/ VCloseReturn(h) \/ giveUpReturn(h)
             \/ sendZeroWindowProbe(h)
    BY <1>3 DEF VRead, sendRST, VReadReturn, VCloseReturn, giveUpReturn, sendZeroWindowProbe, sockets
  <1>4. CASE trySendData(h) \/ startTimer(h) \/ startProbing(h) \/ probingEnds(h)
    <2>1. CASE trySendData(h)
      BY <1>0, <2>1 DEF trySendData, SND
    <2>2. CASE startTimer(h) \/ startProbing(h)
      BY <1>0, <2>2 DEF startTimer, startProbing, SND
    <2>3. CASE probingEnds(h)
      BY <1>0, <2>3 DEF probingEnds, SND
    <2> QED BY <1>4, <2>1, <2>2, <2>3
  <1>5. CASE trackPacket(h)
    <2> DEFINE p == Packet({"ACK"}, snd[h].NXT, Len(repl[h].seg), 0, repl[h].seg)
               m == Plus(snd[h].NXT, Len(repl[h].seg))
    <2>1. snd'[h] = [Tracked(snd[h], p) EXCEPT !.NXT = m]
      BY <1>0, <1>5 DEF trackPacket
    <2> HIDE DEF p, m
    <2> QED BY <1>0, <2>1 DEF Tracked, SND
  <1>6. CASE Retransmitting(h)
    BY <1>6, RetransmittingKeeps
  <1> QED BY <1>1, <1>2, <1>3, <1>4, <1>5, <1>6 DEF Application, Sending, Probing

\* Every step.
LEMMA StepReceives ==
  ASSUME HInv, NEW h \in Hosts, Step(h) PROVE ReceiverStep(h) /\ AckStep(h)
  <1>0. IInv
    BY DEF HInv
  <1>1. CASE h = Client /\ VConnect
    BY <1>1, VConnectReceives
  <1>2. CASE Receiving(h)
    BY <1>2, ReceivingReceives DEF InterfaceStep
  <1>3. CASE VConnectReturn \/ HandshakeTimeout \/ VAccept \/ TimeWaitExpires(h) \/ Fault(h)
    <2>1. snd' = snd /\ rcv' = rcv /\ iface' = iface /\ delivered' = delivered
      BY <1>3 DEF VConnectReturn, HandshakeTimeout, VAccept, TimeWaitExpires, Fault, sockets, threads, history
    <2> QED BY <2>1, NothingReceived DEF ReceiverStep, AckStep
  <1>4. CASE VReadReturn(h)
    BY <1>0, <1>4, ReadReceives, OthersUNA DEF ReceiverStep, AckStep
  <1>5. CASE Application(h) \/ VCloseReturn(h) \/ Sending(h) \/ Probing(h) \/ Retransmitting(h)
    <2>1. rcv' = rcv /\ iface' = iface /\ delivered' = delivered
      BY <1>5 DEF Application, VWrite, VRead, VClose, sendRST, VCloseReturn,
                  Sending, VWriteLoop, trySendData, startTimer, trackPacket,
                  Probing, startProbing, sendZeroWindowProbe, probingEnds,
                  Retransmitting, retransmitPacket, relistPacket, nothingToRetransmit, giveUp, giveUpReturn,
                  sockets, threads, history
    <2> QED BY <1>0, <1>5, <2>1, NothingReceived, OthersUNA DEF ReceiverStep, AckStep
  <1> QED BY <1>1, <1>2, <1>3, <1>4, <1>5 DEF Step

-----------------------------------------------------------------------------
(* What rcv.NXT counts *)

\* How much of the payload that is being written rcv.NXT does not count yet.
Partial(h) == IF iface[h].pc = "write" THEN iface[h].len - Len(iface[h].rest) ELSE 0

\* The bytes that rcv.NXT counts.
Taken(h) == Len(Received(h)) - Partial(h)

\* A payload is written in a state that takes payloads, whoever closes meanwhile.
WritingInv ==
    \A h \in Hosts :
       iface[h].pc = "write" => state[h] \in Taking /\ Partial(h) \in 0..Len(Received(h))

\* rcv.NXT is one more than the bytes received, until a FIN is counted too.
NxtInv ==
    \A h \in Hosts :
       Connected(h) /\ (BeforeFIN(Peer(h)) \/ state[h] \in Taking) =>
          rcv[h].NXT = Plus(rcv[h].IRS, 1 + Taken(h))

\* The numbers that acknowledge something the peer of h has received.
Acks(h) == {Plus(snd[h].ISS, 1 + j) : j \in 0..Len(Received(Peer(h)))}

\* Until h closes every acknowledgement that it has seen, holds in its hands or
\* may still receive is one of them.
AcksInv ==
    \A h \in Hosts : BeforeFIN(h) =>
       /\ snd[h].UNA = snd[h].ISS \/ snd[h].UNA \in Acks(h)
       /\ \A x \in Wire(Peer(h)) : "ACK" \in x.flags => x.ack \in Acks(h)
       /\ iface[h].pc = "write" /\ "ACK" \in iface[h].seg.flags => iface[h].seg.ack \in Acks(h)

CInv == HInv /\ WritingInv /\ NxtInv /\ AcksInv

\* A host becomes connected by the segment that opens the connection.
LEMMA NewlyConnected ==
  ASSUME HInv, NEW h \in Hosts, Step(h), ~Connected(h), Connected(h)' PROVE Opens(h)
  <1>0. /\ Silent(h) /\ h \in {Client, Server} /\ Client # Server
        /\ h = Client => ~conn.established /\ conn'.established
        /\ h = Server => state[h] = "NONE" /\ state'[h] # "NONE"
    BY ConstantsAssumption DEF HInv, SilentInv, Connected, Hosts
  <1>t. state \in [Hosts -> States]
    BY Owned DEF HInv
  <1>1. CASE h = Client /\ (VConnect \/ VConnectReturn \/ HandshakeTimeout)
    <2>1. conn \in [pc : {"idle", "waiting", "ok", "timeout"}, established : BOOLEAN]
      BY DEF HInv, IInv, TypeOK
    <2> QED BY <1>0, <1>1, <2>1 DEF VConnect, VConnectReturn, HandshakeTimeout
  <1>2. CASE h = Server /\ VAccept
    BY <1>0, <1>2 DEF VAccept, sockets, threads
  <1>3. CASE Application(h) \/ VReadReturn(h) \/ Fault(h)
    BY <1>0, <1>3 DEF Application, VWrite, VRead, VClose, sendRST, VReadReturn, Fault, sockets, threads
  <1>4. CASE Sending(h) \/ Probing(h)
    BY <1>0, <1>4 DEF Sending, VWriteLoop, trySendData, startTimer, trackPacket,
                      Probing, startProbing, sendZeroWindowProbe, probingEnds, sockets
  <1>5. CASE VCloseReturn(h) \/ giveUpReturn(h)
    BY <1>0, <1>5 DEF VCloseReturn, giveUpReturn, Silent
  <1>6. CASE Retransmitting(h) /\ ~giveUpReturn(h)
    BY <1>0, <1>6 DEF Retransmitting, retransmitPacket, relistPacket, nothingToRetransmit, giveUp, threads
  <1>7. CASE TimeWaitExpires(h)
    BY <1>0, <1>7 DEF TimeWaitExpires, threads
  <1>8. CASE Receiving(h)
    <2> DEFINE g == Head(net[h])
    <2>1. CASE (h = Server /\ handleSYN(g)) \/ handleSYNACK(h, g)
      BY <2>1, HandshakeReceives DEF Shakes
    <2>2. CASE handleACK(h, g) \/ handleFIN(h, g) \/ handleClosingACK(h, g)
      BY <1>0, <2>2 DEF handleACK, handleFIN, handleClosingACK, FinWait, threads
    <2>3. CASE handleEstablishedPacket(h, g) \/ handleData(h, g)
      BY <1>0, <2>3 DEF handleEstablishedPacket, handleData, FinWait, threads
    <2>4. CASE handleRST(h, g) \/ ignore(h, g)
      BY <1>0, <2>4 DEF handleRST, ignore, sockets, threads
    <2>5. CASE rcvBufWrite(h) \/ processInOrderData(h)
      BY <1>0, <2>5 DEF rcvBufWrite, processInOrderData, Silent
    <2> QED BY <1>8, <2>1, <2>2, <2>3, <2>4, <2>5 DEF Receiving, HandlePacket
  <1> QED BY <1>1, <1>2, <1>3, <1>4, <1>5, <1>6, <1>7, <1>8 DEF Step, Retransmitting

\* A payload goes on being taken while others close the connection.
LEMMA StaysTaking ==
  ASSUME HInv, NEW h \in Hosts, Step(h), iface[h].pc = "write", state[h] \in Taking
  PROVE  state'[h] \in Taking
  <1>0. IInv /\ state \in [Hosts -> States]
    BY Owned DEF HInv
  <1>1. CASE h = Client /\ (VConnect \/ VConnectReturn \/ HandshakeTimeout)
    BY <1>0, <1>1 DEF VConnect, VConnectReturn, HandshakeTimeout, Taking, sockets
  <1>2. CASE h = Server /\ VAccept
    BY <1>2 DEF VAccept, sockets
  <1>3. CASE Application(h) \/ VReadReturn(h) \/ Fault(h)
    BY <1>3 DEF Application, VWrite, VRead, VClose, sendRST, VReadReturn, Fault, sockets
  <1>4. CASE Sending(h) \/ Probing(h)
    BY <1>4 DEF Sending, VWriteLoop, trySendData, startTimer, trackPacket,
                Probing, startProbing, sendZeroWindowProbe, probingEnds, sockets
  <1>5. CASE VCloseReturn(h) \/ giveUpReturn(h)
    <2>1. state'[h] = CloseState(state[h])
      BY <1>0, <1>5 DEF VCloseReturn, giveUpReturn, closeEnds
    <2> QED BY <2>1 DEF CloseState, Taking
  <1>6. CASE Retransmitting(h) /\ ~giveUpReturn(h)
    BY <1>6 DEF Retransmitting, retransmitPacket, relistPacket, nothingToRetransmit, giveUp
  <1>7. CASE TimeWaitExpires(h)
    BY <1>7 DEF TimeWaitExpires, Taking
  <1>8. CASE Receiving(h)
    <2>1. rcvBufWrite(h) \/ processInOrderData(h)
      BY <1>8 DEF Receiving, HandlePacket, Receives, handleSYN, handleSYNACK, handleACK,
                  handleEstablishedPacket, handleData, handleFIN, handleClosingACK, handleRST, ignore
    <2>2. CASE Finishes(h) /\ processInOrderData(h)
      <3>1. FullRCV(h) \in RCV /\ snd[h] \in SND /\ iface[h].seg \in Segments /\ iface[h].closing \in BOOLEAN
        BY <1>0, <2>2, FullType, Owned, HostType
      <3>2. state'[h] = state[h] \/ state'[h] = ClosingState(state[h])
        BY <1>0, <2>2, <3>1, AfterDataKeeps DEF Finishes
      <3> QED BY <3>2 DEF ClosingState, Taking
    <2>3. ASSUME NEW e, GoesOn(h, e) PROVE state' = state
      BY <2>3 DEF GoesOn
    <2>4. CASE rcvBufWrite(h)
      BY <2>4 DEF rcvBufWrite
    <2> QED BY <2>1, <2>2, <2>3, <2>4, InOrderCases
  <1> QED BY <1>1, <1>2, <1>3, <1>4, <1>5, <1>6, <1>7, <1>8 DEF Step, Retransmitting

\* Received bytes are never taken back.
LEMMA ReceivedGrows ==
  ASSUME HInv, NEW h \in Hosts, Step(h)
  PROVE  \A k \in Hosts :
            /\ Received(k) \in Bytes /\ Received(k)' \in Bytes /\ Len(Received(k)) \in Nat
            /\ Len(Received(k)') \in Nat /\ Len(Received(k)) <= Len(Received(k)')
  <1>1. ASSUME NEW k \in Hosts PROVE Received(k) \in Bytes /\ Received(k)' \in Bytes
    <2>1. delivered[k] \in Bytes /\ rcv[k].buf \in Bytes
      BY Owned, HostType DEF HInv
    <2>2. delivered'[k] \in Bytes /\ rcv'[k].buf \in Bytes
      BY StepFacts DEF IInv, TypeOK, RCV
    <2>3. (delivered[k] \o rcv[k].buf) \in Bytes /\ (delivered'[k] \o rcv'[k].buf) \in Bytes
      BY <2>1, <2>2, Join
    <2> QED BY <2>3 DEF Received
  <1>2. \A b \in Bytes : Len(b) \in Nat
    BY DEF Bytes
  <1>3. \A a, b \in Bytes : Len(a) <= Len(a \o b)
    BY <1>2, Join
  <1>4. ASSUME NEW k \in Hosts, k # h PROVE Received(k)' = Received(k)
    BY <1>4, StepFacts DEF PeerSame, Received
  <1>5. ASSUME Len(Received(h)) <= Len(Received(h)')
        PROVE  \A k \in Hosts :
                  /\ Received(k) \in Bytes /\ Received(k)' \in Bytes /\ Len(Received(k)) \in Nat
                  /\ Len(Received(k)') \in Nat /\ Len(Received(k)) <= Len(Received(k)')
    <2> SUFFICES ASSUME NEW k \in Hosts PROVE Len(Received(k)) <= Len(Received(k)')
      BY <1>1, <1>2
    <2>1. CASE k = h
      BY <1>5, <2>1
    <2>2. CASE k # h
      BY <1>1, <1>2, <1>4, <2>2
    <2> QED BY <2>1, <2>2
  <1>6. CASE WritesPart(h)
    <2>1. PICK n \in 1..Len(iface[h].rest) : Received(h)' = Received(h) \o SubSeq(iface[h].rest, 1, n)
      BY <1>6 DEF WritesPart
    <2>2. iface[h].rest \in Bytes /\ Len(iface[h].rest) \in Nat
      BY <1>2, Owned DEF HInv
    <2>3. n \in 0..Len(iface[h].rest)
      BY <2>2
    <2>4. SubSeq(iface[h].rest, 1, n) \in Bytes
      BY <2>2, <2>3, Cut
    <2>5. Len(Received(h)) <= Len(Received(h)')
      BY <1>1, <1>3, <2>1, <2>4, Zenon
    <2> QED BY <1>5, <2>5
  <1>7. CASE WritesAll(h)
    <2>1. iface[h].rest \in Bytes /\ Received(h)' = Received(h) \o iface[h].rest
      BY <1>7, Owned DEF HInv, WritesAll
    <2>2. Len(Received(h)) <= Len(Received(h)')
      BY <1>1, <1>3, <2>1, Zenon
    <2> QED BY <1>5, <2>2
  <1>8. CASE Received(h)' = Received(h)
    BY <1>1, <1>2, <1>8, <1>5
  <1> QED
    BY <1>6, <1>7, <1>8, StepReceives DEF ReceiverStep, Waits, Opens, KeepsEarly, StartsWrite, TakesFIN

\* What the interface goroutine does to the two counts.
LEMMA WriteStep ==
  ASSUME HInv, NEW h \in Hosts, Step(h), WritesPart(h) \/ WritesAll(h)
  PROVE  /\ Len(iface[h].rest) \in Nat /\ iface[h].len \in Nat /\ Len(Received(h)) \in Nat
         /\ WritesPart(h) => \E n \in 1..Len(iface[h].rest) : /\ Len(Received(h)') = Len(Received(h)) + n
                                                              /\ Partial(h)' = Partial(h) + n
         /\ WritesAll(h) => /\ Len(Received(h)') = Len(Received(h)) + Len(iface[h].rest)
                            /\ Partial(h)' = 0
  <1>0. IInv /\ iface[h].rest \in Bytes /\ iface[h].len \in Nat /\ \A b \in Bytes : Len(b) \in Nat
    BY Owned DEF HInv, Bytes
  <1>1. Received(h) \in Bytes
    BY ReceivedGrows
  <1>2. ASSUME WritesPart(h)
        PROVE  \E n \in 1..Len(iface[h].rest) : /\ Len(Received(h)') = Len(Received(h)) + n
                                                /\ Partial(h)' = Partial(h) + n
    <2>1. PICK n \in 1..Len(iface[h].rest) :
             /\ Received(h)' = Received(h) \o SubSeq(iface[h].rest, 1, n)
             /\ iface'[h].rest = SubSeq(iface[h].rest, n + 1, Len(iface[h].rest))
      BY <1>2 DEF WritesPart
    <2>2. /\ SubSeq(iface[h].rest, 1, n) \in Bytes /\ Len(SubSeq(iface[h].rest, 1, n)) = n
          /\ Len(iface'[h].rest) = Len(iface[h].rest) - n
      <3>1. n \in 0..Len(iface[h].rest)
        BY <1>0
      <3> QED BY <1>0, <2>1, <3>1, Cut
    <2>3. Len(Received(h)') = Len(Received(h)) + n
      BY <1>1, <2>1, <2>2, Join
    <2>4. iface'[h].len - (Len(iface[h].rest) - n) = (iface[h].len - Len(iface[h].rest)) + n
      BY <1>0, <1>2 DEF WritesPart
    <2>5. Partial(h)' = Partial(h) + n
      BY <1>2, <2>2, <2>4 DEF Partial, WritesPart
    <2> QED BY <2>3, <2>5
  <1>3. ASSUME WritesAll(h)
        PROVE  Len(Received(h)') = Len(Received(h)) + Len(iface[h].rest) /\ Partial(h)' = 0
    <2>1. Len(Received(h)') = Len(Received(h)) + Len(iface[h].rest)
      BY <1>0, <1>1, <1>3, Join DEF WritesAll
    <2>2. Partial(h)' = 0
      BY <1>0, <1>3 DEF WritesAll, Partial
    <2> QED BY <2>1, <2>2
  <1> QED BY <1>0, <1>1, <1>2, <1>3

\* Payloads are written in the right states, and no more of them than there is.
LEMMA StepWriting == ASSUME CInv, NEW h \in Hosts, Step(h) PROVE WritingInv'
  <1> SUFFICES ASSUME NEW k \in Hosts, iface'[k].pc = "write"
               PROVE  state'[k] \in Taking /\ Partial(k)' \in 0..Len(Received(k)')
    BY DEF WritingInv
  <1>0. HInv /\ WritingInv
    BY DEF CInv
  <1>1. CASE k # h
    <2>1. state'[k] = state[k] /\ iface'[k] = iface[k] /\ Received(k)' = Received(k)
      BY <1>0, <1>1, StepFacts DEF PeerSame, Received
    <2> QED BY <1>0, <2>1 DEF WritingInv, Partial
  <1>2. CASE k = h
    <2>0. Len(Received(h)) \in Nat /\ Len(Received(h)') \in Nat
      BY <1>0, ReceivedGrows
    <2>1. CASE Waits(h) \/ KeepsEarly(h) \/ TakesFIN(h) \/ Opens(h)
      <3>1. iface'[h] = iface[h] /\ Received(h)' = Received(h)
        BY <2>1 DEF Waits, KeepsEarly, TakesFIN, Opens
      <3>2. state'[h] \in Taking
        BY <1>0, <1>2, <3>1, StaysTaking DEF WritingInv
      <3> QED BY <1>0, <1>2, <3>1, <3>2 DEF WritingInv, Partial
    <2>2. CASE StartsWrite(h)
      <3>1. Partial(h)' = Len(iface'[h].rest) - Len(iface'[h].rest) /\ Len(iface'[h].rest) \in Nat
        BY <2>2 DEF StartsWrite, Partial, Bytes
      <3> QED BY <1>2, <2>0, <2>2, <3>1 DEF StartsWrite
    <2>3. CASE WritesPart(h) \/ WritesAll(h)
      <3>1. state[h] \in Taking /\ Partial(h) \in 0..Len(Received(h))
        BY <1>0, <2>3 DEF WritingInv, WritesPart, WritesAll
      <3>2. state'[h] \in Taking
        BY <1>0, <2>3, <3>1, StaysTaking DEF WritesPart, WritesAll
      <3>3. Partial(h)' \in 0..Len(Received(h)')
        BY <1>0, <2>0, <2>3, <3>1, WriteStep
      <3> QED BY <1>2, <3>2, <3>3
    <2> QED BY <1>0, <2>1, <2>2, <2>3, StepReceives DEF ReceiverStep
  <1> QED BY <1>1, <1>2

\* Taken counts bytes that were received.
LEMMA TakenType ==
  ASSUME CInv, NEW h \in Hosts, Step(h)
  PROVE  \A k \in Hosts : Taken(k) \in 0..Len(Received(k)) /\ Taken(k)' \in 0..Len(Received(k)')
  <1> SUFFICES ASSUME NEW k \in Hosts
               PROVE  Taken(k) \in 0..Len(Received(k)) /\ Taken(k)' \in 0..Len(Received(k)')
    OBVIOUS
  <1>1. HInv /\ WritingInv /\ WritingInv'
    BY StepWriting DEF CInv
  <1>2. Len(Received(k)) \in Nat /\ Len(Received(k)') \in Nat
    BY <1>1, ReceivedGrows
  <1>3. Partial(k) \in 0..Len(Received(k)) /\ Partial(k)' \in 0..Len(Received(k)')
    BY <1>1, <1>2 DEF WritingInv, Partial
  <1> QED BY <1>2, <1>3 DEF Taken

\* rcv.NXT goes on counting.
LEMMA StepNxt == ASSUME CInv, NEW h \in Hosts, Step(h) PROVE NxtInv'
  <1> SUFFICES ASSUME NEW k \in Hosts, Connected(k)', BeforeFIN(Peer(k))' \/ state'[k] \in Taking
               PROVE  rcv'[k].NXT = Plus(rcv'[k].IRS, 1 + Taken(k)')
    BY DEF NxtInv
  <1>0. HInv /\ WritingInv /\ NxtInv /\ Peer(k) \in Hosts
    BY PeerIsHost DEF CInv
  <1>1. BeforeFIN(Peer(k))' => BeforeFIN(Peer(k))
    BY <1>0, BeforeFINBack
  <1>2. CASE k # h
    <2>1. /\ state'[k] = state[k] /\ rcv'[k] = rcv[k] /\ iface'[k] = iface[k]
          /\ Received(k)' = Received(k)
      BY <1>0, <1>2, StepFacts DEF PeerSame, Received
    <2>2. Connected(k)
      BY <1>0, <1>2, <2>1, StepFacts DEF Connected, Hosts
    <2>3. rcv[k].NXT = Plus(rcv[k].IRS, 1 + Taken(k))
      BY <1>0, <1>1, <2>1, <2>2 DEF NxtInv
    <2>4. Taken(k)' = Taken(k)
      BY <2>1 DEF Taken, Partial
    <2> QED BY <2>1, <2>3, <2>4
  <1>3. CASE k = h /\ ~Connected(h)
    <2>1. Opens(h)
      BY <1>0, <1>3, NewlyConnected
    <2>2. rcv'[h].NXT = Plus(rcv'[h].IRS, 1)
      BY <1>3, <2>1 DEF Opens
    <2>3. Taken(h)' = 0 /\ 1 + 0 = 1
      BY <2>1, EmptySeq DEF Opens, Taken, Partial
    <2> QED BY <1>3, <2>2, <2>3
  <1>4. CASE k = h /\ Connected(h)
    <2>1. state[h] \notin {"NONE", "SYN_SENT"}
      BY <1>0, <1>4, OpensSilent
    <2>2. state'[h] \in Taking => state[h] \in Taking
      BY <1>0, <1>4, <2>1, StepFacts DEF Follows, Taking
    <2>3. rcv[h].NXT = Plus(rcv[h].IRS, 1 + Taken(h))
      BY <1>0, <1>1, <1>4, <2>2 DEF NxtInv
    <2>4. /\ rcv[h].IRS \in Seqs /\ Taken(h) \in 0..Len(Received(h)) /\ Len(Received(h)) \in Nat
      BY <1>0, TakenType, ReceivedGrows, HostType DEF HInv, RCV
    <2>5. CASE Waits(h) \/ KeepsEarly(h)
      BY <1>4, <2>3, <2>5 DEF Waits, KeepsEarly, Taken, Partial
    <2>6. CASE StartsWrite(h)
      <3>1. Partial(h)' = Len(iface'[h].rest) - Len(iface'[h].rest) /\ Len(iface'[h].rest) \in Nat
        BY <2>6 DEF StartsWrite, Partial, Bytes
      <3>2. Partial(h) = 0 /\ Partial(h)' = 0
        BY <2>6, <3>1 DEF StartsWrite, Partial
      <3> QED BY <1>4, <2>3, <2>6, <3>2 DEF StartsWrite, Taken
    <2>7. CASE WritesPart(h)
      <3>1. PICK n \in 1..Len(iface[h].rest) : /\ Len(Received(h)') = Len(Received(h)) + n
                                               /\ Partial(h)' = Partial(h) + n
        BY <1>0, <2>7, WriteStep
      <3>2. Partial(h) \in Int
        BY <1>0, <2>7, WriteStep DEF Partial
      <3>3. Taken(h)' = Taken(h)
        BY <2>4, <3>1, <3>2 DEF Taken
      <3> QED BY <1>4, <2>3, <2>7, <3>3 DEF WritesPart
    <2>8. CASE WritesAll(h)
      <3>1. /\ Len(iface[h].rest) \in Nat /\ iface[h].len \in Nat
            /\ Len(Received(h)') = Len(Received(h)) + Len(iface[h].rest) /\ Partial(h)' = 0
            /\ Partial(h) = iface[h].len - Len(iface[h].rest)
        BY <1>0, <2>8, WriteStep DEF WritesAll, Partial
      <3>2. 1 + Taken(h)' = (1 + Taken(h)) + iface[h].len
        BY <2>4, <3>1 DEF Taken
      <3>3. Plus(Plus(rcv[h].IRS, 1 + Taken(h)), iface[h].len) = Plus(rcv[h].IRS, (1 + Taken(h)) + iface[h].len)
        <4>1. 1 + Taken(h) \in Nat
          BY <2>4
        <4> QED BY <2>4, <3>1, <4>1, PlusPlus
      <3> QED BY <1>4, <2>3, <2>8, <3>2, <3>3 DEF WritesAll, NewNXT
    <2>9. CASE TakesFIN(h)
      <3>1. ~BeforeFIN(Peer(h))
        BY <1>0, <1>4, <2>9 DEF TakesFIN, HInv, FinInv, Sent
      <3> QED BY <1>1, <1>4, <2>9, <3>1 DEF TakesFIN
    <2> QED
      BY <1>0, <2>1, <2>5, <2>6, <2>7, <2>8, <2>9, StepReceives DEF ReceiverStep, Opens
  <1> QED BY <1>2, <1>3, <1>4

\* Before its connection is opened no host is sent an acknowledgement.
LEMMA NoAckYet ==
  ASSUME HInv, NEW h \in Hosts, state[h] = "NONE" PROVE \A x \in Wire(Peer(h)) : "ACK" \notin x.flags
  <1>1. ~Connected(Peer(h)) /\ Peer(h) \in Hosts
    BY PeerIsHost, ConstantsAssumption DEF HInv, Agreed, Connected, Peer, Hosts
  <1> QED BY <1>1, AtWork DEF HInv, Sent

\* What an acknowledgement stands for is still received.
LEMMA AcksGrow ==
  ASSUME HInv, NEW h \in Hosts, Step(h), NEW k \in Hosts, snd'[k].ISS = snd[k].ISS
  PROVE  Acks(k) \subseteq Acks(k)'
  <1>1. Peer(k) \in Hosts
    BY PeerIsHost
  <1> DEFINE m == Len(Received(Peer(k)))
             n == Len(Received(Peer(k)))'
  <1>2. m \in Nat /\ n \in Nat /\ m <= n
    BY <1>1, ReceivedGrows
  <1>3. Acks(k) = {Plus(snd[k].ISS, 1 + j) : j \in 0..m} /\ Acks(k)' = {Plus(snd[k].ISS, 1 + j) : j \in 0..n}
    BY DEF Acks
  <1> HIDE DEF m, n
  <1>4. 0..m \subseteq 0..n
    BY <1>2
  <1> QED BY <1>3, <1>4

\* Acknowledgements stay sound.
LEMMA StepAcks == ASSUME CInv, NEW h \in Hosts, Step(h) PROVE AcksInv'
  <1> SUFFICES ASSUME NEW k \in Hosts, BeforeFIN(k)'
               PROVE  /\ snd'[k].UNA = snd'[k].ISS \/ snd'[k].UNA \in Acks(k)'
                      /\ \A x \in Wire(Peer(k))' : "ACK" \in x.flags => x.ack \in Acks(k)'
                      /\ iface'[k].pc = "write" /\ "ACK" \in iface'[k].seg.flags =>
                            iface'[k].seg.ack \in Acks(k)'
    BY DEF AcksInv
  <1>0. HInv /\ AcksInv /\ BeforeFIN(k) /\ Peer(k) \in Hosts /\ Peer(Peer(k)) = k
    BY BeforeFINBack, PeerIsHost, PeerOfPeer DEF CInv
  <1>1. /\ snd[k].UNA = snd[k].ISS \/ snd[k].UNA \in Acks(k)
        /\ \A x \in Wire(Peer(k)) : "ACK" \in x.flags => x.ack \in Acks(k)
        /\ iface[k].pc = "write" /\ "ACK" \in iface[k].seg.flags => iface[k].seg.ack \in Acks(k)
    BY <1>0 DEF AcksInv
  <1>2. Sourced(h)
    BY <1>0, StepSourced DEF HInv
  <1>3. CASE k = h
    <2>1. ReceiverStep(h) /\ AckStep(h) /\ Wire(Peer(h))' \subseteq Wire(Peer(h))
      BY <1>0, <1>2, StepReceives DEF Sourced, WireSourced
    <2>2. iface'[h].pc = "write" =>
             \/ iface[h].pc = "write" /\ iface'[h].seg = iface[h].seg
             \/ iface'[h].seg \in Wire(Peer(h)) /\ state[h] \in Taking
      BY <2>1 DEF ReceiverStep, Waits, Opens, KeepsEarly, StartsWrite, WritesPart, WritesAll, TakesFIN
    <2>3. CASE snd'[h].ISS = snd[h].ISS
      <3>1. Acks(h) \subseteq Acks(h)'
        BY <1>0, <2>3, AcksGrow
      <3>2. snd'[h].UNA = snd'[h].ISS \/ snd'[h].UNA \in Acks(h)
        BY <1>1, <1>3, <2>1, <2>3 DEF AckStep
      <3>3. iface'[h].pc = "write" /\ "ACK" \in iface'[h].seg.flags => iface'[h].seg.ack \in Acks(h)
        BY <1>1, <1>3, <2>2
      <3> QED BY <1>1, <1>3, <2>1, <3>1, <3>2, <3>3
    <2>4. CASE snd'[h].ISS # snd[h].ISS
      <3>1. state[h] = "NONE"
        BY <1>0, <2>4, StepFacts DEF Local, NumbersSet
      <3>2. iface[h].pc = "idle" /\ \A x \in Wire(Peer(h)) : "ACK" \notin x.flags
        BY <1>0, <3>1, NoAckYet, OpensSilent DEF Silent
      <3>3. iface'[h].pc # "write"
        BY <2>2, <3>1, <3>2 DEF Taking
      <3>4. snd'[h].UNA = snd'[h].ISS
        BY <2>1, <2>4 DEF AckStep
      <3> QED BY <1>3, <2>1, <3>2, <3>3, <3>4
    <2> QED BY <2>3, <2>4
  <1>4. CASE k # h
    <2>1. h = Peer(k) /\ snd'[k] = snd[k] /\ iface'[k] = iface[k]
      BY <1>0, <1>4, PeerOfPeer, StepFacts DEF PeerSame
    <2>2. Acks(k) \subseteq Acks(k)'
      BY <1>0, <2>1, AcksGrow
    <2>3. ASSUME NEW x \in Wire(h)', "ACK" \in x.flags, x.ack = rcv'[h].NXT PROVE x.ack \in Acks(k)'
      <3>1. SilentInv' /\ Agreed' /\ NxtInv' /\ Peer(h) = k
        BY <1>0, <2>1, StepSilent, StepAgreed, StepNxt
      <3>2. Connected(h)'
        BY <2>3, <3>1 DEF SilentInv, Silent, Sent
      <3>3. rcv'[h].NXT = Plus(rcv'[h].IRS, 1 + Taken(h)')
        BY <3>1, <3>2 DEF NxtInv
      <3>4. rcv'[h].IRS = snd'[k].ISS
        BY <2>1, <3>1, <3>2, ConstantsAssumption DEF Agreed, Peer, Hosts
      <3>5. Taken(h)' \in 0..Len(Received(h)')
        BY TakenType
      <3> QED BY <2>1, <2>3, <3>3, <3>4, <3>5 DEF Acks
    <2>4. \A x \in Wire(h)' : x \in Wire(h) \/ ("ACK" \in x.flags => x.ack = rcv'[h].NXT)
      BY <1>2 DEF Sourced, WireSourced
    <2> QED BY <1>1, <2>1, <2>2, <2>3, <2>4
  <1> QED BY <1>3, <1>4

\* Nothing is counted or acknowledged at first.
LEMMA InitAcks == Init => CInv
  <1> SUFFICES ASSUME Init PROVE CInv
    OBVIOUS
  <1>1. HInv
    BY InitHandshake
  <1>2. ASSUME NEW h \in Hosts
        PROVE  /\ ~Connected(h) /\ iface[h].pc = "idle" /\ snd[h].UNA = snd[h].ISS
               /\ Wire(Peer(h)) = {}
    <2>1. Peer(h) \in Hosts /\ Peer(Peer(h)) = h
      BY PeerIsHost, PeerOfPeer
    <2>2. net[h] = <<>> /\ iface[h] = IfaceIdle /\ snd[h] = NewSND(0, 0)
      BY DEF Init
    <2>3. ~Connected(h)
      BY DEF Init, Connected, Hosts
    <2> QED BY <2>1, <2>2, <2>3 DEF IfaceIdle, NewSND, Wire
  <1> QED BY <1>1, <1>2 DEF CInv, WritingInv, NxtInv, AcksInv

\* Every step of the program preserves the invariant.
LEMMA NextAcks == ASSUME CInv, [Next]_vars PROVE CInv'
  <1>1. HInv'
    BY NextHandshake DEF CInv
  <1>2. CASE Next
    <2>1. PICK h \in Hosts : Step(h)
      BY <1>2, NextStep
    <2> QED BY <1>1, <2>1, StepWriting, StepNxt, StepAcks DEF CInv
  <1>3. CASE UNCHANGED vars
    <2>1. UNCHANGED <<state, snd, rcv, repl, iface, rtx, conn, net, delivered>>
      BY <1>3 DEF vars, sockets, threads, history
    <2>2. \A h \in Hosts :
             /\ Received(h)' = Received(h) /\ Partial(h)' = Partial(h) /\ Taken(h)' = Taken(h)
             /\ Connected(h)' = Connected(h) /\ BeforeFIN(h)' = BeforeFIN(h) /\ Wire(h)' = Wire(h)
      BY <2>1 DEF Received, Partial, Taken, Connected, BeforeFIN, AtClose, Wire
    <2>3. \A h \in Hosts : Peer(h) \in Hosts
      BY PeerIsHost
    <2>4. \A h \in Hosts : Acks(h)' = Acks(h)
      BY <2>1, <2>2, <2>3 DEF Acks
    <2>5. WritingInv' /\ NxtInv'
      BY <2>1, <2>2, <2>3 DEF CInv, WritingInv, NxtInv
    <2>6. AcksInv'
      BY <2>1, <2>2, <2>3, <2>4 DEF CInv, AcksInv
    <2> QED BY <1>1, <2>5, <2>6 DEF CInv
  <1> QED BY <1>2, <1>3

\* The invariant holds throughout.
LEMMA AcksInvariant == Spec => []CInv
  BY InitAcks, NextAcks, PTL DEF Spec

-----------------------------------------------------------------------------
(* The theorem *)

\* Whatever is lost, repeated, reordered or sent again, no acknowledgement that
\* a host accepts before it closes runs ahead of what its peer has received.
THEOREM AcksReceived == Spec => []AckSound
  <1>1. CInv => AckSound
    <2> SUFFICES ASSUME CInv, NEW h \in Hosts, NoFIN(h)
                 PROVE  (snd[h].UNA - snd[h].ISS) % SeqMod <= 1 + Len(Received(Peer(h)))
      BY DEF AckSound
    <2>1. BeforeFIN(h)
      BY DEF NoFIN, BeforeFIN, AtClose
    <2>2. /\ snd[h].ISS \in Seqs /\ Len(Received(Peer(h))) \in Nat
      <3>1. delivered[Peer(h)] \in Bytes /\ rcv[Peer(h)].buf \in Bytes
        BY PeerIsHost, Owned, HostType DEF CInv, HInv
      <3>2. Received(Peer(h)) \in Bytes
        BY <3>1, Join DEF Received
      <3> QED BY <3>2, HostType DEF CInv, HInv, SND, Bytes
    <2>3. snd[h].UNA = snd[h].ISS \/ snd[h].UNA \in Acks(h)
      BY <2>1 DEF CInv, AcksInv
    <2>4. CASE snd[h].UNA = snd[h].ISS
      <3>1. snd[h].UNA - snd[h].ISS = 0 /\ 0 % SeqMod = 0
        <4>1. \A m \in Nat \ {0} : 0 % m = 0
          OBVIOUS
        <4>2. snd[h].ISS \in Int /\ SeqMod \in Nat \ {0}
          BY <2>2, SeqsType
        <4> QED BY <2>4, <4>1, <4>2
      <3> QED BY <2>2, <3>1
    <2>5. CASE snd[h].UNA \in Acks(h)
      <3>1. PICK j \in 0..Len(Received(Peer(h))) : snd[h].UNA = Plus(snd[h].ISS, 1 + j)
        BY <2>5 DEF Acks
      <3>2. 1 + j \in Nat /\ 1 + j <= 1 + Len(Received(Peer(h)))
        BY <2>2
      <3>3. (snd[h].UNA - snd[h].ISS) % SeqMod <= 1 + j
        BY <2>2, <3>1, <3>2, DistanceAtMost
      <3>4. (snd[h].UNA - snd[h].ISS) % SeqMod \in Nat
        <4>1. snd[h].UNA \in Seqs
          BY <2>2, <3>1, <3>2, PlusSeqs
        <4>2. snd[h].UNA \in Int /\ snd[h].ISS \in Int
          BY <2>2, <4>1, SeqsType
        <4>3. snd[h].UNA - snd[h].ISS \in Int
          BY <4>2
        <4> QED BY <4>3, Modulus
      <3> QED BY <2>2, <3>2, <3>3, <3>4
    <2> QED BY <2>3, <2>4, <2>5
  <1> QED BY <1>1, AcksInvariant, PTL
=============================================================================
