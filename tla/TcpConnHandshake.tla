--------------------------- MODULE TcpConnHandshake ---------------------------
(***************************************************************************)
(* The opening and the closing of one TCP connection, proved for every     *)
(* value of the constants: what the two ends know of each other follows    *)
(* from what each segment in transit, and each packet that may be sent     *)
(* again, says of the host it comes from.                                  *)
(***************************************************************************)
EXTENDS TcpConnSafety

-----------------------------------------------------------------------------
(* Segments and their senders *)

\* The segments of h that are in transit, and the packets it may send again.
Wire(h) == {net[Peer(h)][i] : i \in DOMAIN net[Peer(h)]}
Listed(h) == snd[h].inFlight \cup {rtx[h].pkt}
Sent(h) == Wire(h) \cup Listed(h)

\* The peer of the peer of a host is the host.
LEMMA PeerOfPeer == \A h \in Hosts : Peer(Peer(h)) = h /\ \A k \in Hosts : k = h \/ k = Peer(h)
  BY ConstantsAssumption DEF Hosts, Peer

\* Sending adds one segment.
LEMMA SendWire ==
  ASSUME IInv, NEW h \in Hosts, NEW g, Send(h, g)
  PROVE  /\ \A x \in Wire(h)' : x \in Wire(h) \/ x = g
         /\ Wire(Peer(h))' = Wire(Peer(h))
  <1> DEFINE p == Peer(h)
             q == net[p]
  <1>1. p \in Hosts /\ p # h /\ Peer(p) = h /\ net \in [Hosts -> Seq(Segments)]
    BY PeerIsHost, PeerOfPeer DEF IInv, TypeOK
  <1>2. net'[h] = net[h] /\ net'[p] = Append(q, g)
    BY <1>1 DEF Send
  <1>3. q \in Seq(Segments)
    BY <1>1
  <1>4. ASSUME NEW i \in DOMAIN Append(q, g)
        PROVE  Append(q, g)[i] = g \/ (i \in DOMAIN q /\ Append(q, g)[i] = q[i])
    <2> HIDE DEF q
    <2> QED BY <1>3
  <1> HIDE DEF q, p
  <1>5. Wire(p)' = Wire(p)
    BY <1>1, <1>2 DEF Wire
  <1>6. \A x \in Wire(h)' : x \in Wire(h) \/ x = g
    BY <1>1, <1>2, <1>4 DEF Wire, p, q
  <1> QED BY <1>5, <1>6 DEF p

\* Taking a segment off the wire and answering it.
LEMMA AnswerWire ==
  ASSUME IInv, NEW h \in Hosts, NEW out \in Seq(Segments), net[h] # <<>>, Exchange(h, out)
  PROVE  /\ \A x \in Wire(h)' : x \in Wire(h) \/ \E i \in DOMAIN out : x = out[i]
         /\ Wire(Peer(h))' \subseteq Wire(Peer(h))
  <1> DEFINE p == Peer(h)
             q == net[p]
             r == net[h]
  <1>1. p \in Hosts /\ p # h /\ Peer(p) = h /\ net \in [Hosts -> Seq(Segments)]
    BY PeerIsHost, PeerOfPeer DEF IInv, TypeOK
  <1>2. net'[h] = Tail(r) /\ net'[p] = q \o out
    BY <1>1 DEF Exchange
  <1>3. q \in Seq(Segments) /\ r \in Seq(Segments) /\ r # <<>>
    BY <1>1
  <1>4. ASSUME NEW i \in DOMAIN (q \o out)
        PROVE  \/ i \in DOMAIN q /\ (q \o out)[i] = q[i]
               \/ \E j \in DOMAIN out : (q \o out)[i] = out[j]
    <2> HIDE DEF q
    <2>1. /\ Len(q) \in Nat /\ Len(out) \in Nat /\ DOMAIN q = 1..Len(q) /\ DOMAIN out = 1..Len(out)
          /\ i \in 1..(Len(q) + Len(out))
      BY <1>3
    <2>2. CASE i <= Len(q)
      BY <1>3, <2>1, <2>2
    <2>3. CASE i > Len(q)
      <3>1. i - Len(q) \in DOMAIN out /\ (q \o out)[i] = out[i - Len(q)]
        BY <1>3, <2>1, <2>3
      <3> QED BY <3>1
    <2> QED BY <2>1, <2>2, <2>3
  <1>5. ASSUME NEW i \in DOMAIN Tail(r) PROVE \E j \in DOMAIN r : Tail(r)[i] = r[j]
    <2> HIDE DEF r
    <2>1. i + 1 \in DOMAIN r /\ Tail(r)[i] = r[i + 1]
      BY <1>3
    <2> QED BY <2>1
  <1> HIDE DEF p, q, r
  <1>6. Wire(p)' \subseteq Wire(p)
    BY <1>1, <1>2, <1>5 DEF Wire, r
  <1>7. \A x \in Wire(h)' : x \in Wire(h) \/ \E i \in DOMAIN out : x = out[i]
    BY <1>1, <1>2, <1>4 DEF Wire, p, q
  <1> QED BY <1>6, <1>7 DEF p

\* Taking a segment off the wire.
LEMMA TakeWire ==
  ASSUME IInv, NEW h \in Hosts, net[h] # <<>>, Exchange(h, <<>>)
  PROVE  Wire(h)' \subseteq Wire(h) /\ Wire(Peer(h))' \subseteq Wire(Peer(h))
  <1>1. <<>> \in Seq(Segments) /\ DOMAIN <<>> = {}
    OBVIOUS
  <1> QED BY <1>1, AnswerWire

\* Taking a segment off the wire and answering with another.
LEMMA ReplyWire ==
  ASSUME IInv, NEW h \in Hosts, NEW g \in Segments, net[h] # <<>>, Exchange(h, <<g>>)
  PROVE  /\ \A x \in Wire(h)' : x \in Wire(h) \/ x = g
         /\ Wire(Peer(h))' \subseteq Wire(Peer(h))
  <1>1. <<g>> \in Seq(Segments) /\ DOMAIN <<g>> = {1} /\ <<g>>[1] = g
    OBVIOUS
  <1> DEFINE out == <<g>>
  <1>2. out \in Seq(Segments) /\ \A i \in DOMAIN out : out[i] = g
    BY <1>1
  <1>3. Exchange(h, out)
    OBVIOUS
  <1> HIDE DEF out
  <1> QED BY <1>2, <1>3, AnswerWire

\* What a host takes off the wire is a segment of its peer.
LEMMA HeadWire ==
  ASSUME IInv, NEW h \in Hosts, NEW g, Receives(h, g)
  PROVE  g \in Wire(Peer(h)) /\ g \in Segments /\ net[h] # <<>>
  <1>1. net[h] \in Seq(Segments) /\ net[h] # <<>> /\ g = Head(net[h]) /\ Peer(Peer(h)) = h
    BY PeerOfPeer DEF IInv, TypeOK, Receives
  <1>2. 1 \in DOMAIN net[h] /\ g = net[h][1] /\ g \in Segments
    BY <1>1
  <1> QED BY <1>1, <1>2 DEF Wire

\* A faulty network invents no segments.
LEMMA FaultWire ==
  ASSUME IInv, NEW h \in Hosts, Fault(h) PROVE Wire(h)' = Wire(h) /\ Wire(Peer(h))' \subseteq Wire(Peer(h))
  <1> DEFINE q == net[h]
  <1>1. q \in Seq(Segments) /\ Len(q) \in Nat /\ DOMAIN q = 1..Len(q) /\ net \in [Hosts -> Seq(Segments)]
    BY DEF IInv, TypeOK
  <1>2. PICK i \in DOMAIN q : Drop(h, i) \/ Duplicate(h, i) \/ Overtake(h, i)
    BY DEF Fault
  <1>3. i \in 1..Len(q) /\ Peer(h) \in Hosts /\ Peer(h) # h /\ Peer(Peer(h)) = h
    BY <1>1, PeerIsHost, PeerOfPeer
  <1>4. \E d : net' = [net EXCEPT ![h] = d] /\ \A j \in DOMAIN d : \E l \in DOMAIN q : d[j] = q[l]
    <2>1. CASE Drop(h, i)
      <3> DEFINE a == SubSeq(q, 1, i - 1)
                 b == SubSeq(q, i + 1, Len(q))
                 d == a \o b
      <3>1. /\ a \in Seq(Segments) /\ Len(a) = i - 1 /\ \A j \in 1..(i - 1) : a[j] = q[j]
            /\ b \in Seq(Segments) /\ Len(b) = Len(q) - i /\ \A j \in 1..(Len(q) - i) : b[j] = q[j + i]
        <4> HIDE DEF q
        <4>1. i - 1 \in Nat /\ i - 1 <= Len(q) /\ i + 1 \in 1..(Len(q) + 1)
          BY <1>1, <1>3
        <4>2. /\ SubSeq(q, 1, i - 1) \in Seq(Segments) /\ Len(SubSeq(q, 1, i - 1)) = i - 1
              /\ \A j \in 1..(i - 1) : SubSeq(q, 1, i - 1)[j] = q[j]
          BY <1>1, <4>1
        <4>3. /\ SubSeq(q, i + 1, Len(q)) \in Seq(Segments)
              /\ Len(SubSeq(q, i + 1, Len(q))) = Len(q) - i
              /\ \A j \in 1..(Len(q) - i) : SubSeq(q, i + 1, Len(q))[j] = q[j + i]
          BY <1>1, <4>1
        <4> QED BY <4>2, <4>3
      <3>2. ASSUME NEW j \in DOMAIN d PROVE \E l \in DOMAIN q : d[j] = q[l]
        <4> HIDE DEF q, a, b
        <4>1. j \in 1..(Len(a) + Len(b)) /\ Len(a) \in Nat /\ Len(b) \in Nat
          BY <3>1
        <4>2. CASE j <= Len(a)
          <5>1. d[j] = a[j] /\ j \in 1..(i - 1) /\ j \in DOMAIN q
            BY <1>1, <1>3, <3>1, <4>1, <4>2
          <5> QED BY <3>1, <5>1
        <4>3. CASE j > Len(a)
          <5>1. d[j] = b[j - Len(a)]
            BY <3>1, <4>1, <4>3
          <5>2. j - Len(a) \in 1..(Len(q) - i) /\ j - Len(a) + i \in 1..Len(q)
            BY <1>1, <1>3, <3>1, <4>1, <4>3
          <5> QED BY <1>1, <3>1, <5>1, <5>2
        <4> QED BY <3>1, <4>1, <4>2, <4>3
      <3>3. net' = [net EXCEPT ![h] = d]
        BY <2>1 DEF Drop
      <3> HIDE DEF d, q
      <3> QED BY <3>2, <3>3
    <2>2. CASE Duplicate(h, i)
      <3> DEFINE d == Append(q, q[i])
      <3>1. \A j \in DOMAIN d : \E l \in DOMAIN q : d[j] = q[l]
        <4> HIDE DEF q
        <4> QED BY <1>1, <1>3
      <3>2. net' = [net EXCEPT ![h] = d]
        BY <2>2 DEF Duplicate
      <3> HIDE DEF d, q
      <3> QED BY <3>1, <3>2
    <2>3. CASE Overtake(h, i)
      <3> DEFINE d == [q EXCEPT ![i] = q[i - 1], ![i - 1] = q[i]]
      <3>1. i - 1 \in DOMAIN q /\ i \in DOMAIN q
        BY <1>1, <1>3, <2>3 DEF Overtake
      <3>2. DOMAIN d = DOMAIN q
        OBVIOUS
      <3>3. ASSUME NEW j \in DOMAIN d PROVE \E l \in DOMAIN q : d[j] = q[l]
        <4> HIDE DEF q
        <4>1. d[j] = q[j] \/ d[j] = q[i - 1] \/ d[j] = q[i]
          BY <3>1, <3>2
        <4> QED BY <3>1, <3>2, <4>1
      <3>4. net' = [net EXCEPT ![h] = d]
        BY <2>3 DEF Overtake
      <3> HIDE DEF d, q
      <3> QED BY <3>3, <3>4
    <2> QED BY <1>2, <2>1, <2>2, <2>3
  <1>5. PICK d : net' = [net EXCEPT ![h] = d] /\ \A j \in DOMAIN d : \E l \in DOMAIN q : d[j] = q[l]
    BY <1>4
  <1>6. net'[h] = d /\ net'[Peer(h)] = net[Peer(h)]
    BY <1>1, <1>3, <1>5
  <1> QED BY <1>3, <1>5, <1>6 DEF Wire

-----------------------------------------------------------------------------
(* Steps of one host *)

\* A step of h: of one of its goroutines, of its application, or of the network
\* on what is in transit to h.
Step(h) ==
    \/ h = Client /\ (VConnect \/ VConnectReturn \/ HandshakeTimeout)
    \/ h = Server /\ VAccept
    \/ Application(h) \/ VReadReturn(h) \/ VCloseReturn(h)
    \/ Sending(h) \/ Probing(h) \/ Retransmitting(h) \/ Receiving(h)
    \/ TimeWaitExpires(h) \/ Fault(h)

\* Every step is a step of one host.
LEMMA NextStep == ASSUME Next PROVE \E h \in Hosts : Step(h)
  BY DEF Next, Connecting, Step, Hosts

\* A step of a host is one of the program.
LEMMA StepNext == ASSUME NEW h \in Hosts, Step(h) PROVE Next
  BY DEF Next, Connecting, Step

\* What the peer of h has stays as it is.
PeerSame(h) ==
    \A k \in Hosts : k # h =>
       /\ state'[k] = state[k] /\ snd'[k] = snd[k] /\ rcv'[k] = rcv[k]
       /\ repl'[k] = repl[k] /\ iface'[k] = iface[k] /\ rtx'[k] = rtx[k]
       /\ written'[k] = written[k] /\ delivered'[k] = delivered[k]
       /\ (k \in failed' <=> k \in failed)

\* The two ways processInOrderData goes: to the early data that is next, or to
\* the end, with an acknowledgement.
NewNXT(h) == Plus(rcv[h].NXT, iface[h].len)
Filled(h) == rcv[h].buf \o iface[h].rest
GoesOn(h, e) ==
    /\ e \in rcv[h].early /\ e.seq = NewNXT(h)
    /\ rcv' = [rcv EXCEPT ![h] = [rcv[h] EXCEPT !.buf = Filled(h), !.NXT = NewNXT(h),
                                                !.early = @ \ {e}]]
    /\ iface' = [iface EXCEPT ![h] = [iface[h] EXCEPT !.rest = e.data, !.len = Len(e.data)]]
    /\ UNCHANGED <<state, snd, net>>
FullRCV(h) == [rcv[h] EXCEPT !.buf = Filled(h), !.NXT = NewNXT(h), !.WND = Free(Filled(h))]
Finishes(h) ==
    /\ AfterData(h, snd[h], FullRCV(h), iface[h].seg, iface[h].closing)
    /\ Send(h, AckOf(snd[h], FullRCV(h), FullRCV(h).WND, <<>>))
    /\ iface' = [iface EXCEPT ![h] = IfaceIdle]

\* processInOrderData does one or the other.
LEMMA InOrderCases ==
  ASSUME NEW h, processInOrderData(h) PROVE Finishes(h) \/ \E e : GoesOn(h, e)
  BY DEF processInOrderData, Finishes, GoesOn, FullRCV, Filled, NewNXT

\* A step of the interface goroutine leaves the peer alone.
LEMMA ReceivingFrame == ASSUME IInv, NEW h \in Hosts, Receiving(h) PROVE PeerSame(h)
  <1> DEFINE g == Head(net[h])
  <1>1. CASE (h = Server /\ handleSYN(g)) \/ handleSYNACK(h, g) \/ handleACK(h, g)
    <2>1. CASE h = Server /\ handleSYN(g)
      BY <2>1 DEF PeerSame, IInv, TypeOK, handleSYN, threads, history
    <2>2. CASE handleSYNACK(h, g)
      BY <2>2 DEF PeerSame, IInv, TypeOK, handleSYNACK, history
    <2>3. CASE handleACK(h, g)
      BY <2>3 DEF PeerSame, IInv, TypeOK, handleACK, threads, history
    <2> QED BY <1>1, <2>1, <2>2, <2>3
  <1>2. CASE handleEstablishedPacket(h, g) \/ handleData(h, g) \/ rcvBufWrite(h)
    BY <1>2 DEF PeerSame, IInv, TypeOK, handleEstablishedPacket, handleData, rcvBufWrite,
                AfterData, threads, history
  <1>3. CASE handleFIN(h, g) \/ handleClosingACK(h, g) \/ handleRST(h, g) \/ ignore(h, g)
    BY <1>3 DEF PeerSame, IInv, TypeOK, handleFIN, handleClosingACK, handleRST, ignore,
                sockets, threads, history
  <1>4. CASE processInOrderData(h)
    <2>1. UNCHANGED <<repl, rtx, history>>
      BY <1>4 DEF processInOrderData
    <2>2. ASSUME NEW e, GoesOn(h, e) PROVE PeerSame(h)
      <3>1. PICK r, t : rcv' = [rcv EXCEPT ![h] = r] /\ iface' = [iface EXCEPT ![h] = t]
        BY <2>2, Zenon DEF GoesOn
      <3>2. state' = state /\ snd' = snd
        BY <2>2 DEF GoesOn
      <3> QED BY <2>1, <3>1, <3>2 DEF PeerSame, IInv, TypeOK, history
    <2>3. CASE Finishes(h)
      <3>1. PICK t : iface' = [iface EXCEPT ![h] = t]
        BY <2>3, Zenon DEF Finishes
      <3>2. \E s, r, v : /\ snd' = [snd EXCEPT ![h] = s] /\ rcv' = [rcv EXCEPT ![h] = r]
                         /\ state' = [state EXCEPT ![h] = v]
        BY <2>3, Zenon DEF Finishes, AfterData
      <3> QED BY <2>1, <3>1, <3>2 DEF PeerSame, IInv, TypeOK, history
    <2> QED BY <1>4, <2>2, <2>3, InOrderCases
  <1> QED BY <1>1, <1>2, <1>3, <1>4 DEF Receiving, HandlePacket

\* So does every other step.
LEMMA StepFrame ==
  ASSUME IInv, AInv, NEW h \in Hosts, Step(h) PROVE PeerSame(h) /\ (h = Server => conn' = conn)
  <1>1. CASE h = Client /\ (VConnect \/ VConnectReturn \/ HandshakeTimeout)
    BY <1>1, ConstantsAssumption DEF PeerSame, IInv, TypeOK, VConnect, VConnectReturn, HandshakeTimeout,
                sockets, threads, history
  <1>2. CASE h = Server /\ VAccept
    BY <1>2 DEF PeerSame, VAccept, sockets, threads, history
  <1>3. CASE Application(h) \/ VReadReturn(h) \/ VCloseReturn(h)
    BY <1>3 DEF PeerSame, IInv, TypeOK, Application, VWrite, TryWrite, VRead, VClose, sendFIN, sendRST,
                VReadReturn, VCloseReturn, closeEnds, sockets, threads, history
  <1>4. CASE Sending(h) \/ Probing(h)
    BY <1>4 DEF PeerSame, IInv, TypeOK, Sending, VWriteLoop, TryWrite, trySendData, startTimer, trackPacket,
                Probing, startProbing, sendZeroWindowProbe, probingEnds, sockets, history
  <1>5. CASE Retransmitting(h)
    BY <1>5 DEF PeerSame, IInv, TypeOK, Retransmitting, retransmitPacket, relistPacket,
                nothingToRetransmit, giveUp, sendFIN, giveUpReturn, closeEnds, threads, history
  <1>6. CASE Receiving(h)
    <2>1. h = Server => conn' = conn
      BY <1>6 DEF AInv, Receiving, HandlePacket, handleSYN, handleSYNACK, handleACK,
                  handleEstablishedPacket, handleData, handleFIN, handleClosingACK, handleRST,
                  ignore, rcvBufWrite, processInOrderData, threads
    <2> QED BY <1>6, <2>1, ReceivingFrame
  <1>7. CASE TimeWaitExpires(h) \/ Fault(h)
    BY <1>7 DEF PeerSame, IInv, TypeOK, TimeWaitExpires, Fault, sockets, threads, history
  <1> QED BY <1>1, <1>2, <1>3, <1>4, <1>5, <1>6, <1>7 DEF Step

-----------------------------------------------------------------------------
(* What one step does to the host it is a step of *)

\* Something with one of the flags f is on its way to h.
Coming(h, f) == \E x \in Wire(Peer(h)) : f \in x.flags

\* The initial sequence numbers are set while the connection is opened.
NumbersSet(h) ==
    /\ snd'[h].ISS = snd[h].ISS \/ state[h] = "NONE"
    /\ rcv'[h].IRS = rcv[h].IRS \/ state[h] \in {"NONE", "SYN_SENT"}

\* The segments that take the connection from one state to another.
Ended == {"CLOSE_WAIT", "LAST_ACK", "TIME_WAIT"}
StateEarned(h) ==
    /\ state[h] = "NONE" /\ state'[h] # "NONE" =>
          \/ h = Client /\ state'[h] = "SYN_SENT"
          \/ h = Server /\ \E x \in Wire(Peer(h)) : "SYN" \in x.flags /\ rcv'[h].IRS = x.seq
    /\ state[h] = "SYN_SENT" /\ state'[h] = "ESTABLISHED" =>
          /\ conn'.established
          /\ \E x \in Wire(Peer(h)) :
                {"SYN", "ACK"} \subseteq x.flags /\ rcv'[h].IRS = x.seq /\ snd'[h].UNA = x.ack
    /\ state[h] = "SYN_RECEIVED" /\ state'[h] = "ESTABLISHED" => Coming(h, "ACK")
    /\ state[h] \notin Ended /\ state'[h] \in Ended => Coming(h, "FIN")
    /\ conn.established => conn'.established
    /\ conn'.established => \/ conn.established
                            \/ state[h] = "SYN_SENT" /\ state'[h] = "ESTABLISHED"

\* The goroutines start working in a state that allows it; a goroutine that has
\* sent a FIN ends by writing the state.
WorkAllowed(h) ==
    /\ repl[h].pc = "idle" /\ repl'[h].pc # "idle" => state[h] \in Open \cup FinWait
    /\ iface[h].pc = "idle" /\ iface'[h].pc # "idle" => state[h] \in FinWait \cup {"ESTABLISHED"}
    /\ repl[h].pc # "close" /\ repl'[h].pc = "close" => state[h] \in Open /\ state'[h] = state[h]
    /\ rtx[h].pc # "close" /\ rtx'[h].pc = "close" => state[h] \in Open /\ state'[h] = state[h]
    /\ repl[h].pc = "close" => repl'[h].pc = "close" \/ state'[h] = CloseState(state[h])
    /\ rtx[h].pc = "close" => rtx'[h].pc = "close" \/ state'[h] = CloseState(state[h])
    /\ written'[h] = written[h] \/ state[h] \in Open
    /\ iface[h].pc = "idle" /\ repl[h].pc = "idle" =>
          delivered'[h] = delivered[h] /\ (rcv'[h].buf = rcv[h].buf \/ rcv'[h].buf = <<>>)

Local(h) == NumbersSet(h) /\ StateEarned(h) /\ WorkAllowed(h)

\* What the operators on SND leave alone.
Kept(s, t) == s.ISS = t.ISS /\ s.NXT = t.NXT /\ s.buf = t.buf /\ s.inFlight \subseteq t.inFlight

\* cleanUpInFlightPackets, processACK and handleClosingACK only drop packets.
LEMMA CleanUpKeeps ==
  ASSUME NEW s \in SND, NEW a
  PROVE  Kept(cleanUpInFlightPackets(s, a), s) /\ cleanUpInFlightPackets(s, a).UNA = s.UNA
  BY DEF Kept, cleanUpInFlightPackets, SND

\* UNA is only set to the acknowledgement of the segment.
LEMMA ProcessACKKeeps ==
  ASSUME NEW s \in SND, NEW g \in Segments
  PROVE  /\ Kept(processACK(s, g), s)
         /\ processACK(s, g).UNA = s.UNA \/ ("ACK" \in g.flags /\ processACK(s, g).UNA = g.ack)
  <1>1. g.ack \in Seqs
    BY DEF Segments
  <1> DEFINE t == [s EXCEPT !.UNA = g.ack]
             c == cleanUpInFlightPackets(t, g.ack)
             u == [c EXCEPT !.timer = c.inFlight # {}, !.retransmissions = 0]
  <1>2. t \in SND /\ Kept(t, s) /\ t.UNA = g.ack
    BY <1>1 DEF SND, Kept
  <1> HIDE DEF t
  <1>3. c \in SND /\ Kept(c, t) /\ c.UNA = g.ack
    BY <1>1, <1>2, CleanUpKeeps, CleanUpType
  <1> HIDE DEF c
  <1>4. Kept(u, c) /\ u.UNA = g.ack
    BY <1>3 DEF SND, Kept
  <1>5. Kept(u, s) /\ u.UNA = g.ack
    BY <1>2, <1>3, <1>4 DEF Kept
  <1>6. Kept(s, s)
    BY DEF Kept
  <1> QED BY <1>5, <1>6 DEF processACK, c, t

\* handleClosingACK leaves UNA to processACK.
LEMMA ClosingKeeps ==
  ASSUME NEW s \in SND, NEW g \in Segments
  PROVE  Kept(ClosingSND(s, g), s) /\ ClosingSND(s, g).UNA = s.UNA
  <1> DEFINE c == cleanUpInFlightPackets(s, g.ack)
  <1>1. g.ack \in Seqs
    BY DEF Segments
  <1>2. c \in SND /\ Kept(c, s) /\ c.UNA = s.UNA
    BY <1>1, CleanUpKeeps, CleanUpType
  <1> HIDE DEF c
  <1>3. Kept([c EXCEPT !.timer = FALSE], c) /\ [c EXCEPT !.timer = FALSE].UNA = c.UNA
    BY <1>2 DEF SND, Kept
  <1> QED BY <1>2, <1>3 DEF ClosingSND, Kept, c

\* The end of the handling of a segment, of data or not.
LEMMA AfterDataKeeps ==
  ASSUME IInv, NEW h \in Hosts, NEW s \in SND, NEW r \in RCV, NEW g \in Segments, NEW c \in BOOLEAN,
         AfterData(h, s, r, g, c)
  PROVE  /\ Kept(snd'[h], s)
         /\ snd'[h].UNA = s.UNA \/ ("ACK" \in g.flags /\ snd'[h].UNA = g.ack)
         /\ rcv'[h].IRS = r.IRS /\ rcv'[h].NXT = r.NXT /\ rcv'[h].buf = r.buf /\ rcv'[h].early = r.early
         /\ state'[h] = state[h] \/ (c /\ state'[h] = ClosingState(state[h]))
  <1> DEFINE u == processACK(s, g)
             v == ClosingSND(u, g)
             w == [r EXCEPT !.WND = g.wnd]
  <1>1. /\ snd'[h] = (IF c THEN v ELSE u) /\ rcv'[h] = (IF c THEN w ELSE r)
        /\ state'[h] = (IF c THEN ClosingState(state[h]) ELSE state[h])
    BY DEF AfterData, IInv, TypeOK
  <1>2. u \in SND /\ Kept(u, s) /\ (u.UNA = s.UNA \/ ("ACK" \in g.flags /\ u.UNA = g.ack))
    BY ProcessACKType, ProcessACKKeeps
  <1> HIDE DEF u
  <1>3. Kept(v, u) /\ v.UNA = u.UNA
    BY <1>2, ClosingKeeps
  <1>4. w.IRS = r.IRS /\ w.NXT = r.NXT /\ w.buf = r.buf /\ w.early = r.early
    BY DEF RCV
  <1> HIDE DEF v, w
  <1> QED BY <1>1, <1>2, <1>3, <1>4 DEF Kept

\* The types of what h has.
LEMMA Owned ==
  ASSUME IInv, NEW h \in Hosts
  PROVE  /\ state \in [Hosts -> States] /\ snd \in [Hosts -> SND] /\ rcv \in [Hosts -> RCV]
         /\ repl \in [Hosts -> REPL] /\ iface \in [Hosts -> IFACE] /\ rtx \in [Hosts -> RTX]
         /\ written \in [Hosts -> Nat] /\ delivered \in [Hosts -> Bytes]
         /\ iface[h].seg \in Segments /\ iface[h].rest \in Bytes /\ iface[h].len \in Nat
         /\ iface[h].closing \in BOOLEAN /\ conn.established \in BOOLEAN
  BY DEF IInv, TypeOK, IFACE

\* What processInOrderData leaves in RCV, when there was room for it.
LEMMA FullType ==
  ASSUME IInv, NEW h \in Hosts, processInOrderData(h)
  PROVE  /\ Filled(h) \in Bytes /\ Len(Filled(h)) = Len(rcv[h].buf) + Len(iface[h].rest)
         /\ FullRCV(h) \in RCV /\ FullRCV(h).IRS = rcv[h].IRS /\ FullRCV(h).buf = Filled(h)
         /\ FullRCV(h).NXT = NewNXT(h) /\ FullRCV(h).early = rcv[h].early
  <1> DEFINE b == Filled(h)
  <1>1. /\ rcv[h] \in RCV /\ rcv[h].buf \in Bytes /\ Len(rcv[h].buf) \in Nat /\ rcv[h].NXT \in Seqs
        /\ iface[h].rest \in Bytes /\ Len(iface[h].rest) \in Nat /\ iface[h].len \in Nat
    BY HostType, Owned DEF Bytes
  <1>2. b \in Bytes /\ Len(b) = Len(rcv[h].buf) + Len(iface[h].rest)
    BY <1>1, Join DEF Filled
  <1>3. NewNXT(h) \in Seqs
    BY <1>1, PlusSeqs DEF NewNXT
  <1>4. Len(iface[h].rest) <= BUFFER_SIZE - Len(rcv[h].buf)
    BY DEF processInOrderData, Free
  <1> HIDE DEF b
  <1>5. Len(b) <= BUFFER_SIZE
    <2>1. \A m, n, k \in Nat : n <= k - m => m + n <= k
      OBVIOUS
    <2> QED BY <1>1, <1>2, <1>4, <2>1, ConstantsAssumption
  <1>6. Free(b) \in Wnds
    BY <1>2, <1>5, FreeType
  <1>7. FullRCV(h) = [rcv[h] EXCEPT !.buf = b, !.NXT = NewNXT(h), !.WND = Free(b)]
    BY DEF FullRCV, b
  <1> QED BY <1>1, <1>2, <1>3, <1>6, <1>7 DEF RCV, b

\* The interface goroutine.
LEMMA ReceivingLocal == ASSUME IInv, AInv, NEW h \in Hosts, Receiving(h) PROVE Local(h)
  <1> DEFINE g == Head(net[h])
  <1>0. /\ state \in [Hosts -> States] /\ snd \in [Hosts -> SND] /\ rcv \in [Hosts -> RCV]
        /\ iface \in [Hosts -> IFACE] /\ g = Head(net[h])
    BY Owned
  <1>g. Receives(h, g) => g \in Wire(Peer(h)) /\ g \in Segments
    BY HeadWire
  <1> HIDE DEF g
  <1>k. ASSUME Kept(snd'[h], snd[h]) PROVE snd'[h].ISS = snd[h].ISS
    BY <1>k DEF Kept
  <1>1. CASE h = Server /\ handleSYN(g)
    <2>1. /\ rcv'[h].IRS = g.seq /\ rcv'[h].buf = <<>> /\ state[h] = "NONE" /\ state'[h] = "SYN_RECEIVED"
          /\ "SYN" \in g.flags /\ g \in Wire(Peer(h))
      BY <1>0, <1>1, <1>g DEF handleSYN, NewRCV
    <2> QED BY <1>1, <2>1 DEF Local, NumbersSet, StateEarned, WorkAllowed, handleSYN, threads, history, Ended
  <1>2. CASE handleSYNACK(h, g)
    <2>1. /\ rcv'[h].IRS = g.seq /\ rcv'[h].buf = rcv[h].buf /\ snd'[h].ISS = snd[h].ISS
          /\ snd'[h].UNA = g.ack /\ state[h] = "SYN_SENT" /\ state'[h] = "ESTABLISHED"
          /\ {"SYN", "ACK"} \subseteq g.flags /\ g \in Wire(Peer(h))
      BY <1>0, <1>2, <1>g DEF handleSYNACK, SND, RCV
    <2>2. conn'.established
      BY <1>2 DEF handleSYNACK, IInv, TypeOK
    <2> QED BY <1>2, <2>1, <2>2 DEF Local, NumbersSet, StateEarned, WorkAllowed, handleSYNACK, history, Ended
  <1>3. CASE handleACK(h, g)
    <2>1. snd'[h].ISS = snd[h].ISS
      <3> DEFINE s == cleanUpInFlightPackets(snd[h], g.ack)
      <3>1. g.ack \in Seqs
        BY <1>3, <1>g DEF handleACK, Segments
      <3>2. s \in SND /\ s.ISS = snd[h].ISS
        BY <1>0, <3>1, CleanUpKeeps, CleanUpType DEF Kept
      <3>3. snd'[h] = [s EXCEPT !.timer = s.inFlight # {}]
        BY <1>0, <1>3 DEF handleACK
      <3> HIDE DEF s
      <3> QED BY <3>2, <3>3 DEF SND
    <2>2. /\ state[h] = "SYN_RECEIVED" /\ state'[h] = "ESTABLISHED" /\ "ACK" \in g.flags
          /\ g \in Wire(Peer(h))
      BY <1>0, <1>3, <1>g DEF handleACK
    <2> QED BY <1>3, <2>1, <2>2
            DEF Local, NumbersSet, StateEarned, WorkAllowed, handleACK, threads, history, Coming, Ended
  <1>4. CASE handleEstablishedPacket(h, g)
    <2> DEFINE s == [snd[h] EXCEPT !.WND = g.wnd]
               r == IF g.data = <<>> THEN rcv[h]
                    ELSE [rcv[h] EXCEPT !.early = @ \cup {[seq |-> g.seq, data |-> g.data]}]
               c == state[h] \in FinWait /\ "ACK" \in g.flags
    <2>1. AfterData(h, s, r, g, c) /\ state[h] \in FinWait \cup {"ESTABLISHED"} /\ g \in Segments
      BY <1>4, <1>g DEF handleEstablishedPacket
    <2>2. s \in SND /\ s.ISS = snd[h].ISS
      BY <1>0, <2>1 DEF SND, Segments
    <2>3. r \in RCV /\ r.IRS = rcv[h].IRS /\ r.buf = rcv[h].buf
      <3>1. [seq |-> g.seq, data |-> g.data] \in Early
        BY <2>1 DEF Early, Segments
      <3>2. rcv[h].early \cup {[seq |-> g.seq, data |-> g.data]} \in SUBSET Early
        BY <1>0, <3>1 DEF RCV
      <3> QED BY <1>0, <3>2 DEF RCV
    <2>4. c \in BOOLEAN
      OBVIOUS
    <2> HIDE DEF s, r, c
    <2>5. /\ snd'[h].ISS = snd[h].ISS /\ rcv'[h].IRS = rcv[h].IRS /\ rcv'[h].buf = rcv[h].buf
          /\ state'[h] = state[h] \/ state'[h] = ClosingState(state[h])
      BY <2>1, <2>2, <2>3, <2>4, AfterDataKeeps DEF Kept
    <2>6. state'[h] \notin Ended
      BY <2>1, <2>5 DEF Ended, FinWait, ClosingState
    <2> QED BY <1>4, <2>1, <2>5, <2>6
            DEF Local, NumbersSet, StateEarned, WorkAllowed, handleEstablishedPacket, threads, history, FinWait
  <1>5. CASE handleData(h, g)
    <2>1. snd'[h].ISS = snd[h].ISS
      BY <1>0, <1>5 DEF handleData, SND
    <2> QED BY <1>5, <2>1 DEF Local, NumbersSet, StateEarned, WorkAllowed, handleData, history
  <1>6. CASE handleFIN(h, g)
    <2>1. g.ack \in Seqs /\ g \in Wire(Peer(h)) /\ "FIN" \in g.flags
      BY <1>6, <1>g DEF handleFIN, Segments
    <2>2. snd'[h].ISS = snd[h].ISS
      BY <1>0, <1>6, <2>1, CleanUpKeeps DEF handleFIN, Kept
    <2>3. rcv'[h].IRS = rcv[h].IRS /\ rcv'[h].buf = rcv[h].buf
      BY <1>0, <1>6 DEF handleFIN, RCV
    <2>4. state[h] \in {"ESTABLISHED", "FIN_WAIT_2", "TIME_WAIT"} /\ state'[h] \in {"CLOSE_WAIT", "TIME_WAIT"}
      BY <1>0, <1>6 DEF handleFIN
    <2> QED BY <1>6, <2>1, <2>2, <2>3, <2>4
            DEF Local, NumbersSet, StateEarned, WorkAllowed, handleFIN, threads, history, Coming
  <1>7. CASE handleClosingACK(h, g)
    <2>1. g \in Segments
      BY <1>7, <1>g DEF handleClosingACK
    <2>2. snd'[h].ISS = snd[h].ISS
      BY <1>0, <1>7, <2>1, ClosingKeeps DEF handleClosingACK, Kept
    <2>3. rcv'[h].IRS = rcv[h].IRS /\ rcv'[h].buf = rcv[h].buf
      BY <1>0, <1>7 DEF handleClosingACK, RCV
    <2>4. state[h] \in FinWait \cup {"TIME_WAIT", "LAST_ACK"} /\ state'[h] = ClosingState(state[h])
      BY <1>0, <1>7 DEF handleClosingACK
    <2>5. state'[h] \notin {"NONE", "ESTABLISHED"} /\ (state[h] \notin Ended => state'[h] \notin Ended)
      BY <2>4 DEF ClosingState, FinWait, Ended
    <2> QED BY <1>7, <2>2, <2>3, <2>4, <2>5
            DEF Local, NumbersSet, StateEarned, WorkAllowed, handleClosingACK, threads, history, FinWait
  <1>8. CASE handleRST(h, g) \/ ignore(h, g)
    BY <1>0, <1>8 DEF Local, NumbersSet, StateEarned, WorkAllowed, handleRST, ignore, sockets, threads, history, Ended
  <1>9. CASE rcvBufWrite(h)
    <2>1. rcv'[h].IRS = rcv[h].IRS /\ iface[h].pc = "write"
      BY <1>0, <1>9 DEF rcvBufWrite, RCV
    <2> QED BY <1>9, <2>1 DEF Local, NumbersSet, StateEarned, WorkAllowed, rcvBufWrite, history
  <1>10. CASE processInOrderData(h)
    <2>1. iface[h].pc = "write" /\ repl' = repl /\ rtx' = rtx /\ conn' = conn /\ written' = written
      BY <1>10 DEF processInOrderData, history
    <2>2. ASSUME NEW e, GoesOn(h, e) PROVE Local(h)
      <3>1. rcv'[h].IRS = rcv[h].IRS /\ state' = state /\ snd' = snd
        BY <1>0, <2>2 DEF GoesOn, RCV
      <3> QED BY <2>1, <3>1 DEF Local, NumbersSet, StateEarned, WorkAllowed
    <2>3. CASE Finishes(h)
      <3>1. FullRCV(h) \in RCV /\ FullRCV(h).IRS = rcv[h].IRS
        BY <1>10, FullType
      <3>2. /\ snd'[h].ISS = snd[h].ISS /\ rcv'[h].IRS = rcv[h].IRS
            /\ state'[h] = state[h] \/ state'[h] = ClosingState(state[h])
        BY <1>0, <2>3, <3>1, Owned, AfterDataKeeps DEF Finishes, Kept
      <3>3. /\ state[h] \in {"NONE", "SYN_SENT", "SYN_RECEIVED"} => state'[h] = state[h]
            /\ state[h] \notin Ended => state'[h] \notin Ended
        BY <3>2 DEF ClosingState, Ended
      <3> QED BY <2>1, <3>2, <3>3 DEF Local, NumbersSet, StateEarned, WorkAllowed
    <2> QED BY <1>10, <2>2, <2>3, InOrderCases
  <1> QED
    BY <1>1, <1>2, <1>3, <1>4, <1>5, <1>6, <1>7, <1>8, <1>9, <1>10 DEF Receiving, HandlePacket, g

\* sendFIN leaves the numbers alone.
LEMMA FINKeeps ==
  ASSUME IInv, NEW h \in Hosts, NEW s \in SND, sendFIN(h, s)
  PROVE  /\ snd'[h].ISS = s.ISS /\ snd'[h].NXT = s.NXT /\ snd'[h].UNA = s.UNA /\ snd'[h].buf = s.buf
         /\ \A p \in snd'[h].inFlight :
               p \in s.inFlight \/ (p.flags = {"FIN"} /\ p.data = <<>> /\ p.seq = SeqNum[h])
         /\ s.inFlight \subseteq snd'[h].inFlight
  <1> DEFINE p == Packet({"FIN"}, SeqNum[h], 0, 0, <<>>)
             q == [p EXCEPT !.at = s.place + 1]
             u == [Tracked(s, p) EXCEPT !.timer = @ \/ s.inFlight = {}]
  <1>1. snd'[h] = u
    BY Owned DEF sendFIN
  <1>2. q.flags = {"FIN"} /\ q.data = <<>> /\ q.seq = SeqNum[h]
    BY DEF Packet
  <1> HIDE DEF p, q
  <1>3. /\ u.ISS = s.ISS /\ u.NXT = s.NXT /\ u.UNA = s.UNA /\ u.buf = s.buf
        /\ u.inFlight = s.inFlight \cup {q}
    BY DEF Tracked, SND, q
  <1> QED BY <1>1, <1>2, <1>3

\* Opening the connection, and what ends the wait for it.
LEMMA ConnectingLocal ==
  ASSUME IInv, NEW h \in Hosts,
         (h = Client /\ (VConnect \/ VConnectReturn \/ HandshakeTimeout)) \/ (h = Server /\ VAccept)
  PROVE  Local(h)
  <1>1. CASE h = Client /\ VConnect
    <2>1. state[h] = "NONE" /\ state'[h] = "SYN_SENT" /\ rcv'[h].buf = <<>>
      BY <1>1, Owned DEF VConnect, NewRCV
    <2> QED BY <1>1, <2>1 DEF Local, NumbersSet, StateEarned, WorkAllowed, VConnect, history, Ended
  <1>2. CASE (h = Client /\ VConnectReturn) \/ (h = Server /\ VAccept)
    <2>1. conn'.established = conn.established
      BY <1>2 DEF VConnectReturn, VAccept, threads, IInv, TypeOK
    <2> QED BY <1>2, <2>1 DEF Local, NumbersSet, StateEarned, WorkAllowed, VConnectReturn, VAccept,
                              sockets, threads, history
  <1>3. CASE h = Client /\ HandshakeTimeout
    <2>1. state'[h] = state[h] \/ (state[h] = "SYN_SENT" /\ state'[h] = "CLOSED")
      BY <1>3, Owned DEF HandshakeTimeout
    <2>2. conn'.established = conn.established
      BY <1>3 DEF HandshakeTimeout, IInv, TypeOK
    <2> QED BY <1>3, <2>1, <2>2 DEF Local, NumbersSet, StateEarned, WorkAllowed, HandshakeTimeout, Ended
  <1> QED BY <1>1, <1>2, <1>3

\* The application's calls and their returns.
LEMMA ApplicationLocal ==
  ASSUME IInv, NEW h \in Hosts, Application(h) \/ VReadReturn(h) \/ VCloseReturn(h) PROVE Local(h)
  <1>0. snd[h] \in SND /\ rcv[h] \in RCV
    BY Owned
  <1>1. CASE VWrite(h)
    <2>1. snd'[h].ISS = snd[h].ISS /\ repl'[h].pc = "send"
      BY <1>0, <1>1, Owned DEF VWrite, TryWrite, SND, Idle
    <2> QED BY <1>1, <2>1 DEF Local, NumbersSet, StateEarned, WorkAllowed, VWrite, AppIdle
  <1>2. CASE VRead(h)
    <2>1. repl'[h].pc = "read"
      BY <1>2, Owned DEF VRead, REPL
    <2> QED BY <1>2, <2>1 DEF Local, NumbersSet, StateEarned, WorkAllowed, VRead, AppIdle, sockets, history, Open
  <1>3. CASE VClose(h)
    <2>1. snd'[h].ISS = snd[h].ISS /\ state[h] \in Open
      BY <1>0, <1>3, FINKeeps DEF VClose, sendFIN
    <2> QED BY <1>3, <2>1 DEF Local, NumbersSet, StateEarned, WorkAllowed, VClose, AppIdle, history
  <1>4. CASE sendRST(h)
    BY <1>4 DEF Local, NumbersSet, StateEarned, WorkAllowed, sendRST, sockets, threads
  <1>5. CASE VReadReturn(h)
    <2>1. rcv'[h].IRS = rcv[h].IRS /\ repl'[h].pc = "idle" /\ repl[h].pc = "read"
      BY <1>0, <1>5, Owned DEF VReadReturn, RCV, Idle
    <2> QED BY <1>5, <2>1 DEF Local, NumbersSet, StateEarned, WorkAllowed, VReadReturn
  <1>6. CASE VCloseReturn(h)
    <2>1. state'[h] = CloseState(state[h]) /\ repl'[h].pc = "idle" /\ repl[h].pc = "close"
      BY <1>6, Owned DEF VCloseReturn, closeEnds, Idle
    <2>2. /\ state[h] \in {"NONE", "SYN_SENT", "SYN_RECEIVED"} => state'[h] = state[h]
          /\ state[h] \notin Ended => state'[h] \notin Ended
      BY <2>1 DEF CloseState, Ended
    <2> QED BY <1>6, <2>1, <2>2 DEF Local, NumbersSet, StateEarned, WorkAllowed, VCloseReturn
  <1> QED BY <1>1, <1>2, <1>3, <1>4, <1>5, <1>6 DEF Application

\* Sending and probing.
LEMMA SendingLocal ==
  ASSUME IInv, NEW h \in Hosts, Sending(h) \/ Probing(h) PROVE Local(h)
  <1>0. snd[h] \in SND /\ repl[h] \in REPL
    BY Owned
  <1>1. CASE VWriteLoop(h)
    <2>1. CASE TryWrite(h, repl[h].data)
      <3>1. snd'[h].ISS = snd[h].ISS /\ repl'[h].pc = "send"
        BY <1>0, <2>1, Owned DEF TryWrite, SND, Idle
      <3> QED BY <1>1, <3>1 DEF Local, NumbersSet, StateEarned, WorkAllowed, VWriteLoop, history
    <2>2. CASE repl' = [repl EXCEPT ![h] = Idle] /\ UNCHANGED snd
      <3>1. repl'[h].pc = "idle"
        BY <2>2, Owned DEF Idle
      <3> QED BY <1>1, <2>2, <3>1 DEF Local, NumbersSet, StateEarned, WorkAllowed, VWriteLoop, history
    <2> QED BY <1>1, <2>1, <2>2 DEF VWriteLoop
  <1>2. CASE trySendData(h)
    <2>1. snd'[h].ISS = snd[h].ISS /\ repl'[h].pc = "arm" /\ repl[h].pc = "send"
      BY <1>0, <1>2, Owned DEF trySendData, SND, REPL
    <2> QED BY <1>2, <2>1 DEF Local, NumbersSet, StateEarned, WorkAllowed, trySendData, history
  <1>3. CASE startTimer(h)
    <2>1. snd'[h].ISS = snd[h].ISS /\ repl'[h].pc = "track" /\ repl[h].pc = "arm"
      BY <1>0, <1>3, Owned DEF startTimer, SND, REPL
    <2> QED BY <1>3, <2>1 DEF Local, NumbersSet, StateEarned, WorkAllowed, startTimer, history
  <1>4. CASE trackPacket(h)
    <2>1. snd'[h].ISS = snd[h].ISS
      BY <1>0, <1>4, Owned DEF trackPacket, SND, Tracked
    <2>2. repl'[h].pc = "send" /\ repl[h].pc = "track"
      BY <1>0, <1>4, Owned DEF trackPacket, REPL
    <2> QED BY <1>4, <2>1, <2>2 DEF Local, NumbersSet, StateEarned, WorkAllowed, trackPacket, history
  <1>5. CASE startProbing(h)
    <2>1. snd'[h].ISS = snd[h].ISS /\ repl'[h].pc = "zwp" /\ repl[h].pc = "send"
      BY <1>0, <1>5, Owned DEF startProbing, SND, REPL
    <2> QED BY <1>5, <2>1 DEF Local, NumbersSet, StateEarned, WorkAllowed, startProbing, history
  <1>6. CASE sendZeroWindowProbe(h)
    <2>1. repl'[h].pc = "zwp" /\ repl[h].pc = "zwp"
      BY <1>0, <1>6, Owned DEF sendZeroWindowProbe, REPL
    <2> QED BY <1>6, <2>1 DEF Local, NumbersSet, StateEarned, WorkAllowed, sendZeroWindowProbe, sockets
  <1>7. CASE probingEnds(h)
    <2>1. CASE repl' = [repl EXCEPT ![h] = Idle] /\ UNCHANGED snd
      <3>1. repl'[h].pc = "idle"
        BY <2>1, Owned DEF Idle
      <3> QED BY <1>7, <2>1, <3>1 DEF Local, NumbersSet, StateEarned, WorkAllowed, probingEnds
    <2>2. CASE /\ snd' = [snd EXCEPT ![h].NXT = Plus(@, 1)]
               /\ repl' = [repl EXCEPT ![h] = [@ EXCEPT !.pc = "send", !.seg = <<>>, !.n = 0]]
      <3>1. snd'[h].ISS = snd[h].ISS /\ repl'[h].pc = "send"
        BY <1>0, <2>2, Owned DEF SND, REPL
      <3> QED BY <1>7, <3>1 DEF Local, NumbersSet, StateEarned, WorkAllowed, probingEnds
    <2> QED BY <1>7, <2>1, <2>2 DEF probingEnds
  <1> QED BY <1>1, <1>2, <1>3, <1>4, <1>5, <1>6, <1>7 DEF Sending, Probing

\* manageRetransmissions.
LEMMA RetransmittingLocal ==
  ASSUME IInv, NEW h \in Hosts, Retransmitting(h) PROVE Local(h)
  <1>0. snd[h] \in SND /\ rtx[h] \in RTX
    BY Owned
  <1> DEFINE s == [snd[h] EXCEPT !.timer = FALSE]
  <1>s. s \in SND /\ s.ISS = snd[h].ISS
    BY <1>0 DEF SND
  <1>1. CASE retransmitPacket(h)
    <2>1. rtx'[h].pc = "relist" /\ snd'[h].ISS = snd[h].ISS
      BY <1>0, <1>1, Owned DEF retransmitPacket, RtxAt, SND
    <2>2. rtx[h].pc = "idle"
      BY <1>1 DEF retransmitPacket, Expired
    <2> QED BY <1>1, <2>1, <2>2 DEF Local, NumbersSet, StateEarned, WorkAllowed, retransmitPacket
  <1>2. CASE relistPacket(h)
    <2> DEFINE others == {q \in snd[h].inFlight : q.seq # rtx[h].pkt.seq}
               v == [snd[h] EXCEPT !.inFlight = others, !.place = IF others = {} THEN 0 ELSE @]
               t == Tracked(v, [rtx[h].pkt EXCEPT !.len = 0])
               u == [t EXCEPT !.retransmissions = @ + 1, !.timer = TRUE]
    <2>1. snd'[h] = u /\ rtx'[h] = RtxIdle /\ rtx[h].pc = "relist"
      BY <1>2, Owned DEF relistPacket
    <2>2. v.ISS = snd[h].ISS /\ DOMAIN v = DOMAIN snd[h]
      BY <1>0 DEF SND
    <2> HIDE DEF v
    <2>3. t.ISS = v.ISS /\ DOMAIN t = DOMAIN v
      BY <1>0, <2>2 DEF Tracked, SND
    <2> HIDE DEF t
    <2>4. u.ISS = t.ISS
      BY <1>0, <2>2, <2>3 DEF SND
    <2>5. snd'[h].ISS = snd[h].ISS /\ rtx'[h].pc = "idle"
      BY <2>1, <2>2, <2>3, <2>4 DEF RtxIdle, RtxAt
    <2> QED BY <1>2, <2>1, <2>5 DEF Local, NumbersSet, StateEarned, WorkAllowed, relistPacket, history
  <1>3. CASE nothingToRetransmit(h)
    <2>1. snd'[h].ISS = snd[h].ISS
      BY <1>0, <1>3, Owned DEF nothingToRetransmit, SND
    <2> QED BY <1>3, <2>1 DEF Local, NumbersSet, StateEarned, WorkAllowed, nothingToRetransmit, threads
  <1>4. CASE giveUp(h)
    <2>1. CASE sendFIN(h, s) /\ rtx' = [rtx EXCEPT ![h].pc = "close"]
      <3>1. snd'[h].ISS = snd[h].ISS /\ state[h] \in Open
        <4> HIDE DEF s
        <4> QED BY <1>s, <2>1, FINKeeps DEF sendFIN
      <3> QED BY <1>4, <3>1 DEF Local, NumbersSet, StateEarned, WorkAllowed, giveUp, Expired
    <2>2. CASE snd' = [snd EXCEPT ![h] = s] /\ rtx' = rtx
      <3>1. snd'[h].ISS = snd[h].ISS
        BY <1>s, <2>2, Owned
      <3> QED BY <1>4, <2>2, <3>1 DEF Local, NumbersSet, StateEarned, WorkAllowed, giveUp
    <2> QED BY <1>4, <2>1, <2>2 DEF giveUp
  <1>5. CASE giveUpReturn(h)
    <2>1. state'[h] = CloseState(state[h]) /\ rtx'[h].pc = "idle"
      BY <1>5, Owned DEF giveUpReturn, closeEnds, RtxIdle, RtxAt
    <2>2. /\ state[h] \in {"NONE", "SYN_SENT", "SYN_RECEIVED"} => state'[h] = state[h]
          /\ state[h] \notin Ended => state'[h] \notin Ended
      BY <2>1 DEF CloseState, Ended
    <2> QED BY <1>5, <2>1, <2>2 DEF Local, NumbersSet, StateEarned, WorkAllowed, giveUpReturn
  <1> QED BY <1>1, <1>2, <1>3, <1>4, <1>5 DEF Retransmitting

\* Every step of a host keeps to what is said above.
LEMMA StepLocal == ASSUME IInv, AInv, NEW h \in Hosts, Step(h) PROVE Local(h)
  <1>1. CASE TimeWaitExpires(h)
    BY <1>1, Owned DEF Local, NumbersSet, StateEarned, WorkAllowed, TimeWaitExpires, threads, Ended
  <1>2. CASE Fault(h)
    BY <1>2 DEF Local, NumbersSet, StateEarned, WorkAllowed, Fault, sockets, threads
  <1>3. CASE (h = Client /\ (VConnect \/ VConnectReturn \/ HandshakeTimeout)) \/ (h = Server /\ VAccept)
    BY <1>3, ConnectingLocal
  <1>4. CASE Application(h) \/ VReadReturn(h) \/ VCloseReturn(h)
    BY <1>4, ApplicationLocal
  <1>5. CASE Sending(h) \/ Probing(h)
    BY <1>5, SendingLocal
  <1>6. CASE Retransmitting(h)
    BY <1>6, RetransmittingLocal
  <1>7. CASE Receiving(h)
    BY <1>7, ReceivingLocal
  <1> QED BY <1>1, <1>2, <1>3, <1>4, <1>5, <1>6, <1>7 DEF Step

-----------------------------------------------------------------------------
(* Where segments and packets come from *)

\* The handshake of h has reached the point from which it acknowledges.
Connected(h) == IF h = Client THEN conn.established ELSE state[Server] # "NONE"

\* Until then h has nothing but its SYN to send.
Silent(h) ==
    /\ state[h] \in {"NONE", "SYN_SENT", "CLOSED"}
    /\ repl[h].pc = "idle" /\ iface[h].pc = "idle" /\ rtx[h].pc # "close"
    /\ Received(h) = <<>> /\ written[h] = 0
    /\ \A x \in Sent(h) : x.flags \cap {"ACK", "FIN"} = {}
SilentInv == \A h \in Hosts : ~Connected(h) => Silent(h)

\* A goroutine of h has sent a FIN and is about to write the state.
AtClose(h) == repl[h].pc = "close" \/ rtx[h].pc = "close"

\* h has not sent a FIN yet.
Young == {"NONE", "SYN_SENT", "SYN_RECEIVED"}
BeforeFIN(h) == state[h] \in Young \cup Open /\ ~AtClose(h)

\* x says what a packet of h says, or what the step of h makes it say.
Copy(h, x) == \E p \in Listed(h) : x.flags = p.flags /\ x.seq = p.seq /\ x.data = p.data
Fresh(h, x) ==
    /\ "SYN" \in x.flags => x.seq = snd'[h].ISS /\ state'[h] # "NONE"
    /\ "ACK" \in x.flags => Connected(h)'
    /\ "FIN" \in x.flags => AtClose(h)' /\ x.seq = SeqNum[h] /\ state[h] \in Open
    /\ x.data # <<>> => \/ x.seq = snd'[h].NXT /\ x.data = repl'[h].seg
                        \/ x.seq = snd[h].NXT /\ x.data = repl[h].seg

WireSourced(h) ==
    /\ Wire(Peer(h))' \subseteq Wire(Peer(h))
    /\ \A x \in Wire(h)' : \/ x \in Wire(h)
                           \/ /\ "ACK" \in x.flags => x.ack = rcv'[h].NXT
                              /\ Copy(h, x) \/ Fresh(h, x)
ListSourced(h) == \A p \in Listed(h)' : Copy(h, p) \/ Fresh(h, p)
Sourced(h) == WireSourced(h) /\ ListSourced(h)

\* A connection that is set up stays so.
LEMMA StaysConnected ==
  ASSUME IInv, AInv, NEW h \in Hosts, Step(h) PROVE \A k \in Hosts : Connected(k) => Connected(k)'
  <1>1. \A k \in Hosts : Follows(state[k], state'[k])
    BY StepNext, NextLifecycle
  <1>2. conn.established => conn'.established
    BY StepLocal DEF Local, StateEarned
  <1>3. Server \in Hosts
    BY DEF Hosts
  <1> QED BY <1>1, <1>2, <1>3 DEF Connected, Follows

\* A host whose goroutines are at work is connected.
LEMMA AtWork ==
  ASSUME SilentInv, NEW h \in Hosts,
         \/ repl[h].pc # "idle" \/ iface[h].pc # "idle" \/ rtx[h].pc = "close"
         \/ state[h] \notin {"NONE", "SYN_SENT", "CLOSED"}
         \/ \E x \in Sent(h) : "ACK" \in x.flags
  PROVE  Connected(h)
  BY DEF SilentInv, Silent

\* A segment without a payload and without a flag of interest.
LEMMA EmptyFresh ==
  ASSUME NEW h, NEW x, x.data = <<>>, "SYN" \notin x.flags, "FIN" \notin x.flags,
         "ACK" \in x.flags => Connected(h)'
  PROVE  Fresh(h, x)
  BY DEF Fresh

\* A list from which packets were only dropped.
LEMMA ListKept ==
  ASSUME IInv, NEW h \in Hosts, snd'[h].inFlight \subseteq snd[h].inFlight,
         rtx'[h] = rtx[h] \/ rtx'[h].pkt = rtx[h].pkt \/ rtx'[h] = RtxIdle
  PROVE  ListSourced(h)
  <1> SUFFICES ASSUME NEW p \in Listed(h)' PROVE Copy(h, p) \/ Fresh(h, p)
    BY DEF ListSourced
  <1>1. CASE p \in Listed(h)
    BY <1>1 DEF Copy
  <1>2. CASE p = RtxIdle.pkt
    BY <1>2 DEF RtxIdle, RtxAt, Packet, Fresh
  <1> QED BY <1>1, <1>2 DEF Listed

\* The acknowledgement that handlers answer with.
LEMMA AnswerSourced ==
  ASSUME IInv, NEW h \in Hosts, Connected(h)', NEW s \in SND, NEW r \in RCV, NEW w \in Wnds,
         r.NXT = rcv'[h].NXT,
         \/ net[h] # <<>> /\ (Exchange(h, <<>>) \/ Exchange(h, <<AckOf(s, r, w, <<>>)>>))
         \/ Send(h, AckOf(s, r, w, <<>>))
  PROVE  WireSourced(h)
  <1> DEFINE x == AckOf(s, r, w, <<>>)
  <1>1. x.flags = {"ACK"} /\ x.data = <<>> /\ x.ack = rcv'[h].NXT
    BY DEF AckOf, Segment
  <1>2. x \in Segments
    BY NoBytes, AckOfType
  <1> HIDE DEF x
  <1>3. Fresh(h, x)
    BY <1>1, EmptyFresh
  <1>4. CASE net[h] # <<>> /\ Exchange(h, <<>>)
    BY <1>4, TakeWire DEF WireSourced
  <1>5. CASE net[h] # <<>> /\ Exchange(h, <<x>>)
    BY <1>1, <1>2, <1>3, <1>5, ReplyWire DEF WireSourced
  <1>6. CASE Send(h, x)
    BY <1>1, <1>2, <1>3, <1>6, SendWire DEF WireSourced
  <1> QED BY <1>4, <1>5, <1>6 DEF x

\* A segment taken off the wire without an answer, or nothing on the wire at all.
LEMMA NothingSent ==
  ASSUME IInv, NEW h \in Hosts, (net[h] # <<>> /\ Exchange(h, <<>>)) \/ net' = net
  PROVE  WireSourced(h)
  <1>1. CASE net[h] # <<>> /\ Exchange(h, <<>>)
    BY <1>1, TakeWire DEF WireSourced
  <1>2. CASE net' = net
    BY <1>2 DEF WireSourced, Wire
  <1> QED BY <1>1, <1>2

\* The server's answer to the SYN.
LEMMA SYNSourced == ASSUME IInv, NEW g, handleSYN(g) PROVE Sourced(Server)
  <1> DEFINE h == Server
             r == NewRCV(g.seq, Plus(g.seq, 1))
             f == {"SYN", "ACK"}
  <1>1. PICK isn \in ISNs[h] :
           /\ snd' = [snd EXCEPT ![h] =
                       [Tracked(NewSND(isn, g.wnd), Packet(f, isn, 0, r.WND, <<>>))
                          EXCEPT !.timer = TRUE]]
           /\ rcv' = [rcv EXCEPT ![h] = r]
           /\ Exchange(h, <<Segment(f, isn, r.NXT, r.WND, <<>>)>>)
    BY DEF handleSYN
  <1> DEFINE x == Segment(f, isn, r.NXT, r.WND, <<>>)
             p == [Packet(f, isn, 0, r.WND, <<>>) EXCEPT !.at = 1]
  <1>2. /\ h \in Hosts /\ isn \in Seqs /\ <<>> \in Bytes /\ f \in SUBSET Flags
        /\ h # Client
    BY ConstantsAssumption DEF Seqs, Hosts, Bytes, Flags
  <1>3. net[h] # <<>> /\ g.seq \in Seqs /\ g.wnd \in Wnds
    BY <1>2, ReceivesType DEF handleSYN
  <1>4. r \in RCV /\ r.WND \in Wnds /\ r.NXT \in Seqs
    <2>1. r \in RCV
      BY <1>3, PlusSeqs, NewRCVType
    <2> QED BY <2>1 DEF RCV
  <1>5. x \in Segments
    BY <1>2, <1>4, SegmentType
  <1>6. rcv'[h] = r /\ state'[h] = "SYN_RECEIVED" /\ rtx'[h] = rtx[h]
    BY <1>1, <1>2, Owned DEF handleSYN, threads
  <1>7. snd'[h].ISS = isn /\ snd'[h].inFlight = {p}
    BY <1>1, <1>2, Owned DEF Tracked, NewSND
  <1>8. Connected(h)'
    BY <1>2, <1>6 DEF Connected
  <1>9. /\ x.flags = f /\ x.seq = isn /\ x.data = <<>> /\ x.ack = rcv'[h].NXT
        /\ p.flags = f /\ p.seq = isn /\ p.data = <<>>
    BY <1>6 DEF Segment, Packet
  <1> HIDE DEF x, p, r
  <1>10. Fresh(h, x) /\ Fresh(h, p)
    BY <1>6, <1>7, <1>8, <1>9 DEF Fresh
  <1>11. WireSourced(h)
    BY <1>1, <1>2, <1>3, <1>5, <1>9, <1>10, ReplyWire DEF WireSourced, x, r
  <1>12. ListSourced(h)
    <2> SUFFICES ASSUME NEW q \in Listed(h)' PROVE Copy(h, q) \/ Fresh(h, q)
      BY DEF ListSourced
    <2>1. q = p \/ q \in Listed(h)
      BY <1>6, <1>7 DEF Listed
    <2> QED BY <1>10, <2>1 DEF Copy
  <1> QED BY <1>11, <1>12 DEF Sourced

\* The interface goroutine answers with acknowledgements only.
LEMMA ReceivingSourced ==
  ASSUME IInv, AInv, SilentInv, NEW h \in Hosts, Step(h), Receiving(h) PROVE Sourced(h)
  <1> DEFINE g == Head(net[h])
  <1>0. /\ state \in [Hosts -> States] /\ snd \in [Hosts -> SND] /\ rcv \in [Hosts -> RCV]
        /\ iface \in [Hosts -> IFACE] /\ rtx \in [Hosts -> RTX] /\ rcv[h].WND \in Wnds
        /\ Connected(h) => Connected(h)'
    BY Owned, HostType, StaysConnected
  <1>g. Receives(h, g) => g \in Wire(Peer(h)) /\ g \in Segments /\ net[h] # <<>>
    BY HeadWire
  <1> HIDE DEF g
  <1>k. ASSUME Kept(snd'[h], snd[h]), rtx' = rtx PROVE ListSourced(h)
    BY <1>k, ListKept DEF Kept
  <1>1. CASE h = Server /\ handleSYN(g)
    BY <1>1, SYNSourced
  <1>2. CASE handleSYNACK(h, g)
    <2> DEFINE r == [rcv[h] EXCEPT !.IRS = g.seq, !.NXT = Plus(g.seq, 1)]
               s == [snd[h] EXCEPT !.UNA = g.ack, !.NXT = g.ack, !.WND = g.wnd,
                                   !.timer = FALSE, !.inFlight = {}, !.place = 0]
    <2>1. /\ rcv' = [rcv EXCEPT ![h] = r] /\ snd' = [snd EXCEPT ![h] = s]
          /\ Exchange(h, <<AckOf(s, r, r.WND, <<>>)>>)
      BY <1>2 DEF handleSYNACK
    <2>2. g \in Segments /\ net[h] # <<>> /\ g.seq \in Seqs /\ g.ack \in Seqs /\ g.wnd \in Wnds
      BY <1>2, <1>g DEF handleSYNACK, Segments
    <2>3. Plus(g.seq, 1) \in Seqs
      BY <2>2, PlusSeqs
    <2>4. r \in RCV /\ r.WND \in Wnds
      BY <1>0, <2>2, <2>3 DEF RCV
    <2>5. s \in SND /\ s.inFlight = {}
      BY <1>0, <2>2 DEF SND
    <2> HIDE DEF r, s
    <2>6. rcv'[h] = r /\ snd'[h] = s /\ rtx' = rtx
      BY <1>0, <1>2, <2>1 DEF handleSYNACK
    <2>7. Connected(h)'
      <3>1. h = Client
        BY <1>2 DEF handleSYNACK, AInv, Hosts
      <3>2. conn'.established
        BY <1>2 DEF handleSYNACK, IInv, TypeOK
      <3> QED BY <3>1, <3>2 DEF Connected
    <2>8. WireSourced(h)
      BY <2>1, <2>2, <2>4, <2>5, <2>6, <2>7, AnswerSourced
    <2>9. ListSourced(h)
      BY <2>5, <2>6, ListKept
    <2> QED BY <2>8, <2>9 DEF Sourced
  <1>3. CASE handleACK(h, g)
    <2> DEFINE c == cleanUpInFlightPackets(snd[h], g.ack)
    <2>1. g.ack \in Seqs /\ net[h] # <<>> /\ Exchange(h, <<>>) /\ rtx' = rtx
      BY <1>3, <1>g DEF handleACK, Segments, threads
    <2>2. c \in SND /\ c.inFlight \subseteq snd[h].inFlight
      BY <1>0, <2>1, CleanUpKeeps, CleanUpType DEF Kept
    <2>3. snd'[h] = [c EXCEPT !.timer = c.inFlight # {}]
      BY <1>0, <1>3 DEF handleACK
    <2> HIDE DEF c
    <2>4. snd'[h].inFlight \subseteq snd[h].inFlight
      BY <2>2, <2>3 DEF SND
    <2> QED BY <2>1, <2>4, ListKept, NothingSent DEF Sourced
  <1>4. CASE handleEstablishedPacket(h, g)
    <2> DEFINE s == [snd[h] EXCEPT !.WND = g.wnd]
               r == IF g.data = <<>> THEN rcv[h]
                    ELSE [rcv[h] EXCEPT !.early = @ \cup {[seq |-> g.seq, data |-> g.data]}]
               c == state[h] \in FinWait /\ "ACK" \in g.flags
    <2>1. /\ AfterData(h, s, r, g, c) /\ state[h] \in FinWait \cup {"ESTABLISHED"} /\ g \in Segments
          /\ net[h] # <<>> /\ (Exchange(h, <<>>) \/ Exchange(h, <<AckOf(s, r, r.WND, <<>>)>>))
          /\ rtx' = rtx
      BY <1>4, <1>g DEF handleEstablishedPacket, threads
    <2>2. s \in SND /\ s.inFlight = snd[h].inFlight
      BY <1>0, <2>1 DEF SND, Segments
    <2>3. r \in RCV /\ r.WND \in Wnds
      <3>1. [seq |-> g.seq, data |-> g.data] \in Early
        BY <2>1 DEF Early, Segments
      <3>2. rcv[h].early \cup {[seq |-> g.seq, data |-> g.data]} \in SUBSET Early
        BY <1>0, <3>1 DEF RCV
      <3> QED BY <1>0, <3>2 DEF RCV
    <2>4. c \in BOOLEAN
      OBVIOUS
    <2> HIDE DEF s, r, c
    <2>5. snd'[h].inFlight \subseteq snd[h].inFlight /\ r.NXT = rcv'[h].NXT
      BY <2>1, <2>2, <2>3, <2>4, AfterDataKeeps DEF Kept
    <2>6. Connected(h)'
      BY <1>0, <2>1, AtWork DEF FinWait
    <2>7. WireSourced(h)
      BY <2>1, <2>2, <2>3, <2>5, <2>6, AnswerSourced
    <2> QED BY <2>1, <2>5, <2>7, ListKept DEF Sourced
  <1>5. CASE handleData(h, g)
    <2>1. snd'[h].inFlight = snd[h].inFlight
      BY <1>0, <1>5 DEF handleData, SND
    <2> QED BY <1>5, <1>g, <2>1, ListKept, NothingSent DEF Sourced, handleData
  <1>6. CASE handleFIN(h, g)
    <2> DEFINE r == [rcv[h] EXCEPT !.NXT = Plus(g.seq, 1), !.WND = g.wnd]
               s == cleanUpInFlightPackets(snd[h], g.ack)
    <2>1. /\ rcv' = [rcv EXCEPT ![h] = r] /\ snd' = [snd EXCEPT ![h] = s]
          /\ Exchange(h, <<AckOf(snd[h], r, r.WND, <<>>)>>)
          /\ state[h] \in {"ESTABLISHED", "FIN_WAIT_2", "TIME_WAIT"} /\ rtx' = rtx
      BY <1>6 DEF handleFIN, threads
    <2>2. g \in Segments /\ net[h] # <<>> /\ g.seq \in Seqs /\ g.ack \in Seqs /\ g.wnd \in Wnds
      BY <1>6, <1>g DEF handleFIN, Segments
    <2>3. Plus(g.seq, 1) \in Seqs
      BY <2>2, PlusSeqs
    <2>4. r \in RCV /\ r.WND \in Wnds
      BY <1>0, <2>2, <2>3 DEF RCV
    <2>5. s \in SND /\ s.inFlight \subseteq snd[h].inFlight
      BY <1>0, <2>2, CleanUpKeeps, CleanUpType DEF Kept
    <2> HIDE DEF r, s
    <2>6. rcv'[h] = r /\ snd'[h] = s
      BY <1>0, <2>1
    <2>7. Connected(h)'
      BY <1>0, <2>1, AtWork
    <2>8. WireSourced(h)
      BY <1>0, <2>1, <2>2, <2>4, <2>6, <2>7, AnswerSourced
    <2> QED BY <2>1, <2>5, <2>6, <2>8, ListKept DEF Sourced
  <1>7. CASE handleClosingACK(h, g)
    <2>1. g \in Segments /\ net[h] # <<>> /\ Exchange(h, <<>>) /\ rtx' = rtx
      BY <1>7, <1>g DEF handleClosingACK, threads
    <2>2. snd'[h].inFlight \subseteq snd[h].inFlight
      BY <1>0, <1>7, <2>1, ClosingKeeps DEF handleClosingACK, Kept
    <2> QED BY <2>1, <2>2, ListKept, NothingSent DEF Sourced
  <1>8. CASE handleRST(h, g) \/ ignore(h, g)
    <2>1. net[h] # <<>> /\ Exchange(h, <<>>) /\ rtx' = rtx /\ snd' = snd
      BY <1>8, <1>g DEF handleRST, ignore, sockets, threads
    <2> QED BY <2>1, ListKept, NothingSent DEF Sourced
  <1>9. CASE rcvBufWrite(h)
    BY <1>9, ListKept, NothingSent DEF Sourced, rcvBufWrite
  <1>10. CASE processInOrderData(h)
    <2>1. rtx' = rtx /\ iface[h].pc = "write"
      BY <1>10 DEF processInOrderData
    <2>2. ASSUME NEW e, GoesOn(h, e) PROVE Sourced(h)
      BY <2>1, <2>2, ListKept, NothingSent DEF Sourced, GoesOn
    <2>3. CASE Finishes(h)
      <3>1. FullRCV(h) \in RCV /\ FullRCV(h).WND \in Wnds
        BY <1>10, FullType DEF RCV
      <3>2. snd'[h].inFlight \subseteq snd[h].inFlight /\ FullRCV(h).NXT = rcv'[h].NXT
        BY <1>0, <2>3, <3>1, Owned, AfterDataKeeps DEF Finishes, Kept
      <3>3. Connected(h)'
        BY <1>0, <2>1, AtWork
      <3>4. WireSourced(h)
        BY <1>0, <2>3, <3>1, <3>2, <3>3, AnswerSourced DEF Finishes
      <3> QED BY <2>1, <3>2, <3>4, ListKept DEF Sourced
    <2> QED BY <1>10, <2>2, <2>3, InOrderCases
  <1> QED
    BY <1>1, <1>2, <1>3, <1>4, <1>5, <1>6, <1>7, <1>8, <1>9, <1>10 DEF Receiving, HandlePacket, g

\* One segment is sent.
LEMMA OneSent ==
  ASSUME IInv, NEW h \in Hosts, NEW x, Send(h, x), "ACK" \in x.flags => x.ack = rcv'[h].NXT,
         Copy(h, x) \/ Fresh(h, x)
  PROVE  WireSourced(h)
  BY SendWire DEF WireSourced

\* A packet is appended to the list.
LEMMA OneListed ==
  ASSUME IInv, NEW h \in Hosts, rtx'[h] = rtx[h] \/ rtx'[h].pkt = rtx[h].pkt \/ rtx'[h] = RtxIdle,
         NEW p, \A q \in snd'[h].inFlight : q \in snd[h].inFlight \/ q = p,
         Copy(h, p) \/ Fresh(h, p)
  PROVE  ListSourced(h)
  <1> SUFFICES ASSUME NEW q \in Listed(h)' PROVE Copy(h, q) \/ Fresh(h, q)
    BY DEF ListSourced
  <1>1. q = p \/ q \in Listed(h) \/ q = RtxIdle.pkt
    BY DEF Listed
  <1>2. CASE q \in Listed(h)
    BY <1>2 DEF Copy
  <1>3. CASE q = RtxIdle.pkt
    BY <1>3 DEF RtxIdle, RtxAt, Packet, Fresh
  <1> QED BY <1>1, <1>2, <1>3

\* The client's SYN.
LEMMA VConnectSourced == ASSUME IInv, VConnect PROVE Sourced(Client)
  <1> DEFINE h == Client
  <1>1. PICK isn \in ISNs[h] : VConnect!3!(isn)
    BY DEF VConnect
  <1> DEFINE x == Segment({"SYN"}, isn, 0, BUFFER_SIZE, <<>>)
             p == [Packet({"SYN"}, isn, 0, 0, <<>>) EXCEPT !.at = 1]
  <1>2. h \in Hosts
    BY DEF Hosts
  <1>3. Send(h, x) /\ rtx'[h] = rtx[h] /\ state'[h] # "NONE"
    BY <1>1, <1>2, Owned DEF VConnect
  <1>4. snd'[h].ISS = isn /\ snd'[h].inFlight = {p}
    BY <1>1, <1>2, Owned DEF Tracked, NewSND
  <1>5. /\ x.flags = {"SYN"} /\ x.seq = isn /\ x.data = <<>>
        /\ p.flags = {"SYN"} /\ p.seq = isn /\ p.data = <<>>
    BY DEF Segment, Packet
  <1> HIDE DEF x, p
  <1>6. Fresh(h, x) /\ Fresh(h, p)
    BY <1>3, <1>4, <1>5 DEF Fresh
  <1> QED BY <1>2, <1>3, <1>4, <1>5, <1>6, OneSent, OneListed DEF Sourced

\* A FIN is sent, and put into the list, by a goroutine that goes to "close".
LEMMA FINSourced ==
  ASSUME IInv, NEW h \in Hosts, NEW s \in SND, s.inFlight = snd[h].inFlight, sendFIN(h, s),
         AtClose(h)', rtx'[h] = rtx[h] \/ rtx'[h].pkt = rtx[h].pkt
  PROVE  Sourced(h)
  <1> DEFINE x == Segment({"FIN"}, SeqNum[h], rcv[h].NXT, rcv[h].WND, <<>>)
  <1>1. /\ Send(h, x) /\ x.flags = {"FIN"} /\ x.data = <<>> /\ x.seq = SeqNum[h]
        /\ state[h] \in Open
    BY DEF sendFIN, Segment
  <1> HIDE DEF x
  <1>2. WireSourced(h)
    BY <1>1, OneSent DEF Fresh
  <1>3. ListSourced(h)
    <2> SUFFICES ASSUME NEW q \in Listed(h)' PROVE Copy(h, q) \/ Fresh(h, q)
      BY DEF ListSourced
    <2>1. q \in Listed(h) \/ (q.flags = {"FIN"} /\ q.data = <<>> /\ q.seq = SeqNum[h])
      BY FINKeeps DEF Listed
    <2> QED BY <1>1, <2>1 DEF Copy, Fresh
  <1> QED BY <1>2, <1>3 DEF Sourced

\* The application's calls and their returns.
LEMMA ApplicationSourced ==
  ASSUME IInv, AInv, SilentInv, NEW h \in Hosts, Step(h),
         Application(h) \/ VReadReturn(h) \/ VCloseReturn(h)
  PROVE  Sourced(h)
  <1>0. snd[h] \in SND /\ snd \in [Hosts -> SND] /\ repl \in [Hosts -> REPL]
    BY Owned
  <1>1. CASE VWrite(h)
    <2>1. snd'[h].inFlight = snd[h].inFlight /\ rtx' = rtx /\ net' = net
      BY <1>0, <1>1 DEF VWrite, TryWrite, SND
    <2> QED BY <2>1, ListKept, NothingSent DEF Sourced
  <1>2. CASE VRead(h) \/ VReadReturn(h) \/ VCloseReturn(h)
    <2>1. snd' = snd /\ rtx' = rtx /\ net' = net
      BY <1>2 DEF VRead, VReadReturn, VCloseReturn, sockets
    <2> QED BY <2>1, ListKept, NothingSent DEF Sourced
  <1>3. CASE VClose(h)
    <2>1. sendFIN(h, snd[h]) /\ rtx' = rtx /\ repl'[h].pc = "close"
      BY <1>0, <1>3 DEF VClose, REPL
    <2>2. AtClose(h)'
      BY <2>1 DEF AtClose
    <2> QED BY <1>0, <2>1, <2>2, FINSourced
  <1>4. CASE sendRST(h)
    <2> DEFINE x == Segment({"RST"}, snd[h].NXT, rcv[h].NXT, 0, <<>>)
    <2>1. Send(h, x) /\ x.flags = {"RST"} /\ x.data = <<>> /\ snd' = snd /\ rtx' = rtx
      BY <1>4 DEF sendRST, Segment, sockets, threads
    <2> HIDE DEF x
    <2>2. Fresh(h, x)
      BY <2>1, EmptyFresh
    <2> QED BY <2>1, <2>2, OneSent, ListKept DEF Sourced
  <1> QED BY <1>1, <1>2, <1>3, <1>4 DEF Application

\* Sending and probing: the payload is repl.seg, at snd.NXT.
LEMMA SendingSourced ==
  ASSUME IInv, AInv, SilentInv, NEW h \in Hosts, Step(h), Sending(h) \/ Probing(h)
  PROVE  Sourced(h)
  <1>0. /\ snd \in [Hosts -> SND] /\ repl \in [Hosts -> REPL] /\ snd[h] \in SND /\ repl[h] \in REPL
        /\ Connected(h) => Connected(h)'
    BY Owned, StaysConnected
  <1>r. rtx' = rtx /\ rcv' = rcv /\ repl[h].pc # "idle"
    BY DEF Sending, VWriteLoop, trySendData, startTimer, trackPacket,
           Probing, startProbing, sendZeroWindowProbe, probingEnds, sockets
  <1>c. Connected(h)'
    BY <1>0, <1>r, AtWork
  <1>1. CASE VWriteLoop(h) \/ startTimer(h) \/ startProbing(h) \/ probingEnds(h)
    <2>1. net' = net
      BY <1>1 DEF VWriteLoop, startTimer, startProbing, probingEnds
    <2>2. snd'[h].inFlight = snd[h].inFlight
      <3>1. CASE VWriteLoop(h)
        BY <1>0, <3>1 DEF VWriteLoop, TryWrite, SND
      <3>2. CASE startTimer(h) \/ startProbing(h) \/ probingEnds(h)
        BY <1>0, <3>2 DEF startTimer, startProbing, probingEnds, SND
      <3> QED BY <1>1, <3>1, <3>2
    <2> QED BY <1>r, <2>1, <2>2, ListKept, NothingSent DEF Sourced
  <1>2. ASSUME NEW w, NEW d, Send(h, AckOf(snd[h], rcv[h], w, d)), snd'[h].NXT = snd[h].NXT,
               repl'[h].seg = d
        PROVE  WireSourced(h)
    <2> DEFINE x == AckOf(snd[h], rcv[h], w, d)
    <2>1. x.flags = {"ACK"} /\ x.seq = snd[h].NXT /\ x.ack = rcv[h].NXT /\ x.data = d
      BY DEF AckOf, Segment
    <2>2. Send(h, x)
      BY <1>2
    <2> HIDE DEF x
    <2>3. Fresh(h, x)
      BY <1>2, <1>c, <2>1 DEF Fresh
    <2> QED BY <1>r, <2>1, <2>2, <2>3, OneSent
  <1>3. CASE trySendData(h)
    <2> DEFINE n == Smaller(Smaller(freeWindowSpace(snd[h]), MAX_TCP_PAYLOAD), Len(snd[h].buf))
               d == SubSeq(snd[h].buf, 1, n)
    <2>1. /\ Send(h, AckOf(snd[h], rcv[h], Free(rcv[h].buf), d))
          /\ repl' = [repl EXCEPT ![h] = [@ EXCEPT !.pc = "arm", !.seg = d]]
      BY <1>3 DEF trySendData
    <2>2. snd'[h].NXT = snd[h].NXT /\ snd'[h].inFlight = snd[h].inFlight
      BY <1>0, <1>3 DEF trySendData, SND
    <2> HIDE DEF d
    <2>3. repl'[h].seg = d
      BY <1>0, <2>1 DEF REPL
    <2>4. WireSourced(h)
      BY <1>2, <2>1, <2>2, <2>3
    <2> QED BY <1>r, <2>2, <2>4, ListKept DEF Sourced
  <1>4. CASE sendZeroWindowProbe(h)
    <2>1. /\ Send(h, AckOf(snd[h], rcv[h], Free(rcv[h].buf), repl[h].seg)) /\ snd' = snd
          /\ repl'[h].seg = repl[h].seg
      BY <1>0, <1>4 DEF sendZeroWindowProbe, sockets, REPL
    <2>2. WireSourced(h)
      BY <1>2, <2>1
    <2> QED BY <1>r, <2>1, <2>2, ListKept DEF Sourced
  <1>5. CASE trackPacket(h)
    <2> DEFINE d == repl[h].seg
               p == Packet({"ACK"}, snd[h].NXT, Len(d), 0, d)
               q == [p EXCEPT !.at = snd[h].place + 1]
               t == Tracked(snd[h], p)
               s == [t EXCEPT !.NXT = Plus(snd[h].NXT, Len(d))]
    <2>1. snd'[h] = s /\ net' = net
      BY <1>0, <1>5 DEF trackPacket
    <2>2. q.flags = {"ACK"} /\ q.seq = snd[h].NXT /\ q.data = d
      BY DEF Packet
    <2> HIDE DEF p
    <2>3. t.inFlight = snd[h].inFlight \cup {q} /\ DOMAIN t = DOMAIN snd[h]
      BY <1>0 DEF Tracked, SND
    <2> HIDE DEF t
    <2>4. s.inFlight = t.inFlight
      BY <1>0, <2>3 DEF SND
    <2> HIDE DEF s, q
    <2>5. Fresh(h, q)
      BY <1>c, <2>2 DEF Fresh, d
    <2>6. ListSourced(h)
      BY <1>r, <2>1, <2>3, <2>4, <2>5, OneListed
    <2> QED BY <2>1, <2>6, NothingSent DEF Sourced
  <1> QED BY <1>1, <1>3, <1>4, <1>5 DEF Sending, Probing

\* manageRetransmissions sends what is in the list again, with a new acknowledgement.
LEMMA RetransmittingSourced ==
  ASSUME IInv, NEW h \in Hosts, Retransmitting(h) PROVE Sourced(h)
  <1>0. /\ snd \in [Hosts -> SND] /\ rtx \in [Hosts -> RTX] /\ snd[h] \in SND /\ rtx[h] \in RTX
    BY Owned
  <1> DEFINE s == [snd[h] EXCEPT !.timer = FALSE]
  <1>s. s \in SND /\ s.inFlight = snd[h].inFlight
    BY <1>0 DEF SND
  <1>1. CASE retransmitPacket(h)
    <2>1. PICK p \in FirstUnacked(snd[h]) :
             /\ Send(h, Segment(p.flags, p.seq, rcv[h].NXT, p.wnd, p.data))
             /\ rtx' = [rtx EXCEPT ![h] = RtxAt("relist", p)]
      BY <1>1 DEF retransmitPacket
    <2> DEFINE x == Segment(p.flags, p.seq, rcv[h].NXT, p.wnd, p.data)
    <2>2. p \in Listed(h)
      BY DEF FirstUnacked, Listed
    <2>3. Copy(h, x) /\ x.ack = rcv[h].NXT /\ rcv' = rcv
      BY <1>1, <2>2 DEF Copy, Segment, retransmitPacket
    <2>4. WireSourced(h)
      <3>1. Send(h, x)
        BY <2>1
      <3> HIDE DEF x
      <3> QED BY <2>3, <3>1, OneSent
    <2>5. ListSourced(h)
      <3>1. snd'[h].inFlight = snd[h].inFlight
        BY <1>0, <1>1 DEF retransmitPacket, SND
      <3>2. rtx'[h].pkt = p
        BY <1>0, <2>1 DEF RtxAt
      <3>3. Listed(h)' \subseteq Listed(h)
        BY <2>2, <3>1, <3>2 DEF Listed
      <3> QED BY <3>3 DEF ListSourced, Copy
    <2> QED BY <2>4, <2>5 DEF Sourced
  <1>2. CASE relistPacket(h)
    <2> DEFINE others == {q \in snd[h].inFlight : q.seq # rtx[h].pkt.seq}
               v == [snd[h] EXCEPT !.inFlight = others, !.place = IF others = {} THEN 0 ELSE @]
               p == [rtx[h].pkt EXCEPT !.len = 0]
               q == [p EXCEPT !.at = v.place + 1]
               t == Tracked(v, p)
               u == [t EXCEPT !.retransmissions = @ + 1, !.timer = TRUE]
    <2>1. snd'[h] = u /\ rtx'[h] = RtxIdle /\ net' = net
      BY <1>0, <1>2 DEF relistPacket
    <2>2. Copy(h, q)
      <3>1. rtx[h].pkt \in Listed(h) /\ rtx[h].pkt \in Packets
        BY <1>0 DEF Listed, RTX
      <3>2. q.flags = rtx[h].pkt.flags /\ q.seq = rtx[h].pkt.seq /\ q.data = rtx[h].pkt.data
        BY <3>1 DEF Packets
      <3> QED BY <3>1, <3>2 DEF Copy
    <2>3. others \subseteq snd[h].inFlight
      OBVIOUS
    <2> HIDE DEF others
    <2>4. v.inFlight = others /\ DOMAIN v = DOMAIN snd[h]
      BY <1>0 DEF SND
    <2> HIDE DEF v, p
    <2>5. t.inFlight = v.inFlight \cup {q} /\ DOMAIN t = DOMAIN v
      BY <1>0, <2>4 DEF Tracked, SND
    <2> HIDE DEF t
    <2>6. u.inFlight = t.inFlight
      BY <1>0, <2>4, <2>5 DEF SND
    <2> HIDE DEF u, q
    <2>7. ListSourced(h)
      BY <2>1, <2>2, <2>3, <2>4, <2>5, <2>6, OneListed
    <2> QED BY <2>1, <2>7, NothingSent DEF Sourced
  <1>3. CASE nothingToRetransmit(h)
    <2>1. snd'[h].inFlight = snd[h].inFlight /\ rtx' = rtx /\ net' = net
      BY <1>0, <1>3 DEF nothingToRetransmit, SND, threads
    <2> QED BY <2>1, ListKept, NothingSent DEF Sourced
  <1>4. CASE giveUp(h)
    <2>1. CASE sendFIN(h, s) /\ rtx' = [rtx EXCEPT ![h].pc = "close"]
      <3>1. rtx'[h].pc = "close" /\ rtx'[h].pkt = rtx[h].pkt
        BY <1>0, <2>1 DEF RTX
      <3>2. AtClose(h)'
        BY <3>1 DEF AtClose
      <3> HIDE DEF s
      <3> QED BY <1>s, <2>1, <3>1, <3>2, FINSourced
    <2>2. CASE snd' = [snd EXCEPT ![h] = s] /\ rtx' = rtx /\ net' = net
      <3>1. snd'[h].inFlight = snd[h].inFlight
        BY <1>0, <1>s, <2>2
      <3> QED BY <2>2, <3>1, ListKept, NothingSent DEF Sourced
    <2> QED BY <1>4, <2>1, <2>2 DEF giveUp
  <1>5. CASE giveUpReturn(h)
    <2>1. snd' = snd /\ rtx'[h] = RtxIdle /\ net' = net
      BY <1>0, <1>5 DEF giveUpReturn
    <2> QED BY <2>1, ListKept, NothingSent DEF Sourced
  <1> QED BY <1>1, <1>2, <1>3, <1>4, <1>5 DEF Retransmitting

\* Every segment on the wire and every packet in the list is accounted for.
LEMMA StepSourced ==
  ASSUME IInv, AInv, SilentInv, NEW h \in Hosts, Step(h) PROVE Sourced(h)
  <1>1. CASE h = Client /\ VConnect
    BY <1>1, VConnectSourced
  <1>2. CASE VConnectReturn \/ HandshakeTimeout \/ VAccept \/ TimeWaitExpires(h)
    <2>1. snd' = snd /\ rtx' = rtx /\ net' = net
      BY <1>2 DEF VConnectReturn, HandshakeTimeout, VAccept, TimeWaitExpires, sockets, threads
    <2> QED BY <2>1, ListKept, NothingSent DEF Sourced
  <1>3. CASE Application(h) \/ VReadReturn(h) \/ VCloseReturn(h)
    BY <1>3, ApplicationSourced
  <1>4. CASE Sending(h) \/ Probing(h)
    BY <1>4, SendingSourced
  <1>5. CASE Retransmitting(h)
    BY <1>5, RetransmittingSourced
  <1>6. CASE Receiving(h)
    BY <1>6, ReceivingSourced
  <1>7. CASE Fault(h)
    <2>1. snd' = snd /\ rtx' = rtx
      BY <1>7 DEF Fault, sockets, threads
    <2> QED BY <1>7, <2>1, ListKept, FaultWire DEF Sourced, WireSourced
  <1> QED BY <1>1, <1>2, <1>3, <1>4, <1>5, <1>6, <1>7 DEF Step

-----------------------------------------------------------------------------
(* The invariant: what the ends know of each other *)

\* A SYN carries the initial sequence number of its sender, which stays set.
SynSound ==
    \A h \in Hosts : \A x \in Sent(h) : "SYN" \in x.flags => x.seq = snd[h].ISS /\ state[h] # "NONE"

\* The ends agree on the numbers, each as soon as it knows the other's; one end
\* leaves the handshake when the other has answered.
Agreed ==
    /\ Connected(Server) => state[Client] # "NONE" /\ rcv[Server].IRS = snd[Client].ISS
    /\ Connected(Client) => /\ Connected(Server) /\ rcv[Client].IRS = snd[Server].ISS
                            /\ state[Client] \notin {"NONE", "SYN_SENT"}
    /\ state[Server] \notin {"NONE", "SYN_RECEIVED", "CLOSED"} => Connected(Client)

\* A FIN is sent only by a goroutine that is about to write the state, and no
\* end has seen the FIN of a peer that has not sent one.
Closing == \A h \in Hosts : AtClose(h) => state[h] \notin Young
FinInv ==
    \A h \in Hosts : BeforeFIN(h) =>
       (\A x \in Sent(h) : "FIN" \notin x.flags) /\ state[Peer(h)] \notin Ended

HInv == IInv /\ AInv /\ SilentInv /\ SynSound /\ Agreed /\ Closing /\ FinInv

\* Each segment and packet says again what h has said, or is made by the step.
Said(h, x) == \E y \in Sent(h) : y.flags = x.flags /\ y.seq = x.seq /\ y.data = x.data
LEMMA SentStep ==
  ASSUME HInv, NEW h \in Hosts, Step(h)
  PROVE  /\ \A x \in Sent(h)' : Said(h, x) \/ Fresh(h, x)
         /\ \A k \in Hosts : k # h => Sent(k)' \subseteq Sent(k)
  <1>1. Sourced(h) /\ PeerSame(h)
    BY StepSourced, StepFrame DEF HInv
  <1>2. \A x \in Sent(h)' : Said(h, x) \/ Fresh(h, x)
    BY <1>1 DEF Sourced, WireSourced, ListSourced, Sent, Said, Copy
  <1>3. ASSUME NEW k \in Hosts, k # h PROVE Sent(k)' \subseteq Sent(k)
    <2>1. k = Peer(h)
      BY <1>3, PeerOfPeer
    <2>2. Wire(k)' \subseteq Wire(k)
      BY <1>1, <2>1 DEF Sourced, WireSourced
    <2>3. Listed(k)' = Listed(k)
      BY <1>1, <1>3 DEF PeerSame, Listed
    <2> QED BY <2>2, <2>3 DEF Sent
  <1> QED BY <1>2, <1>3

\* What every step is known to do.
LEMMA StepFacts ==
  ASSUME HInv, NEW h \in Hosts, Step(h)
  PROVE  /\ IInv' /\ AInv' /\ PeerSame(h) /\ Local(h) /\ (h = Server => conn' = conn)
         /\ \A k \in Hosts : Follows(state[k], state'[k]) /\ (Connected(k) => Connected(k)')
  <1>1. IInv /\ AInv /\ Next
    BY StepNext DEF HInv
  <1> QED BY <1>1, NextIInv, NextAccept, NextLifecycle, StepFrame, StepLocal, StaysConnected

\* A SYN never carries another number.
LEMMA StepSyn == ASSUME HInv, NEW h \in Hosts, Step(h) PROVE SynSound'
  <1> SUFFICES ASSUME NEW k \in Hosts, NEW x \in Sent(k)', "SYN" \in x.flags
               PROVE  x.seq = snd'[k].ISS /\ state'[k] # "NONE"
    BY DEF SynSound
  <1>1. ASSUME NEW y \in Sent(k), y.flags = x.flags, y.seq = x.seq
        PROVE  x.seq = snd'[k].ISS /\ state'[k] # "NONE"
    <2>1. x.seq = snd[k].ISS /\ state[k] # "NONE"
      BY <1>1 DEF HInv, SynSound
    <2>2. state'[k] # "NONE"
      BY <2>1, StepFacts DEF Follows
    <2>3. snd'[k].ISS = snd[k].ISS
      BY <2>1, StepFacts DEF PeerSame, Local, NumbersSet
    <2> QED BY <2>1, <2>2, <2>3
  <1>2. CASE k # h
    BY <1>1, <1>2, SentStep
  <1>3. CASE k = h
    BY <1>1, <1>3, SentStep DEF Said, Fresh
  <1> QED BY <1>2, <1>3

\* A host that is not connected stays silent.
LEMMA StepSilent == ASSUME HInv, NEW h \in Hosts, Step(h) PROVE SilentInv'
  <1> SUFFICES ASSUME NEW k \in Hosts, ~Connected(k)' PROVE Silent(k)'
    BY DEF SilentInv
  <1>1. Silent(k)
    BY StepFacts DEF HInv, SilentInv
  <1>2. CASE k # h
    <2>1. UNCHANGED <<state[k], repl[k], iface[k], rtx[k], rcv[k], delivered[k], written[k]>>
      BY <1>2, StepFacts DEF PeerSame
    <2>2. Received(k)' = Received(k)
      BY <2>1 DEF Received
    <2>3. Sent(k)' \subseteq Sent(k)
      BY <1>2, SentStep
    <2> QED BY <1>1, <2>1, <2>2, <2>3 DEF Silent
  <1>3. CASE k = h
    <2>1. state'[h] \in {"NONE", "SYN_SENT", "CLOSED"}
      <3>1. Follows(state[h], state'[h]) /\ StateEarned(h) /\ AInv'
        BY StepFacts DEF Local
      <3>2. CASE h = Server
        BY <1>3, <3>2, ConstantsAssumption DEF Connected
      <3>3. CASE h = Client
        <4>1. ~conn'.established
          BY <1>3, <3>3 DEF Connected
        <4> QED BY <1>1, <1>3, <3>1, <3>3, <4>1 DEF Silent, Follows, StateEarned, AInv
      <3> QED BY <3>2, <3>3 DEF Hosts
    <2>2. repl'[h].pc = "idle" /\ iface'[h].pc = "idle" /\ rtx'[h].pc # "close" /\ written'[h] = 0
      BY <1>1, <1>3, StepFacts DEF Local, WorkAllowed, Silent, Open, FinWait
    <2>3. Received(h)' = <<>>
      <3>1. delivered[h] \in Bytes /\ rcv[h].buf \in Bytes /\ delivered[h] \o rcv[h].buf = <<>>
        BY <1>1, <1>3, Owned DEF HInv, Silent, Received, RCV
      <3>2. delivered[h] = <<>> /\ rcv[h].buf = <<>>
        BY <3>1, ConcatProperties, EmptySeq DEF Bytes
      <3>3. delivered'[h] = <<>> /\ rcv'[h].buf = <<>>
        BY <1>1, <1>3, <3>2, StepFacts DEF Local, WorkAllowed, Silent
      <3> QED BY <3>3 DEF Received
    <2>4. ASSUME NEW x \in Sent(h)' PROVE x.flags \cap {"ACK", "FIN"} = {}
      <3>1. CASE Said(h, x)
        BY <1>1, <1>3, <3>1 DEF Said, Silent
      <3>2. CASE Fresh(h, x)
        BY <1>3, <2>2, <3>2 DEF Fresh, AtClose
      <3> QED BY <3>1, <3>2, SentStep
    <2> QED BY <1>3, <2>1, <2>2, <2>3, <2>4 DEF Silent
  <1> QED BY <1>2, <1>3

\* What one end knows of the other's numbers stays true.
LEMMA StepAgreed == ASSUME HInv, NEW h \in Hosts, Step(h) PROVE Agreed'
  <1>0. /\ Client \in Hosts /\ Server \in Hosts /\ Client # Server
        /\ Peer(Client) = Server /\ Peer(Server) = Client
    BY ConstantsAssumption DEF Hosts, Peer
  <1>1. /\ PeerSame(h) /\ NumbersSet(h) /\ StateEarned(h) /\ (h = Server => conn' = conn)
        /\ Connected(Client) => Connected(Client)'
        /\ Follows(state[Client], state'[Client]) /\ Follows(state[Server], state'[Server])
        /\ SynSound /\ Agreed /\ SilentInv /\ AInv /\ AInv'
    BY <1>0, StepFacts DEF Local, HInv
  <1>2. /\ state[Client] # "NONE" => snd'[Client].ISS = snd[Client].ISS
        /\ state[Server] # "NONE" => snd'[Server].ISS = snd[Server].ISS
        /\ state[Client] \notin {"NONE", "SYN_SENT"} => rcv'[Client].IRS = rcv[Client].IRS
        /\ state[Server] # "NONE" => rcv'[Server].IRS = rcv[Server].IRS
    BY <1>0, <1>1 DEF PeerSame, NumbersSet, AInv
  <1>3. Connected(Server)' => state'[Client] # "NONE" /\ rcv'[Server].IRS = snd'[Client].ISS
    <2>1. CASE Connected(Server)
      BY <1>0, <1>1, <1>2, <2>1 DEF Agreed, Connected, Follows
    <2>2. CASE ~Connected(Server) /\ Connected(Server)'
      <3>1. state[Server] = "NONE" /\ state'[Server] # "NONE"
        BY <1>0, <2>2 DEF Connected
      <3>2. h = Server
        BY <1>0, <1>1, <3>1 DEF PeerSame
      <3>3. PICK x \in Wire(Client) : "SYN" \in x.flags /\ rcv'[Server].IRS = x.seq
        BY <1>0, <1>1, <3>1, <3>2 DEF StateEarned
      <3>4. x.seq = snd[Client].ISS /\ state[Client] # "NONE"
        BY <1>0, <1>1, <3>3 DEF SynSound, Sent
      <3>5. state'[Client] # "NONE"
        BY <1>1, <3>4 DEF Follows
      <3> QED BY <1>2, <3>3, <3>4, <3>5
    <2> QED BY <2>1, <2>2
  <1>4. Connected(Client)' => /\ Connected(Server)' /\ rcv'[Client].IRS = snd'[Server].ISS
                              /\ state'[Client] \notin {"NONE", "SYN_SENT"}
    <2>1. CASE Connected(Client)
      <3>1. /\ Connected(Server) /\ state[Server] # "NONE" /\ rcv[Client].IRS = snd[Server].ISS
            /\ state[Client] \notin {"NONE", "SYN_SENT"}
        BY <1>0, <1>1, <2>1 DEF Agreed, Connected
      <3>2. Connected(Server)'
        BY <1>0, <3>1, StepFacts
      <3> QED BY <1>1, <1>2, <3>1, <3>2 DEF Follows
    <2>2. CASE ~Connected(Client) /\ Connected(Client)'
      <3>1. ~conn.established /\ conn'.established
        BY <2>2 DEF Connected
      <3>2. h = Client
        BY <1>0, <1>1, <3>1 DEF Hosts
      <3>3. state[Client] = "SYN_SENT" /\ state'[Client] = "ESTABLISHED"
        BY <1>1, <3>1, <3>2 DEF StateEarned
      <3>4. PICK x \in Wire(Server) : {"SYN", "ACK"} \subseteq x.flags /\ rcv'[Client].IRS = x.seq
        BY <1>0, <1>1, <3>2, <3>3 DEF StateEarned
      <3>5. x.seq = snd[Server].ISS /\ state[Server] # "NONE"
        BY <1>0, <1>1, <3>4 DEF SynSound, Sent
      <3>6. Connected(Server)'
        BY <1>0, <3>5, StepFacts DEF Connected
      <3> QED BY <1>2, <3>3, <3>4, <3>5, <3>6
    <2> QED BY <2>1, <2>2
  <1>5. state'[Server] \notin {"NONE", "SYN_RECEIVED", "CLOSED"} => Connected(Client)'
    <2>1. CASE state[Server] \notin {"NONE", "SYN_RECEIVED", "CLOSED"}
      BY <1>1, <2>1 DEF Agreed
    <2>2. CASE /\ state[Server] \in {"NONE", "SYN_RECEIVED", "CLOSED"}
               /\ state'[Server] \notin {"NONE", "SYN_RECEIVED", "CLOSED"}
      <3>1. state[Server] = "SYN_RECEIVED" /\ state'[Server] = "ESTABLISHED" /\ h = Server
        BY <1>0, <1>1, <2>2 DEF Follows, AInv, PeerSame
      <3>2. PICK x \in Wire(Client) : "ACK" \in x.flags
        BY <1>0, <1>1, <3>1 DEF StateEarned, Coming
      <3>3. Connected(Client)
        BY <1>0, <1>1, <3>2, AtWork DEF Sent
      <3> QED BY <1>1, <3>3
    <2> QED BY <2>1, <2>2
  <1> QED BY <1>3, <1>4, <1>5 DEF Agreed

\* A FIN has a goroutine that finishes the close.
LEMMA StepClosing == ASSUME HInv, NEW h \in Hosts, Step(h) PROVE Closing'
  <1> SUFFICES ASSUME NEW k \in Hosts, AtClose(k)' PROVE state'[k] \notin Young
    BY DEF Closing
  <1>1. Follows(state[k], state'[k]) /\ WorkAllowed(h) /\ PeerSame(h)
    BY StepFacts DEF Local
  <1>2. CASE AtClose(k)
    BY <1>1, <1>2 DEF HInv, Closing, Follows, Young
  <1>3. CASE ~AtClose(k)
    <2>1. k = h
      BY <1>1, <1>3 DEF AtClose, PeerSame
    <2> QED BY <1>1, <1>3, <2>1 DEF AtClose, WorkAllowed, Open, Young
  <1> QED BY <1>2, <1>3

\* A host that has not sent a FIN had not sent one before.
LEMMA BeforeFINBack ==
  ASSUME HInv, NEW h \in Hosts, Step(h), NEW k \in Hosts, BeforeFIN(k)' PROVE BeforeFIN(k)
  <1>1. Follows(state[k], state'[k]) /\ WorkAllowed(h) /\ PeerSame(h)
    BY StepFacts DEF Local
  <1>2. state'[k] \in Young \cup Open /\ ~AtClose(k)'
    BY DEF BeforeFIN
  <1>3. state[k] \in Young \cup Open
    BY <1>1, <1>2 DEF Follows, Young, Open
  <1>4. ASSUME AtClose(k) PROVE FALSE
    <2>1. state[k] \in Open
      BY <1>3, <1>4 DEF HInv, Closing
    <2>2. k = h
      BY <1>1, <1>2, <1>4 DEF AtClose, PeerSame
    <2>3. state'[k] = CloseState(state[k])
      BY <1>1, <1>2, <1>4, <2>2 DEF AtClose, WorkAllowed
    <2> QED BY <1>2, <2>1, <2>3 DEF CloseState, Open, Young
  <1> QED BY <1>3, <1>4 DEF BeforeFIN

\* No FIN is on its way before its sender closes.
LEMMA StepFIN == ASSUME HInv, NEW h \in Hosts, Step(h) PROVE FinInv'
  <1> SUFFICES ASSUME NEW k \in Hosts, BeforeFIN(k)'
               PROVE  (\A x \in Sent(k)' : "FIN" \notin x.flags) /\ state'[Peer(k)] \notin Ended
    BY DEF FinInv
  <1>1. (\A x \in Sent(k) : "FIN" \notin x.flags) /\ state[Peer(k)] \notin Ended
    BY BeforeFINBack DEF HInv, FinInv
  <1>2. ASSUME NEW x \in Sent(k)' PROVE "FIN" \notin x.flags
    <2>1. CASE k = h
      BY <1>1, <2>1, SentStep DEF Said, Fresh, BeforeFIN
    <2>2. CASE k # h
      BY <1>1, <2>2, SentStep
    <2> QED BY <2>1, <2>2
  <1>3. ASSUME state'[Peer(k)] \in Ended PROVE FALSE
    <2>1. Peer(k) \in Hosts /\ Peer(Peer(k)) = k
      BY PeerIsHost, PeerOfPeer
    <2>2. Peer(k) = h
      BY <1>1, <1>3, <2>1, StepFacts DEF PeerSame
    <2>3. Coming(h, "FIN")
      BY <1>1, <1>3, <2>2, StepFacts DEF Local, StateEarned
    <2> QED BY <1>1, <2>1, <2>2, <2>3 DEF Coming, Sent
  <1> QED BY <1>2, <1>3

\* Nobody knows anything at first.
LEMMA InitHandshake == Init => HInv
  <1> SUFFICES ASSUME Init PROVE HInv
    OBVIOUS
  <1>1. IInv /\ AInv
    BY InitIInv DEF Init, AInv, AcceptOnce, Hosts
  <1>2. ASSUME NEW h \in Hosts PROVE \A x \in Sent(h) : x.flags = {}
    <2>1. net[Peer(h)] = <<>> /\ snd[h].inFlight = {} /\ rtx[h] = RtxIdle
      BY <1>2, PeerIsHost DEF Init, NewSND
    <2>2. Wire(h) = {}
      BY <2>1 DEF Wire
    <2>3. RtxIdle.pkt.flags = {}
      BY DEF RtxIdle, RtxAt, Packet
    <2> QED BY <2>1, <2>2, <2>3 DEF Sent, Listed
  <1>3. ASSUME NEW h \in Hosts
        PROVE  /\ state[h] = "NONE" /\ repl[h].pc = "idle" /\ iface[h].pc = "idle" /\ rtx[h].pc = "idle"
               /\ Received(h) = <<>> /\ written[h] = 0
    BY <1>3 DEF Init, Idle, IfaceIdle, RtxIdle, RtxAt, Received, NewRCV
  <1>4. SilentInv /\ SynSound /\ Closing
    BY <1>2, <1>3 DEF SilentInv, Silent, SynSound, Closing, AtClose
  <1>5. ~Connected(Client) /\ ~Connected(Server) /\ Server \in Hosts
    BY ConstantsAssumption DEF Init, Connected, Hosts
  <1>6. Agreed /\ FinInv
    BY <1>2, <1>3, <1>5, PeerIsHost DEF Agreed, FinInv, Ended
  <1> QED BY <1>1, <1>4, <1>6 DEF HInv

\* Every step of the program preserves the invariant.
LEMMA NextHandshake == ASSUME HInv, [Next]_vars PROVE HInv'
  <1>1. CASE Next
    <2>1. PICK h \in Hosts : Step(h)
      BY <1>1, NextStep
    <2> QED BY <2>1, StepFacts, StepSyn, StepSilent, StepAgreed, StepClosing, StepFIN DEF HInv
  <1>2. CASE UNCHANGED vars
    <2>1. IInv' /\ AInv'
      BY <1>2, NextIInv DEF HInv, AInv, AcceptOnce, vars, sockets, accept
    <2>2. UNCHANGED <<state, snd, rcv, repl, iface, rtx, conn, net, written, delivered>>
      BY <1>2 DEF vars, sockets, threads, history
    <2>3. \A h \in Hosts : /\ Sent(h)' = Sent(h) /\ Received(h)' = Received(h)
                           /\ Connected(h)' = Connected(h) /\ AtClose(h)' = AtClose(h)
      BY <2>2 DEF Sent, Wire, Listed, Received, Connected, AtClose
    <2>4. Connected(Client)' = Connected(Client) /\ Connected(Server)' = Connected(Server)
      BY <2>3 DEF Hosts
    <2>5. SilentInv' /\ SynSound' /\ Closing'
      BY <2>2, <2>3 DEF HInv, SilentInv, Silent, SynSound, Closing
    <2>6. Agreed' /\ FinInv'
      BY <2>2, <2>3, <2>4 DEF HInv, Agreed, FinInv, BeforeFIN
    <2> QED BY <2>1, <2>5, <2>6 DEF HInv
  <1> QED BY <1>1, <1>2

\* The handshake's invariant holds throughout.
LEMMA HandshakeInvariant == Spec => []HInv
  BY InitHandshake, NextHandshake, PTL DEF Spec

-----------------------------------------------------------------------------
(* The theorems *)

\* Whatever is lost, duplicated or reordered, and whatever either side times out
\* on or retransmits: an end that has left the handshake has the other's initial
\* sequence number, and the server leaves it only after the client.
THEOREM NumbersAgreed == Spec => []HandshakeAgreement
  <1>1. HInv => HandshakeAgreement
    <2> SUFFICES ASSUME HInv PROVE HandshakeAgreement
      OBVIOUS
    <2>1. Client \in Hosts /\ Server \in Hosts
      BY DEF Hosts
    <2>2. state[Client] \notin {"NONE", "SYN_SENT", "CLOSED"} => Connected(Client)
      BY <2>1 DEF HInv, SilentInv, Silent
    <2> QED BY <2>2 DEF HInv, Agreed, HandshakeAgreement, Connected
  <1> QED BY <1>1, HandshakeInvariant, PTL

\* Whichever handler takes it there, an end is in TIME_WAIT only when both ends
\* have sent their FIN.
THEOREM ClosedByBoth == Spec => []TimeWaitMeansBothClosed
  <1>1. HInv => TimeWaitMeansBothClosed
    <2> SUFFICES ASSUME HInv, NEW h \in Hosts, state[h] = "TIME_WAIT"
                 PROVE  ~NoFIN(Peer(h)) /\ state[Peer(h)] # "SYN_RECEIVED"
      BY DEF TimeWaitMeansBothClosed
    <2>1. Peer(h) \in Hosts /\ Peer(Peer(h)) = h
      BY PeerIsHost, PeerOfPeer
    <2>2. ~BeforeFIN(Peer(h))
      BY <2>1 DEF HInv, FinInv, Ended
    <2> QED BY <2>1, <2>2 DEF BeforeFIN, AtClose, NoFIN, HInv, Closing, Young
  <1> QED BY <1>1, HandshakeInvariant, PTL
=============================================================================
