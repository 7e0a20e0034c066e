---------------------------- MODULE TcpConnProofs ----------------------------
(***************************************************************************)
(* Proofs about one TCP connection, for every value of the constants.      *)
(***************************************************************************)
EXTENDS TcpConn, SequenceTheorems, TLAPS

-----------------------------------------------------------------------------
(* Numbers and buffers *)

\* The peer of a host is the other host.
LEMMA PeerIsHost == \A h \in Hosts : Peer(h) \in Hosts /\ Peer(h) # h
  BY ConstantsAssumption DEF Hosts, Peer

\* uint32 addition stays in 32 bits.
LEMMA PlusType == \A a, n \in Int : Plus(a, n) \in Seqs
  <1> SUFFICES ASSUME NEW a \in Int, NEW n \in Int PROVE (a + n) % SeqMod \in 0..(SeqMod - 1)
    BY DEF Plus, Seqs
  <1>1. SeqMod \in Nat /\ SeqMod > 0
    BY ConstantsAssumption
  <1> QED BY <1>1

\* uint32 addition stays within the sequence numbers.
LEMMA PlusSeqs == \A a \in Seqs, n \in Nat : Plus(a, n) \in Seqs
  <1>1. Seqs \subseteq Int
    BY ConstantsAssumption DEF Seqs
  <1> QED BY <1>1, PlusType

\* The empty buffer is a buffer.
LEMMA NoBytes == <<>> \in Bytes
  BY DEF Bytes

\* Joining and cutting buffers.
LEMMA Join ==
  ASSUME NEW a \in Bytes, NEW b \in Bytes
  PROVE  a \o b \in Bytes /\ Len(a \o b) = Len(a) + Len(b)
  BY ConcatProperties DEF Bytes

\* A part of a byte string is a byte string, no longer than it.
LEMMA Cut ==
  ASSUME NEW b \in Bytes, NEW n \in 0..Len(b)
  PROVE  /\ SubSeq(b, 1, n) \in Bytes /\ Len(SubSeq(b, 1, n)) = n
         /\ SubSeq(b, n + 1, Len(b)) \in Bytes /\ Len(SubSeq(b, n + 1, Len(b))) = Len(b) - n
  BY DEF Bytes

\* A window computed in 16 bits stays in 16 bits.
LEMMA WindowType == \A s \in SND : freeWindowSpace(s) \in Wnds
  <1> SUFFICES ASSUME NEW s \in SND PROVE freeWindowSpace(s) \in Wnds
    OBVIOUS
  <1>1. SeqMod \in Nat /\ SeqMod > 0 /\ WndMod \in Nat /\ WndMod > 0
    BY ConstantsAssumption
  <1>2. s.WND \in Int /\ s.NXT \in Int /\ s.UNA \in Int
    BY <1>1 DEF SND, Seqs, Wnds
  <1>3. (s.NXT - s.UNA) % SeqMod \in Int
    BY <1>1, <1>2
  <1> QED BY <1>1, <1>2, <1>3 DEF freeWindowSpace, Wnds

\* Appending to the in-flight list keeps the type of SND.
LEMMA TrackedType ==
  ASSUME NEW s \in SND, NEW p \in Packets
  PROVE  Tracked(s, p) \in SND /\ Tracked(s, p).buf = s.buf
  <1>1. s.place + 1 \in Nat /\ s.inFlight \subseteq Packets
    BY DEF SND
  <1>2. [p EXCEPT !.at = s.place + 1] \in Packets
    BY <1>1 DEF Packets
  <1>3. s.inFlight \cup {[p EXCEPT !.at = s.place + 1]} \in SUBSET Packets
    BY <1>1, <1>2
  <1> QED BY <1>1, <1>3 DEF Tracked, SND

\* Dropping acknowledged packets keeps the type of SND.
LEMMA CleanUpType ==
  ASSUME NEW s \in SND, NEW a \in Seqs
  PROVE  cleanUpInFlightPackets(s, a) \in SND /\ cleanUpInFlightPackets(s, a).buf = s.buf
  BY DEF cleanUpInFlightPackets, SND

\* The SND of a new socket is well formed.
LEMMA NewSNDType == ASSUME NEW i \in Seqs, NEW w \in Wnds PROVE NewSND(i, w) \in SND
  <1>1. Plus(i, 1) \in Seqs
     BY PlusType DEF Seqs
  <1>2. <<>> \in Bytes
     BY DEF Bytes
  <1> QED BY <1>1, <1>2 DEF NewSND, SND

\* The RCV of a new socket is well formed.
LEMMA NewRCVType == ASSUME NEW i \in Seqs, NEW n \in Seqs PROVE NewRCV(i, n) \in RCV
  <1>1. BUFFER_SIZE \in Wnds
    BY ConstantsAssumption DEF Wnds
  <1>2. <<>> \in Bytes
    BY DEF Bytes
  <1> QED BY <1>1, <1>2 DEF NewRCV, RCV

\* The room left in a buffer that is not overfilled is a window.
LEMMA FreeType ==
  ASSUME NEW b \in Bytes, Len(b) <= BUFFER_SIZE
  PROVE  Free(b) \in Wnds /\ Free(b) \in 0..BUFFER_SIZE
  <1>1. Len(b) \in Nat
    BY DEF Bytes
  <1> QED BY <1>1, ConstantsAssumption DEF Free, Wnds

\* A segment built from well-formed fields is a segment.
LEMMA SegmentType ==
  ASSUME NEW f \in SUBSET Flags, NEW s \in Seqs, NEW a \in Seqs, NEW w \in Wnds, NEW d \in Bytes
  PROVE  Segment(f, s, a, w, d) \in Segments
  BY DEF Segment, Segments

\* An in-flight packet built from well-formed fields is a packet.
LEMMA PacketType ==
  ASSUME NEW f \in SUBSET Flags, NEW s \in Seqs, NEW l \in Nat, NEW w \in Wnds, NEW d \in Bytes
  PROVE  Packet(f, s, l, w, d) \in Packets
  BY DEF Packet, Packets

\* The acknowledgement a handler builds is a segment.
LEMMA AckOfType ==
  ASSUME NEW s \in SND, NEW r \in RCV, NEW w \in Wnds, NEW d \in Bytes
  PROVE  AckOf(s, r, w, d) \in Segments
  <1>1. s.NXT \in Seqs /\ r.NXT \in Seqs
    BY DEF SND, RCV
  <1>2. {"ACK"} \in SUBSET Flags
    BY DEF Flags
  <1> QED BY <1>1, <1>2, SegmentType DEF AckOf

\* The socket that processACK and handleClosingACK leave behind.
LEMMA ProcessACKType ==
  ASSUME NEW s \in SND, NEW g \in Segments
  PROVE  processACK(s, g) \in SND /\ processACK(s, g).buf = s.buf
  <1>1. g.ack \in Seqs
    BY DEF Segments
  <1> DEFINE t == [s EXCEPT !.UNA = g.ack]
             c == cleanUpInFlightPackets(t, g.ack)
  <1>2. t \in SND /\ t.buf = s.buf
    BY <1>1 DEF SND
  <1>3. c \in SND /\ c.buf = s.buf
    BY <1>1, <1>2, CleanUpType
  <1>4. [c EXCEPT !.timer = c.inFlight # {}, !.retransmissions = 0] \in SND
    BY <1>3 DEF SND
  <1>5. [c EXCEPT !.timer = c.inFlight # {}, !.retransmissions = 0].buf = s.buf
    BY <1>3 DEF SND
  <1> QED BY <1>4, <1>5 DEF processACK

\* handleClosingACK leaves a well-formed SND with the same buffer.
LEMMA ClosingSNDType ==
  ASSUME NEW s \in SND, NEW g \in Segments
  PROVE  ClosingSND(s, g) \in SND /\ ClosingSND(s, g).buf = s.buf
  <1>1. g.ack \in Seqs
    BY DEF Segments
  <1> DEFINE c == cleanUpInFlightPackets(s, g.ack)
  <1>2. c \in SND /\ c.buf = s.buf
    BY <1>1, CleanUpType
  <1>3. [c EXCEPT !.timer = FALSE] \in SND /\ [c EXCEPT !.timer = FALSE].buf = c.buf
    BY <1>2 DEF SND
  <1> QED BY <1>2, <1>3 DEF ClosingSND

\* Sending and receiving keep the network well typed.
LEMMA SendType ==
  ASSUME net \in [Hosts -> Seq(Segments)], NEW h \in Hosts, NEW g \in Segments, Send(h, g)
  PROVE  net' \in [Hosts -> Seq(Segments)]
  BY PeerIsHost DEF Send

\* Taking a segment off the wire and sending others keeps the queues typed.
LEMMA ExchangeType ==
  ASSUME net \in [Hosts -> Seq(Segments)], NEW h \in Hosts, net[h] # <<>>,
         NEW out \in Seq(Segments), Exchange(h, out)
  PROVE  net' \in [Hosts -> Seq(Segments)]
  <1>1. Tail(net[h]) \in Seq(Segments)
    OBVIOUS
  <1>2. net[Peer(h)] \o out \in Seq(Segments)
    BY PeerIsHost
  <1> QED BY <1>1, <1>2, PeerIsHost DEF Exchange

\* The segment taken off the wire is a segment.
LEMMA TakeType ==
  ASSUME net \in [Hosts -> Seq(Segments)], NEW h \in Hosts, net[h] # <<>>, Exchange(h, <<>>)
  PROVE  net' \in [Hosts -> Seq(Segments)]
  <1>1. <<>> \in Seq(Segments)
    OBVIOUS
  <1> QED BY <1>1, ExchangeType

-----------------------------------------------------------------------------
(* The type invariant.  A window is the room left in a buffer, so that it is *)
(* a 16 bit number only because the buffers are never overfilled: the two    *)
(* are proved together.                                                      *)

IInv == TypeOK /\ BufferBound

\* The idle interface goroutine is well formed.
LEMMA IfaceIdleType == IfaceIdle \in IFACE
  <1>1. 0 \in Seqs /\ 0 \in Wnds /\ {} \in SUBSET Flags
    BY ConstantsAssumption DEF Seqs, Wnds
  <1>2. NoSegment \in Segments
    BY <1>1, NoBytes, SegmentType DEF NoSegment
  <1> QED BY <1>2, NoBytes DEF IfaceIdle, IFACE

\* The idle retransmission goroutine is well formed.
LEMMA RtxIdleType == RtxIdle \in RTX
  <1>1. 0 \in Seqs /\ 0 \in Wnds /\ {} \in SUBSET Flags
    BY ConstantsAssumption DEF Seqs, Wnds
  <1>2. Packet({}, 0, 0, 0, <<>>) \in Packets
    BY <1>1, NoBytes, PacketType
  <1> QED BY <1>2 DEF RtxIdle, RtxAt, RTX

\* The inductive invariant holds initially.
LEMMA InitIInv == Init => IInv
  <1> SUFFICES ASSUME Init PROVE IInv
    OBVIOUS
  <1>1. 0 \in Seqs /\ 0 \in Wnds
    BY ConstantsAssumption DEF Seqs, Wnds
  <1>2. <<>> \in Bytes /\ {} \in SUBSET Flags
    BY DEF Bytes
  <1>3. NewSND(0, 0) \in SND /\ NewSND(0, 0).buf = <<>>
    BY <1>1, NewSNDType DEF NewSND
  <1>4. NewRCV(0, 0) \in RCV /\ NewRCV(0, 0).buf = <<>>
    BY <1>1, NewRCVType DEF NewRCV
  <1>5. Idle \in REPL
    BY <1>2 DEF Idle, REPL
  <1>6. TypeOK
    BY <1>1, <1>2, <1>3, <1>4, <1>5, IfaceIdleType, RtxIdleType DEF Init, TypeOK, States, Bytes
  <1>7. BufferBound
    BY <1>3, <1>4, ConstantsAssumption DEF Init, BufferBound
  <1> QED BY <1>6, <1>7 DEF IInv

\* Starting or stopping the timer.
LEMMA TimerType ==
  ASSUME NEW s \in SND, NEW b \in BOOLEAN
  PROVE  [s EXCEPT !.timer = b] \in SND /\ [s EXCEPT !.timer = b].buf = s.buf
  BY DEF SND

\* The expiry of a timer keeps the fault counter a number.
LEMMA ElapsesType == ASSUME faults \in Nat, Elapses PROVE faults' \in Nat
  BY DEF Elapses

\* A new socket has empty buffers.
LEMMA FreshBuffers ==
  ASSUME IInv, NEW h \in Hosts, NEW s, NEW r, s.buf = <<>>, r.buf = <<>>,
         snd' = [snd EXCEPT ![h] = s], rcv' = [rcv EXCEPT ![h] = r]
  PROVE  BufferBound'
  <1> SUFFICES ASSUME NEW k \in Hosts
               PROVE  Len(snd'[k].buf) <= BUFFER_SIZE /\ Len(rcv'[k].buf) <= BUFFER_SIZE
    BY DEF BufferBound
  <1>1. snd \in [Hosts -> SND] /\ rcv \in [Hosts -> RCV]
    BY DEF IInv, TypeOK
  <1>2. CASE k = h
    <2>1. snd'[k] = s /\ rcv'[k] = r
      BY <1>1, <1>2
    <2> QED BY <2>1, ConstantsAssumption
  <1>3. CASE k # h
    <2>1. snd'[k] = snd[k] /\ rcv'[k] = rcv[k]
      BY <1>1, <1>3
    <2> QED BY <2>1 DEF IInv, BufferBound
  <1> QED BY <1>2, <1>3

\* Opening.
LEMMA VConnectIInv == ASSUME IInv, VConnect PROVE IInv'
  <1>1. PICK isn \in ISNs[Client] : VConnect!3!(isn)
    BY DEF VConnect
  <1>2. isn \in Seqs /\ BUFFER_SIZE \in Wnds /\ 0 \in Wnds /\ 0 \in Seqs /\ Client \in Hosts
    BY ConstantsAssumption DEF Seqs, Wnds, Hosts
  <1>3. <<>> \in Bytes /\ {"SYN"} \in SUBSET Flags
    BY DEF Bytes, Flags
  <1>4. NewSND(isn, BUFFER_SIZE) \in SND /\ NewSND(isn, BUFFER_SIZE).buf = <<>>
    BY <1>2, NewSNDType DEF NewSND
  <1>5. Packet({"SYN"}, isn, 0, 0, <<>>) \in Packets
    BY <1>2, <1>3, PacketType
  <1> DEFINE t == Tracked(NewSND(isn, BUFFER_SIZE), Packet({"SYN"}, isn, 0, 0, <<>>))
  <1>6. [t EXCEPT !.timer = TRUE] \in SND /\ [t EXCEPT !.timer = TRUE].buf = <<>>
    BY <1>4, <1>5, TrackedType, TimerType
  <1>7. NewRCV(0, 0) \in RCV /\ NewRCV(0, 0).buf = <<>>
    BY <1>2, NewRCVType DEF NewRCV
  <1>8. net' \in [Hosts -> Seq(Segments)]
    BY <1>1, <1>2, <1>3, SendType, SegmentType DEF IInv, TypeOK
  <1>9. snd' \in [Hosts -> SND] /\ rcv' \in [Hosts -> RCV]
    BY <1>1, <1>6, <1>7 DEF IInv, TypeOK
  <1>10. BufferBound'
    <2> HIDE DEF t
    <2>1. /\ snd' = [snd EXCEPT ![Client] = [t EXCEPT !.timer = TRUE]]
          /\ rcv' = [rcv EXCEPT ![Client] = NewRCV(0, 0)]
      BY <1>1 DEF t
    <2> QED BY <1>2, <1>6, <1>7, <2>1, FreshBuffers
  <1>11. SeqNum' \in [Hosts -> Seqs] /\ state' \in [Hosts -> States]
    BY <1>1, <1>2 DEF IInv, TypeOK, VConnect, States
  <1>12. conn' \in [pc : {"idle", "waiting", "ok", "timeout"}, established : BOOLEAN]
    BY DEF IInv, TypeOK, VConnect
  <1> QED
    BY <1>8, <1>9, <1>10, <1>11, <1>12 DEF IInv, TypeOK, VConnect, accept, history

\* VConnectReturn, HandshakeTimeout and VAccept preserve the invariant.
LEMMA ConnectingIInv == ASSUME IInv, Connecting PROVE IInv'
  <1>1. CASE VConnectReturn
    BY <1>1 DEF IInv, TypeOK, BufferBound, VConnectReturn, sockets, accept, history
  <1>2. CASE HandshakeTimeout
    <2>1. faults' \in Nat
      BY <1>2, ElapsesType DEF IInv, TypeOK, HandshakeTimeout
    <2>2. state' \in [Hosts -> States]
      BY <1>2 DEF IInv, TypeOK, HandshakeTimeout, States
    <2> QED
      BY <1>2, <2>1, <2>2 DEF IInv, TypeOK, BufferBound, HandshakeTimeout, accept
  <1>3. CASE VAccept
    BY <1>3 DEF IInv, TypeOK, BufferBound, VAccept, sockets, threads, history
  <1> QED BY <1>1, <1>2, <1>3 DEF Connecting

\* The handlers.  Each takes a segment off a well typed network.
LEMMA ReceivesType ==
  ASSUME IInv, NEW h \in Hosts, NEW g, Receives(h, g)
  PROVE  /\ g \in Segments /\ net[h] # <<>>
         /\ g.seq \in Seqs /\ g.ack \in Seqs /\ g.wnd \in Wnds /\ g.data \in Bytes
         /\ snd[h] \in SND /\ rcv[h] \in RCV
         /\ Len(snd[h].buf) <= BUFFER_SIZE /\ Len(rcv[h].buf) <= BUFFER_SIZE
  <1>1. net[h] \in Seq(Segments) /\ net[h] # <<>> /\ g = Head(net[h])
    BY DEF IInv, TypeOK, Receives
  <1>2. g \in Segments
    BY <1>1
  <1> QED BY <1>1, <1>2 DEF IInv, TypeOK, BufferBound, Segments

\* handleSYN preserves the inductive invariant.
LEMMA HandleSYNIInv == ASSUME IInv, NEW g, handleSYN(g) PROVE IInv'
  <1> DEFINE r == NewRCV(g.seq, Plus(g.seq, 1))
             f == {"SYN", "ACK"}
  <1>1. PICK isn \in ISNs[Server] :
           LET synAck == f IN
           /\ SeqNum' = [SeqNum EXCEPT ![Server] = isn]
           /\ snd' = [snd EXCEPT ![Server] =
                       [Tracked(NewSND(isn, g.wnd), Packet(synAck, isn, 0, r.WND, <<>>))
                          EXCEPT !.timer = TRUE]]
           /\ rcv' = [rcv EXCEPT ![Server] = r]
           /\ Exchange(Server, <<Segment(synAck, isn, r.NXT, r.WND, <<>>)>>)
    BY DEF handleSYN
  <1>2. isn \in Seqs /\ Server \in Hosts /\ <<>> \in Bytes /\ f \in SUBSET Flags
    BY ConstantsAssumption DEF Seqs, Hosts, Bytes, Flags
  <1>3. /\ net[Server] # <<>> /\ g.seq \in Seqs /\ g.wnd \in Wnds
    BY <1>2, ReceivesType DEF handleSYN
  <1>4. Plus(g.seq, 1) \in Seqs
    BY <1>3, PlusSeqs
  <1>5. r \in RCV /\ r.buf = <<>> /\ r.WND \in Wnds /\ r.NXT \in Seqs
    <2>1. r \in RCV /\ r.buf = <<>>
      BY <1>3, <1>4, NewRCVType DEF NewRCV
    <2> QED BY <2>1 DEF RCV
  <1>6. NewSND(isn, g.wnd) \in SND /\ NewSND(isn, g.wnd).buf = <<>>
    BY <1>2, <1>3, NewSNDType DEF NewSND
  <1>7. Packet(f, isn, 0, r.WND, <<>>) \in Packets
    BY <1>2, <1>5, PacketType
  <1> DEFINE t == Tracked(NewSND(isn, g.wnd), Packet(f, isn, 0, r.WND, <<>>))
  <1>8. [t EXCEPT !.timer = TRUE] \in SND /\ [t EXCEPT !.timer = TRUE].buf = <<>>
    BY <1>6, <1>7, TrackedType, TimerType
  <1>9. <<Segment(f, isn, r.NXT, r.WND, <<>>)>> \in Seq(Segments)
    BY <1>2, <1>5, SegmentType
  <1>10. net' \in [Hosts -> Seq(Segments)]
    BY <1>1, <1>2, <1>3, <1>9, ExchangeType DEF IInv, TypeOK
  <1>11. snd' \in [Hosts -> SND] /\ rcv' \in [Hosts -> RCV] /\ SeqNum' \in [Hosts -> Seqs]
    BY <1>1, <1>2, <1>5, <1>8 DEF IInv, TypeOK
  <1>12. BufferBound'
    <2> HIDE DEF t, r
    <2>1. /\ snd' = [snd EXCEPT ![Server] = [t EXCEPT !.timer = TRUE]]
          /\ rcv' = [rcv EXCEPT ![Server] = r]
      BY <1>1 DEF t, r
    <2> QED BY <1>2, <1>5, <1>8, <2>1, FreshBuffers
  <1>13. state' \in [Hosts -> States]
    BY DEF IInv, TypeOK, handleSYN, States
  <1> QED
    BY <1>10, <1>11, <1>12, <1>13 DEF IInv, TypeOK, handleSYN, threads, accept, history

\* handleSYNACK preserves the inductive invariant.
LEMMA HandleSYNACKIInv ==
  ASSUME IInv, NEW h \in Hosts, NEW g, handleSYNACK(h, g) PROVE IInv'
  <1> DEFINE r == [rcv[h] EXCEPT !.IRS = g.seq, !.NXT = Plus(g.seq, 1)]
             s == [snd[h] EXCEPT !.UNA = g.ack, !.NXT = g.ack, !.WND = g.wnd,
                                 !.timer = FALSE, !.inFlight = {}, !.place = 0]
  <1>1. /\ rcv' = [rcv EXCEPT ![h] = r]
        /\ snd' = [snd EXCEPT ![h] = s]
        /\ Exchange(h, <<AckOf(s, r, r.WND, <<>>)>>)
    BY DEF handleSYNACK
  <1>2. /\ net[h] # <<>> /\ g.seq \in Seqs /\ g.ack \in Seqs /\ g.wnd \in Wnds
        /\ snd[h] \in SND /\ rcv[h] \in RCV
        /\ Len(snd[h].buf) <= BUFFER_SIZE /\ Len(rcv[h].buf) <= BUFFER_SIZE
    BY ReceivesType DEF handleSYNACK
  <1>3. Plus(g.seq, 1) \in Seqs
    BY <1>2, PlusSeqs
  <1>4. r \in RCV /\ r.buf = rcv[h].buf /\ r.WND \in Wnds
    BY <1>2, <1>3 DEF RCV
  <1>5. s \in SND /\ s.buf = snd[h].buf
    BY <1>2 DEF SND
  <1> HIDE DEF r, s
  <1>6. <<AckOf(s, r, r.WND, <<>>)>> \in Seq(Segments)
    BY <1>4, <1>5, AckOfType, NoBytes
  <1>7. net' \in [Hosts -> Seq(Segments)]
    BY <1>1, <1>2, <1>6, ExchangeType DEF IInv, TypeOK
  <1>8. snd' \in [Hosts -> SND] /\ rcv' \in [Hosts -> RCV]
    BY <1>1, <1>4, <1>5 DEF IInv, TypeOK
  <1>9. BufferBound'
    BY <1>1, <1>2, <1>4, <1>5 DEF IInv, TypeOK, BufferBound
  <1>10. state' \in [Hosts -> States]
    BY DEF IInv, TypeOK, handleSYNACK, States
  <1>11. conn' \in [pc : {"idle", "waiting", "ok", "timeout"}, established : BOOLEAN]
    BY DEF IInv, TypeOK, handleSYNACK
  <1> QED
    BY <1>7, <1>8, <1>9, <1>10, <1>11 DEF IInv, TypeOK, handleSYNACK, accept, history

\* handleACK preserves the inductive invariant.
LEMMA HandleACKIInv ==
  ASSUME IInv, NEW h \in Hosts, NEW g, handleACK(h, g) PROVE IInv'
  <1> DEFINE c == cleanUpInFlightPackets(snd[h], g.ack)
             s == [c EXCEPT !.timer = c.inFlight # {}]
  <1>1. snd' = [snd EXCEPT ![h] = s] /\ Exchange(h, <<>>)
    BY DEF handleACK
  <1>2. /\ net[h] # <<>> /\ g.ack \in Seqs /\ snd[h] \in SND
        /\ Len(snd[h].buf) <= BUFFER_SIZE
    BY ReceivesType DEF handleACK
  <1>3. s \in SND /\ s.buf = snd[h].buf
    BY <1>2, CleanUpType, TimerType
  <1> HIDE DEF s
  <1>4. net' \in [Hosts -> Seq(Segments)]
    BY <1>1, <1>2, TakeType DEF IInv, TypeOK
  <1>5. SeqNum' \in [Hosts -> Seqs]
    BY PlusSeqs DEF IInv, TypeOK, handleACK
  <1>6. state' \in [Hosts -> States] /\ acceptQueue' \in Nat
    BY DEF IInv, TypeOK, handleACK, States
  <1>7. snd' \in [Hosts -> SND]
    BY <1>1, <1>3 DEF IInv, TypeOK
  <1>8. BufferBound'
    BY <1>1, <1>2, <1>3 DEF IInv, TypeOK, BufferBound, handleACK
  <1> QED
    BY <1>4, <1>5, <1>6, <1>7, <1>8 DEF IInv, TypeOK, handleACK, threads, history

\* The end of handleEstablishedPacket leaves well-formed sockets.
LEMMA AfterDataType ==
  ASSUME IInv, NEW h \in Hosts, NEW s \in SND, Len(s.buf) <= BUFFER_SIZE,
         NEW r \in RCV, Len(r.buf) <= BUFFER_SIZE,
         NEW g \in Segments, NEW c \in BOOLEAN, AfterData(h, s, r, g, c)
  PROVE  /\ snd' \in [Hosts -> SND] /\ rcv' \in [Hosts -> RCV] /\ state' \in [Hosts -> States]
         /\ BufferBound'
  <1>1. processACK(s, g) \in SND /\ processACK(s, g).buf = s.buf
    BY ProcessACKType
  <1> DEFINE s2 == IF c THEN ClosingSND(processACK(s, g), g) ELSE processACK(s, g)
             r2 == IF c THEN [r EXCEPT !.WND = g.wnd] ELSE r
  <1>2. s2 \in SND /\ s2.buf = s.buf
    BY <1>1, ClosingSNDType
  <1>3. r2 \in RCV /\ r2.buf = r.buf
    <2>1. g.wnd \in Wnds
      BY DEF Segments
    <2>2. [r EXCEPT !.WND = g.wnd] \in RCV /\ [r EXCEPT !.WND = g.wnd].buf = r.buf
      BY <2>1 DEF RCV
    <2> QED BY <2>2
  <1>4. snd' = [snd EXCEPT ![h] = s2] /\ rcv' = [rcv EXCEPT ![h] = r2]
    BY DEF AfterData
  <1> HIDE DEF s2, r2
  <1>5. snd' \in [Hosts -> SND] /\ rcv' \in [Hosts -> RCV]
    BY <1>2, <1>3, <1>4 DEF IInv, TypeOK
  <1>6. BufferBound'
    BY <1>2, <1>3, <1>4 DEF IInv, TypeOK, BufferBound
  <1>7. \A st \in States : ClosingState(st) \in States
    BY DEF ClosingState, States
  <1>8. state' \in [Hosts -> States]
    BY <1>7 DEF AfterData, IInv, TypeOK
  <1> QED BY <1>5, <1>6, <1>8

\* handleEstablishedPacket without data to write preserves the invariant.
LEMMA EstablishedIInv ==
  ASSUME IInv, NEW h \in Hosts, NEW g, handleEstablishedPacket(h, g) PROVE IInv'
  <1> DEFINE s == [snd[h] EXCEPT !.WND = g.wnd]
             r == IF g.data = <<>> THEN rcv[h]
                  ELSE [rcv[h] EXCEPT !.early = @ \cup {[seq |-> g.seq, data |-> g.data]}]
             c == state[h] \in FinWait /\ "ACK" \in g.flags
             out == IF g.data = <<>> THEN <<>> ELSE <<AckOf(s, r, r.WND, <<>>)>>
  <1>1. AfterData(h, s, r, g, c) /\ Exchange(h, out)
    BY DEF handleEstablishedPacket
  <1>2. /\ g \in Segments /\ net[h] # <<>>
        /\ g.seq \in Seqs /\ g.wnd \in Wnds /\ g.data \in Bytes
        /\ snd[h] \in SND /\ rcv[h] \in RCV
        /\ Len(snd[h].buf) <= BUFFER_SIZE /\ Len(rcv[h].buf) <= BUFFER_SIZE
    BY ReceivesType DEF handleEstablishedPacket
  <1>3. s \in SND /\ s.buf = snd[h].buf
    BY <1>2 DEF SND
  <1>4. r \in RCV /\ r.buf = rcv[h].buf
    <2>1. [seq |-> g.seq, data |-> g.data] \in Early
      BY <1>2 DEF Early
    <2>2. rcv[h].early \cup {[seq |-> g.seq, data |-> g.data]} \in SUBSET Early
      BY <1>2, <2>1 DEF RCV
    <2> QED BY <1>2, <2>2 DEF RCV
  <1>5. r.WND \in Wnds
    BY <1>4 DEF RCV
  <1>6. c \in BOOLEAN
    OBVIOUS
  <1> HIDE DEF s, r, c
  <1>7. out \in Seq(Segments)
    BY <1>3, <1>4, <1>5, AckOfType, NoBytes
  <1> HIDE DEF out
  <1>8. net' \in [Hosts -> Seq(Segments)]
    BY <1>1, <1>2, <1>7, ExchangeType DEF IInv, TypeOK
  <1>9. /\ snd' \in [Hosts -> SND] /\ rcv' \in [Hosts -> RCV] /\ state' \in [Hosts -> States]
        /\ BufferBound'
    BY <1>1, <1>2, <1>3, <1>4, <1>6, AfterDataType
  <1> QED
    BY <1>8, <1>9 DEF IInv, TypeOK, handleEstablishedPacket, threads, accept, history

\* handleData preserves the inductive invariant.
LEMMA HandleDataIInv ==
  ASSUME IInv, NEW h \in Hosts, NEW g, handleData(h, g) PROVE IInv'
  <1>1. /\ g \in Segments /\ net[h] # <<>> /\ g.wnd \in Wnds /\ g.data \in Bytes
        /\ snd[h] \in SND /\ Len(snd[h].buf) <= BUFFER_SIZE
    BY ReceivesType DEF handleData
  <1>2. net' \in [Hosts -> Seq(Segments)]
    BY <1>1, TakeType DEF IInv, TypeOK, handleData
  <1> DEFINE s == [snd[h] EXCEPT !.WND = g.wnd]
             c == state[h] \in FinWait /\ "ACK" \in g.flags
             t == [pc |-> "write", seg |-> g, rest |-> g.data, len |-> Len(g.data), closing |-> c]
  <1>3. s \in SND /\ s.buf = snd[h].buf
    BY <1>1 DEF SND
  <1>4. t \in IFACE
    <2>1. c \in BOOLEAN /\ Len(g.data) \in Nat
      BY <1>1 DEF Bytes
    <2> HIDE DEF c
    <2> QED BY <1>1, <2>1 DEF IFACE
  <1>5. snd' = [snd EXCEPT ![h] = s] /\ iface' = [iface EXCEPT ![h] = t]
    BY DEF handleData
  <1> HIDE DEF s, t
  <1>6. snd' \in [Hosts -> SND] /\ iface' \in [Hosts -> IFACE]
    BY <1>3, <1>4, <1>5 DEF IInv, TypeOK
  <1>7. BufferBound'
    BY <1>1, <1>3, <1>5 DEF IInv, TypeOK, BufferBound, handleData
  <1> QED BY <1>2, <1>6, <1>7 DEF IInv, TypeOK, handleData, accept, history

\* The blocking Write never writes more than there is room for.
LEMMA RcvBufWriteIInv == ASSUME IInv, NEW h \in Hosts, rcvBufWrite(h) PROVE IInv'
  <1> DEFINE rest == iface[h].rest
             free == Free(rcv[h].buf)
             b == rcv[h].buf \o SubSeq(rest, 1, free)
             left == SubSeq(rest, free + 1, Len(rest))
  <1>1. /\ rcv[h] \in RCV /\ rcv[h].buf \in Bytes /\ Len(rcv[h].buf) <= BUFFER_SIZE
        /\ iface[h] \in IFACE /\ rest \in Bytes /\ Len(rest) \in Nat
    BY DEF IInv, TypeOK, BufferBound, RCV, IFACE, Bytes
  <1>2. free \in 0..BUFFER_SIZE /\ Len(rest) > free
    BY <1>1, FreeType DEF rcvBufWrite
  <1>3. free \in 0..Len(rest)
    BY <1>1, <1>2, ConstantsAssumption
  <1>4. b \in Bytes /\ Len(b) <= BUFFER_SIZE
    <2> DEFINE cut == SubSeq(rest, 1, free)
    <2>1. cut \in Bytes /\ Len(cut) = free
      BY <1>1, <1>3, Cut
    <2> HIDE DEF cut, free, rest
    <2>2. b \in Bytes /\ Len(b) = Len(rcv[h].buf) + free
      <3>1. rcv[h].buf \o cut \in Bytes /\ Len(rcv[h].buf \o cut) = Len(rcv[h].buf) + Len(cut)
        BY <1>1, <2>1, Join
      <3> QED BY <2>1, <3>1 DEF cut
    <2>3. Len(rcv[h].buf) \in Nat
      BY <1>1 DEF Bytes
    <2>4. free = BUFFER_SIZE - Len(rcv[h].buf)
      BY DEF free, Free
    <2> HIDE DEF b
    <2> QED BY <2>2, <2>3, <2>4, ConstantsAssumption
  <1>5. left \in Bytes
    BY <1>1, <1>3, Cut
  <1>6. /\ rcv' = [rcv EXCEPT ![h] = [rcv[h] EXCEPT !.buf = b]]
        /\ iface' = [iface EXCEPT ![h] = [iface[h] EXCEPT !.rest = left]]
    BY DEF rcvBufWrite
  <1> HIDE DEF b, left, free, rest
  <1>7. [rcv[h] EXCEPT !.buf = b] \in RCV /\ [rcv[h] EXCEPT !.buf = b].buf = b
    BY <1>1, <1>4 DEF RCV
  <1>8. [iface[h] EXCEPT !.rest = left] \in IFACE
    BY <1>1, <1>5 DEF IFACE
  <1>9. rcv' \in [Hosts -> RCV] /\ iface' \in [Hosts -> IFACE]
    BY <1>6, <1>7, <1>8 DEF IInv, TypeOK
  <1>10. BufferBound'
    BY <1>4, <1>6, <1>7 DEF IInv, TypeOK, BufferBound, rcvBufWrite
  <1> QED BY <1>9, <1>10 DEF IInv, TypeOK, rcvBufWrite, accept, history

\* processInOrderData preserves the invariant: rcv.WND is the room left in rcv.buf.
LEMMA InOrderIInv == ASSUME IInv, NEW h \in Hosts, processInOrderData(h) PROVE IInv'
  <1> DEFINE t == iface[h]
             b == rcv[h].buf \o t.rest
             nxt == Plus(rcv[h].NXT, t.len)
             next == {e \in rcv[h].early : e.seq = nxt}
             r == [rcv[h] EXCEPT !.buf = b, !.NXT = nxt, !.WND = Free(b)]
  <1>1. /\ rcv[h] \in RCV /\ rcv[h].buf \in Bytes /\ Len(rcv[h].buf) \in Nat
        /\ rcv[h].NXT \in Seqs /\ rcv[h].early \in SUBSET Early
        /\ Len(rcv[h].buf) <= BUFFER_SIZE
        /\ snd[h] \in SND /\ Len(snd[h].buf) <= BUFFER_SIZE
    BY DEF IInv, TypeOK, BufferBound, RCV, Bytes
  <1>2. /\ t \in IFACE /\ t.rest \in Bytes /\ Len(t.rest) \in Nat /\ t.len \in Nat
        /\ t.seg \in Segments /\ t.closing \in BOOLEAN
    BY DEF IInv, TypeOK, IFACE, Bytes
  <1>3. Len(t.rest) <= BUFFER_SIZE - Len(rcv[h].buf)
    BY DEF processInOrderData, Free
  <1>4. b \in Bytes /\ Len(b) = Len(rcv[h].buf) + Len(t.rest)
    BY <1>1, <1>2, Join
  <1>5. nxt \in Seqs
    BY <1>1, <1>2, PlusSeqs
  <1>6. /\ SeqNum' = SeqNum /\ repl' = repl /\ rtx' = rtx /\ conn' = conn
        /\ UNCHANGED <<accept, history>>
    BY DEF processInOrderData
  <1>7. \/ \E e \in next :
             /\ rcv' = [rcv EXCEPT ![h] = [rcv[h] EXCEPT !.buf = b, !.NXT = nxt, !.early = @ \ {e}]]
             /\ iface' = [iface EXCEPT ![h] = [@ EXCEPT !.rest = e.data, !.len = Len(e.data)]]
             /\ UNCHANGED <<state, snd, net>>
        \/ /\ AfterData(h, snd[h], r, t.seg, t.closing)
           /\ Send(h, AckOf(snd[h], r, r.WND, <<>>))
           /\ iface' = [iface EXCEPT ![h] = IfaceIdle]
    BY DEF processInOrderData
  <1> HIDE DEF b, nxt
  <1>8. Len(b) <= BUFFER_SIZE
    <2>1. BUFFER_SIZE \in Nat
      BY ConstantsAssumption
    <2>2. Len(rcv[h].buf) \in Nat /\ Len(t.rest) \in Nat
      BY <1>1, <1>2
    <2> HIDE DEF t
    <2>3. \A m, n, k \in Nat : n <= k - m => m + n <= k
      OBVIOUS
    <2>4. Len(rcv[h].buf) + Len(t.rest) <= BUFFER_SIZE
      BY <1>3, <2>1, <2>2, <2>3
    <2> QED BY <1>4, <2>4
  <1>9. CASE \E e \in next :
             /\ rcv' = [rcv EXCEPT ![h] = [rcv[h] EXCEPT !.buf = b, !.NXT = nxt, !.early = @ \ {e}]]
             /\ iface' = [iface EXCEPT ![h] = [@ EXCEPT !.rest = e.data, !.len = Len(e.data)]]
             /\ UNCHANGED <<state, snd, net>>
    <2>1. PICK e \in next :
             /\ rcv' = [rcv EXCEPT ![h] = [rcv[h] EXCEPT !.buf = b, !.NXT = nxt, !.early = @ \ {e}]]
             /\ iface' = [iface EXCEPT ![h] = [@ EXCEPT !.rest = e.data, !.len = Len(e.data)]]
             /\ UNCHANGED <<state, snd, net>>
      BY <1>9
    <2>2. e.data \in Bytes /\ Len(e.data) \in Nat
      BY <1>1 DEF Early, Bytes
    <2> DEFINE r1 == [rcv[h] EXCEPT !.buf = b, !.NXT = nxt, !.early = @ \ {e}]
               t1 == [t EXCEPT !.rest = e.data, !.len = Len(e.data)]
    <2>3. r1 \in RCV /\ r1.buf = b
      <3>1. rcv[h].early \ {e} \in SUBSET Early
        BY <1>1
      <3> HIDE DEF next
      <3> QED BY <1>1, <1>4, <1>5, <3>1 DEF RCV
    <2>4. t1 \in IFACE
      BY <1>2, <2>2 DEF IFACE
    <2>5. rcv' = [rcv EXCEPT ![h] = r1] /\ iface' = [iface EXCEPT ![h] = t1]
      <3>1. rcv' = [rcv EXCEPT ![h] = r1]
        BY <2>1, Zenon
      <3>2. iface' = [iface EXCEPT ![h] = t1]
        BY <2>1, Zenon
      <3> QED BY <3>1, <3>2
    <2> HIDE DEF r1, t1
    <2>6. rcv' \in [Hosts -> RCV] /\ iface' \in [Hosts -> IFACE]
      BY <2>3, <2>4, <2>5 DEF IInv, TypeOK
    <2>7. BufferBound'
      BY <1>8, <2>1, <2>3, <2>5 DEF IInv, TypeOK, BufferBound
    <2> QED BY <1>6, <2>1, <2>6, <2>7 DEF IInv, TypeOK, accept, history
  <1>10. CASE /\ AfterData(h, snd[h], r, t.seg, t.closing)
              /\ Send(h, AckOf(snd[h], r, r.WND, <<>>))
              /\ iface' = [iface EXCEPT ![h] = IfaceIdle]
    <2>1. Free(b) \in Wnds
      BY <1>4, <1>8, FreeType
    <2>2. r \in RCV /\ r.buf = b /\ r.WND \in Wnds
      BY <1>1, <1>4, <1>5, <2>1 DEF RCV
    <2> HIDE DEF r
    <2>3. AckOf(snd[h], r, r.WND, <<>>) \in Segments
      BY <1>1, <2>2, AckOfType, NoBytes
    <2>4. net' \in [Hosts -> Seq(Segments)]
      BY <1>10, <2>3, SendType DEF IInv, TypeOK
    <2>5. /\ snd' \in [Hosts -> SND] /\ rcv' \in [Hosts -> RCV] /\ state' \in [Hosts -> States]
          /\ BufferBound'
      BY <1>1, <1>2, <1>8, <1>10, <2>2, AfterDataType
    <2>6. iface' \in [Hosts -> IFACE]
      BY <1>10, IfaceIdleType DEF IInv, TypeOK
    <2> QED BY <1>6, <2>4, <2>5, <2>6 DEF IInv, TypeOK, accept, history
  <1> QED BY <1>7, <1>9, <1>10

\* handleFIN preserves the inductive invariant.
LEMMA HandleFINIInv ==
  ASSUME IInv, NEW h \in Hosts, NEW g, handleFIN(h, g) PROVE IInv'
  <1> DEFINE r == [rcv[h] EXCEPT !.NXT = Plus(g.seq, 1), !.WND = g.wnd]
             s == cleanUpInFlightPackets(snd[h], g.ack)
  <1>1. /\ rcv' = [rcv EXCEPT ![h] = r]
        /\ snd' = [snd EXCEPT ![h] = s]
        /\ Exchange(h, <<AckOf(snd[h], r, r.WND, <<>>)>>)
    BY DEF handleFIN
  <1>2. /\ net[h] # <<>> /\ g.seq \in Seqs /\ g.ack \in Seqs /\ g.wnd \in Wnds
        /\ snd[h] \in SND /\ rcv[h] \in RCV
        /\ Len(snd[h].buf) <= BUFFER_SIZE /\ Len(rcv[h].buf) <= BUFFER_SIZE
    BY ReceivesType DEF handleFIN
  <1>3. Plus(g.seq, 1) \in Seqs
    BY <1>2, PlusSeqs
  <1>4. r \in RCV /\ r.buf = rcv[h].buf /\ r.WND \in Wnds
    BY <1>2, <1>3 DEF RCV
  <1>5. s \in SND /\ s.buf = snd[h].buf
    BY <1>2, CleanUpType
  <1> HIDE DEF r, s
  <1>6. <<AckOf(snd[h], r, r.WND, <<>>)>> \in Seq(Segments)
    BY <1>2, <1>4, AckOfType, NoBytes
  <1>7. net' \in [Hosts -> Seq(Segments)]
    BY <1>1, <1>2, <1>6, ExchangeType DEF IInv, TypeOK
  <1>8. snd' \in [Hosts -> SND] /\ rcv' \in [Hosts -> RCV]
    BY <1>1, <1>4, <1>5 DEF IInv, TypeOK
  <1>9. BufferBound'
    BY <1>1, <1>2, <1>4, <1>5 DEF IInv, TypeOK, BufferBound
  <1>10. state' \in [Hosts -> States]
    BY DEF IInv, TypeOK, handleFIN, States
  <1> QED
    BY <1>7, <1>8, <1>9, <1>10 DEF IInv, TypeOK, handleFIN, threads, accept, history

\* handleClosingACK preserves the inductive invariant.
LEMMA ClosingACKIInv ==
  ASSUME IInv, NEW h \in Hosts, NEW g, handleClosingACK(h, g) PROVE IInv'
  <1> DEFINE r == [rcv[h] EXCEPT !.WND = g.wnd]
             s == ClosingSND(snd[h], g)
  <1>1. /\ rcv' = [rcv EXCEPT ![h] = r]
        /\ snd' = [snd EXCEPT ![h] = s]
        /\ Exchange(h, <<>>)
    BY DEF handleClosingACK
  <1>2. /\ g \in Segments /\ net[h] # <<>> /\ g.wnd \in Wnds
        /\ snd[h] \in SND /\ rcv[h] \in RCV
        /\ Len(snd[h].buf) <= BUFFER_SIZE /\ Len(rcv[h].buf) <= BUFFER_SIZE
    BY ReceivesType DEF handleClosingACK
  <1>3. r \in RCV /\ r.buf = rcv[h].buf
    BY <1>2 DEF RCV
  <1>4. s \in SND /\ s.buf = snd[h].buf
    BY <1>2, ClosingSNDType
  <1> HIDE DEF r, s
  <1>5. net' \in [Hosts -> Seq(Segments)]
    BY <1>1, <1>2, TakeType DEF IInv, TypeOK
  <1>6. snd' \in [Hosts -> SND] /\ rcv' \in [Hosts -> RCV]
    BY <1>1, <1>3, <1>4 DEF IInv, TypeOK
  <1>7. BufferBound'
    BY <1>1, <1>2, <1>3, <1>4 DEF IInv, TypeOK, BufferBound
  <1>8. state' \in [Hosts -> States]
    BY DEF IInv, TypeOK, handleClosingACK, ClosingState, States
  <1> QED
    BY <1>5, <1>6, <1>7, <1>8 DEF IInv, TypeOK, handleClosingACK, threads, accept, history

\* HandlePacket preserves the inductive invariant.
LEMMA HandlePacketIInv == ASSUME IInv, NEW h \in Hosts, HandlePacket(h) PROVE IInv'
  <1> DEFINE g == Head(net[h])
  <1>1. CASE h = Server /\ handleSYN(g)
    BY <1>1, HandleSYNIInv
  <1>2. CASE handleSYNACK(h, g)
    BY <1>2, HandleSYNACKIInv
  <1>3. CASE handleACK(h, g)
    BY <1>3, HandleACKIInv
  <1>4. CASE handleEstablishedPacket(h, g)
    BY <1>4, EstablishedIInv
  <1>5. CASE handleData(h, g)
    BY <1>5, HandleDataIInv
  <1>6. CASE handleFIN(h, g)
    BY <1>6, HandleFINIInv
  <1>7. CASE handleClosingACK(h, g)
    BY <1>7, ClosingACKIInv
  <1>8. CASE handleRST(h, g)
    <2>1. net' \in [Hosts -> Seq(Segments)]
      BY <1>8, ReceivesType, TakeType DEF IInv, TypeOK, handleRST
    <2>2. state' \in [Hosts -> States]
      BY <1>8 DEF IInv, TypeOK, handleRST, States
    <2> QED
      BY <1>8, <2>1, <2>2 DEF IInv, TypeOK, BufferBound, handleRST, threads, accept, history
  <1>9. CASE ignore(h, g)
    <2>1. net' \in [Hosts -> Seq(Segments)]
      BY <1>9, ReceivesType, TakeType DEF IInv, TypeOK, ignore
    <2> QED
      BY <1>9, <2>1 DEF IInv, TypeOK, BufferBound, ignore, sockets, threads, accept, history
  <1> QED
    BY <1>1, <1>2, <1>3, <1>4, <1>5, <1>6, <1>7, <1>8, <1>9 DEF HandlePacket

\* Steps of one goroutine: what they leave in the socket, in the application's
\* variables and in the network has the right type.
LEMMA SndStep ==
  ASSUME IInv, NEW h \in Hosts, NEW s \in SND, Len(s.buf) <= BUFFER_SIZE,
         snd' = [snd EXCEPT ![h] = s], rcv' = rcv
  PROVE  snd' \in [Hosts -> SND] /\ BufferBound'
  BY DEF IInv, TypeOK, BufferBound

\* A step of the application goroutine to a well-formed place keeps repl typed.
LEMMA ReplStep ==
  ASSUME IInv, NEW h \in Hosts, NEW a \in REPL, repl' = [repl EXCEPT ![h] = a]
  PROVE  repl' \in [Hosts -> REPL]
  BY DEF IInv, TypeOK

\* A step of the retransmission goroutine to a well-formed place keeps rtx typed.
LEMMA RtxStep ==
  ASSUME IInv, NEW h \in Hosts, NEW a \in RTX, rtx' = [rtx EXCEPT ![h] = a]
  PROVE  rtx' \in [Hosts -> RTX]
  BY DEF IInv, TypeOK

\* What the type invariant says of one host.
LEMMA HostType ==
  ASSUME IInv, NEW h \in Hosts
  PROVE  /\ snd[h] \in SND /\ snd[h].buf \in Bytes /\ Len(snd[h].buf) \in Nat
         /\ snd[h].NXT \in Seqs /\ Len(snd[h].buf) <= BUFFER_SIZE
         /\ rcv[h] \in RCV /\ rcv[h].buf \in Bytes /\ Len(rcv[h].buf) \in Nat
         /\ rcv[h].NXT \in Seqs /\ rcv[h].WND \in Wnds /\ Len(rcv[h].buf) <= BUFFER_SIZE
         /\ repl[h] \in REPL /\ repl[h].data \in Bytes /\ repl[h].seg \in Bytes
         /\ repl[h].n \in Nat /\ Len(repl[h].seg) \in Nat
         /\ rtx[h] \in RTX /\ rtx[h].pkt \in Packets
         /\ SeqNum[h] \in Seqs /\ faults \in Nat
  BY DEF IInv, TypeOK, BufferBound, SND, RCV, REPL, RTX, Bytes

\* The idle application goroutine is well formed.
LEMMA IdleType == Idle \in REPL
  BY NoBytes DEF Idle, REPL

\* The end of TIME_WAIT.
LEMMA TimeWaitIInv == ASSUME IInv, NEW h \in Hosts, TimeWaitExpires(h) PROVE IInv'
  <1>1. faults' \in Nat
    BY ElapsesType DEF IInv, TypeOK, TimeWaitExpires
  <1>2. state' \in [Hosts -> States]
    BY DEF IInv, TypeOK, TimeWaitExpires, States
  <1> QED
    BY <1>1, <1>2 DEF IInv, TypeOK, BufferBound, TimeWaitExpires, threads, accept

\* A network that loses, repeats and reorders segments invents none.
LEMMA FaultIInv == ASSUME IInv, NEW h \in Hosts, Fault(h) PROVE IInv'
  <1> DEFINE q == net[h]
  <1>1. q \in Seq(Segments) /\ Len(q) \in Nat /\ net \in [Hosts -> Seq(Segments)]
    BY DEF IInv, TypeOK
  <1>2. PICK i \in DOMAIN q : Drop(h, i) \/ Duplicate(h, i) \/ Overtake(h, i)
    BY DEF Fault
  <1>3. i \in 1..Len(q) /\ q[i] \in Segments
    BY <1>1
  <1>4. net' \in [Hosts -> Seq(Segments)]
    <2>1. CASE Drop(h, i)
      <3> DEFINE d == SubSeq(q, 1, i - 1) \o SubSeq(q, i + 1, Len(q))
      <3>1. SubSeq(q, 1, i - 1) \in Seq(Segments) /\ SubSeq(q, i + 1, Len(q)) \in Seq(Segments)
        BY <1>1, <1>3
      <3>2. d \in Seq(Segments)
        BY <3>1, ConcatProperties
      <3>3. net' = [net EXCEPT ![h] = d]
        BY <2>1 DEF Drop
      <3> HIDE DEF d
      <3> QED BY <1>1, <3>2, <3>3
    <2>2. CASE Duplicate(h, i)
      <3> DEFINE d == Append(q, q[i])
      <3>1. d \in Seq(Segments)
        BY <1>1, <1>3
      <3>2. net' = [net EXCEPT ![h] = d]
        BY <2>2 DEF Duplicate
      <3> HIDE DEF d
      <3> QED BY <1>1, <3>1, <3>2
    <2>3. CASE Overtake(h, i)
      <3> DEFINE d == [q EXCEPT ![i] = q[i - 1], ![i - 1] = q[i]]
      <3>1. i - 1 \in 1..Len(q) /\ q[i - 1] \in Segments
        BY <1>1, <1>3, <2>3 DEF Overtake
      <3>2. d \in Seq(Segments)
        BY <1>1, <1>3, <3>1
      <3>3. net' = [net EXCEPT ![h] = d]
        BY <2>3 DEF Overtake
      <3> HIDE DEF d
      <3> QED BY <1>1, <3>2, <3>3
    <2> QED BY <1>2, <2>1, <2>2, <2>3
  <1>5. faults' \in Nat
    BY DEF IInv, TypeOK, Fault
  <1> QED
    BY <1>4, <1>5 DEF IInv, TypeOK, BufferBound, Fault, sockets, threads, accept

\* TryWrite never writes more than there is room for.
LEMMA TryWriteType ==
  ASSUME IInv, NEW h \in Hosts, NEW d \in Bytes, TryWrite(h, d), rcv' = rcv
  PROVE  snd' \in [Hosts -> SND] /\ repl' \in [Hosts -> REPL] /\ BufferBound'
  <1> DEFINE buf == snd[h].buf
             n == Smaller(Len(d), Free(buf))
             b == buf \o SubSeq(d, 1, n)
             left == SubSeq(d, n + 1, Len(d))
             s == [snd[h] EXCEPT !.buf = b]
             a == [Idle EXCEPT !.pc = "send", !.data = left]
  <1>1. /\ snd[h] \in SND /\ buf \in Bytes /\ Len(buf) \in Nat /\ Len(buf) <= BUFFER_SIZE
        /\ Len(d) \in Nat /\ BUFFER_SIZE \in Nat
    BY HostType, ConstantsAssumption DEF Bytes
  <1>2. Free(buf) = BUFFER_SIZE - Len(buf)
    BY DEF Free
  <1>3. n \in 0..Len(d) /\ n <= BUFFER_SIZE - Len(buf) /\ n \in Nat
    <2> HIDE DEF buf
    <2> QED BY <1>1, <1>2 DEF Smaller
  <1> HIDE DEF n
  <1>4. SubSeq(d, 1, n) \in Bytes /\ Len(SubSeq(d, 1, n)) = n /\ left \in Bytes
    BY <1>3, Cut
  <1>5. b \in Bytes /\ Len(b) = Len(buf) + n
    BY <1>1, <1>4, Join
  <1>6. Len(b) <= BUFFER_SIZE
    <2> HIDE DEF buf, b
    <2> QED BY <1>1, <1>3, <1>5
  <1>7. snd' = [snd EXCEPT ![h] = s] /\ repl' = [repl EXCEPT ![h] = a]
    BY DEF TryWrite, n
  <1> HIDE DEF b, left
  <1>8. s \in SND /\ s.buf = b
    BY <1>1, <1>5 DEF SND
  <1>9. a \in REPL
    BY <1>4, IdleType DEF REPL
  <1> HIDE DEF s, a
  <1> QED BY <1>6, <1>7, <1>8, <1>9, SndStep, ReplStep

\* VWrite preserves the inductive invariant.
LEMMA VWriteIInv == ASSUME IInv, NEW h \in Hosts, VWrite(h) PROVE IInv'
  <1>1. PICK n \in WriteSizes[h] : VWrite(h)!3!(n)
    BY DEF VWrite
  <1>2. n \in Nat /\ written[h] \in Nat
    BY ConstantsAssumption DEF IInv, TypeOK
  <1> DEFINE d == [k \in 1..n |-> written[h] + k]
  <1>3. d \in Bytes
    BY <1>2 DEF Bytes
  <1>4. TryWrite(h, d) /\ rcv' = rcv
    BY <1>1 DEF VWrite
  <1> HIDE DEF d
  <1>5. snd' \in [Hosts -> SND] /\ repl' \in [Hosts -> REPL] /\ BufferBound'
    BY <1>3, <1>4, TryWriteType
  <1>6. written' \in [Hosts -> Nat]
    BY <1>1, <1>2 DEF IInv, TypeOK
  <1> QED BY <1>5, <1>6 DEF IInv, TypeOK, VWrite, accept

\* VWriteLoop preserves the inductive invariant.
LEMMA VWriteLoopIInv == ASSUME IInv, NEW h \in Hosts, VWriteLoop(h) PROVE IInv'
  <1>1. snd' \in [Hosts -> SND] /\ repl' \in [Hosts -> REPL] /\ BufferBound'
    <2>1. CASE TryWrite(h, repl[h].data)
      BY <2>1, HostType, TryWriteType DEF VWriteLoop
    <2>2. CASE repl' = [repl EXCEPT ![h] = Idle] /\ UNCHANGED snd
      BY <2>2, IdleType, ReplStep DEF IInv, TypeOK, BufferBound, VWriteLoop
    <2> QED BY <2>1, <2>2 DEF VWriteLoop
  <1> QED BY <1>1 DEF IInv, TypeOK, VWriteLoop, accept, history

\* trySendData preserves the inductive invariant.
LEMMA TrySendDataIInv == ASSUME IInv, NEW h \in Hosts, trySendData(h) PROVE IInv'
  <1> DEFINE buf == snd[h].buf
             n == Smaller(Smaller(freeWindowSpace(snd[h]), MAX_TCP_PAYLOAD), Len(buf))
             data == SubSeq(buf, 1, n)
             left == SubSeq(buf, n + 1, Len(buf))
             s == [snd[h] EXCEPT !.buf = left]
             a == [repl[h] EXCEPT !.pc = "arm", !.seg = data]
             g == AckOf(snd[h], rcv[h], Free(rcv[h].buf), data)
  <1>1. /\ snd[h] \in SND /\ buf \in Bytes /\ Len(buf) \in Nat /\ Len(buf) <= BUFFER_SIZE
        /\ rcv[h] \in RCV /\ rcv[h].buf \in Bytes /\ Len(rcv[h].buf) <= BUFFER_SIZE
        /\ repl[h] \in REPL
    BY HostType
  <1>2. freeWindowSpace(snd[h]) \in Nat /\ MAX_TCP_PAYLOAD \in Nat
    BY <1>1, WindowType, ConstantsAssumption DEF Wnds
  <1>3. n \in 0..Len(buf)
    <2>1. Smaller(freeWindowSpace(snd[h]), MAX_TCP_PAYLOAD) \in Nat
      BY <1>2 DEF Smaller
    <2> HIDE DEF buf
    <2> QED BY <1>1, <2>1 DEF Smaller
  <1>4. snd' = [snd EXCEPT ![h] = s] /\ repl' = [repl EXCEPT ![h] = a] /\ Send(h, g)
    BY DEF trySendData
  <1> HIDE DEF n
  <1>5. data \in Bytes /\ left \in Bytes /\ Len(left) = Len(buf) - n
    BY <1>1, <1>3, Cut
  <1>6. Len(left) <= BUFFER_SIZE
    <2>1. BUFFER_SIZE \in Nat
      BY ConstantsAssumption
    <2> HIDE DEF buf, left
    <2> QED BY <1>1, <1>3, <1>5, <2>1
  <1> HIDE DEF left, data
  <1>7. s \in SND /\ s.buf = left
    BY <1>1, <1>5 DEF SND
  <1>8. a \in REPL
    BY <1>1, <1>5 DEF REPL
  <1>9. g \in Segments
    BY <1>1, <1>5, FreeType, AckOfType
  <1> HIDE DEF s, a, g
  <1>10. net' \in [Hosts -> Seq(Segments)]
    BY <1>4, <1>9, SendType DEF IInv, TypeOK
  <1>11. rcv' = rcv
    BY DEF trySendData
  <1>12. snd' \in [Hosts -> SND] /\ BufferBound' /\ repl' \in [Hosts -> REPL]
    BY <1>4, <1>6, <1>7, <1>8, <1>11, SndStep, ReplStep
  <1> QED BY <1>10, <1>12 DEF IInv, TypeOK, trySendData, accept, history

\* startTimer preserves the inductive invariant.
LEMMA StartTimerIInv == ASSUME IInv, NEW h \in Hosts, startTimer(h) PROVE IInv'
  <1> DEFINE s == [snd[h] EXCEPT !.timer = @ \/ snd[h].inFlight = {}]
             a == [repl[h] EXCEPT !.pc = "track"]
  <1>1. snd' = [snd EXCEPT ![h] = s] /\ repl' = [repl EXCEPT ![h] = a] /\ rcv' = rcv
    BY DEF startTimer
  <1>2. s \in SND /\ Len(s.buf) <= BUFFER_SIZE
    BY HostType, TimerType DEF SND
  <1>3. a \in REPL
    BY HostType DEF REPL
  <1> HIDE DEF s, a
  <1>4. snd' \in [Hosts -> SND] /\ BufferBound' /\ repl' \in [Hosts -> REPL]
    BY <1>1, <1>2, <1>3, SndStep, ReplStep
  <1> QED BY <1>4 DEF IInv, TypeOK, startTimer, accept, history

\* trackPacket preserves the inductive invariant.
LEMMA TrackPacketIInv == ASSUME IInv, NEW h \in Hosts, trackPacket(h) PROVE IInv'
  <1> DEFINE data == repl[h].seg
             p == Packet({"ACK"}, snd[h].NXT, Len(data), 0, data)
             t == Tracked(snd[h], p)
             s == [t EXCEPT !.NXT = Plus(snd[h].NXT, Len(data))]
             a == [repl[h] EXCEPT !.pc = "send", !.seg = <<>>]
  <1>1. snd' = [snd EXCEPT ![h] = s] /\ repl' = [repl EXCEPT ![h] = a] /\ rcv' = rcv
    BY DEF trackPacket
  <1>2. /\ snd[h] \in SND /\ snd[h].NXT \in Seqs /\ Len(snd[h].buf) <= BUFFER_SIZE
        /\ data \in Bytes /\ Len(data) \in Nat /\ repl[h] \in REPL
    BY HostType
  <1>3. {"ACK"} \in SUBSET Flags /\ 0 \in Wnds
    BY ConstantsAssumption DEF Flags, Wnds
  <1>4. p \in Packets /\ Plus(snd[h].NXT, Len(data)) \in Seqs
    BY <1>2, <1>3, PacketType, PlusSeqs
  <1> HIDE DEF p
  <1>5. t \in SND /\ t.buf = snd[h].buf
    BY <1>2, <1>4, TrackedType
  <1> HIDE DEF t, data
  <1>6. s \in SND /\ s.buf = snd[h].buf
    BY <1>4, <1>5 DEF SND
  <1>7. a \in REPL
    BY <1>2, NoBytes DEF REPL
  <1> HIDE DEF s, a
  <1>8. snd' \in [Hosts -> SND] /\ BufferBound' /\ repl' \in [Hosts -> REPL]
    BY <1>1, <1>2, <1>6, <1>7, SndStep, ReplStep
  <1> QED BY <1>8 DEF IInv, TypeOK, trackPacket, accept, history

\* startProbing preserves the inductive invariant.
LEMMA StartProbingIInv == ASSUME IInv, NEW h \in Hosts, startProbing(h) PROVE IInv'
  <1> DEFINE buf == snd[h].buf
             s == [snd[h] EXCEPT !.buf = Tail(@)]
             a == [repl[h] EXCEPT !.pc = "zwp", !.seg = SubSeq(buf, 1, 1)]
  <1>1. snd' = [snd EXCEPT ![h] = s] /\ repl' = [repl EXCEPT ![h] = a] /\ rcv' = rcv
    BY DEF startProbing
  <1>2. /\ snd[h] \in SND /\ buf \in Bytes /\ Len(buf) \in Nat /\ Len(buf) <= BUFFER_SIZE
        /\ repl[h] \in REPL
    BY HostType
  <1>3. buf # <<>>
    BY DEF startProbing
  <1>4. Tail(buf) \in Bytes /\ Len(Tail(buf)) = Len(buf) - 1 /\ SubSeq(buf, 1, 1) \in Bytes
    BY <1>2, <1>3 DEF Bytes
  <1>5. Len(Tail(buf)) <= BUFFER_SIZE
    <2>1. BUFFER_SIZE \in Nat
      BY ConstantsAssumption
    <2> HIDE DEF buf
    <2> QED BY <1>2, <1>4, <2>1
  <1>6. s \in SND /\ s.buf = Tail(buf)
    BY <1>2, <1>4 DEF SND
  <1>7. a \in REPL
    BY <1>2, <1>4 DEF REPL
  <1> HIDE DEF s, a
  <1>8. snd' \in [Hosts -> SND] /\ BufferBound' /\ repl' \in [Hosts -> REPL]
    BY <1>1, <1>5, <1>6, <1>7, SndStep, ReplStep
  <1> QED BY <1>8 DEF IInv, TypeOK, startProbing, accept, history

\* The sleep between two probes keeps the fault counter a number.
LEMMA SleptType == ASSUME IInv, NEW h, Slept(h) PROVE faults' \in Nat
  BY ElapsesType DEF Slept, IInv, TypeOK

\* sendZeroWindowProbe preserves the inductive invariant.
LEMMA ProbeIInv == ASSUME IInv, NEW h \in Hosts, sendZeroWindowProbe(h) PROVE IInv'
  <1> DEFINE g == AckOf(snd[h], rcv[h], Free(rcv[h].buf), repl[h].seg)
             a == [repl[h] EXCEPT !.n = @ + 1]
  <1>1. Send(h, g) /\ repl' = [repl EXCEPT ![h] = a] /\ Slept(h)
    BY DEF sendZeroWindowProbe
  <1>2. g \in Segments
    BY HostType, FreeType, AckOfType
  <1>3. a \in REPL
    BY HostType DEF REPL
  <1> HIDE DEF g, a
  <1>4. net' \in [Hosts -> Seq(Segments)] /\ repl' \in [Hosts -> REPL] /\ faults' \in Nat
    BY <1>1, <1>2, <1>3, SendType, ReplStep, SleptType DEF IInv, TypeOK
  <1> QED
    BY <1>4 DEF IInv, TypeOK, BufferBound, sendZeroWindowProbe, sockets, accept

\* probingEnds preserves the inductive invariant.
LEMMA ProbingEndsIInv == ASSUME IInv, NEW h \in Hosts, probingEnds(h) PROVE IInv'
  <1>1. Slept(h) /\ rcv' = rcv
    BY DEF probingEnds
  <1>2. faults' \in Nat
    BY <1>1, SleptType
  <1>3. snd' \in [Hosts -> SND] /\ BufferBound' /\ repl' \in [Hosts -> REPL]
    <2>1. CASE repl' = [repl EXCEPT ![h] = Idle] /\ UNCHANGED snd
      BY <1>1, <2>1, IdleType, ReplStep DEF IInv, TypeOK, BufferBound
    <2>2. CASE /\ snd' = [snd EXCEPT ![h].NXT = Plus(@, 1)]
               /\ repl' = [repl EXCEPT ![h] = [@ EXCEPT !.pc = "send", !.seg = <<>>, !.n = 0]]
      <3> DEFINE s == [snd[h] EXCEPT !.NXT = Plus(@, 1)]
                 a == [repl[h] EXCEPT !.pc = "send", !.seg = <<>>, !.n = 0]
      <3>1. snd' = [snd EXCEPT ![h] = s] /\ repl' = [repl EXCEPT ![h] = a]
        BY <2>2
      <3>2. Plus(snd[h].NXT, 1) \in Seqs
        BY HostType, PlusSeqs
      <3>3. s \in SND /\ s.buf = snd[h].buf
        BY <3>2, HostType DEF SND
      <3>4. a \in REPL
        BY HostType, NoBytes DEF REPL
      <3> HIDE DEF s, a
      <3> QED BY <1>1, <3>1, <3>3, <3>4, HostType, SndStep, ReplStep
    <2> QED BY <2>1, <2>2 DEF probingEnds
  <1> QED BY <1>2, <1>3 DEF IInv, TypeOK, probingEnds, accept

\* VRead preserves the inductive invariant.
LEMMA VReadIInv == ASSUME IInv, NEW h \in Hosts, VRead(h) PROVE IInv'
  <1>1. PICK n \in ReadSizes[h] : repl' = [repl EXCEPT ![h] = [@ EXCEPT !.pc = "read", !.n = n]]
    BY DEF VRead
  <1>2. n \in Nat
    BY ConstantsAssumption
  <1> DEFINE a == [repl[h] EXCEPT !.pc = "read", !.n = n]
  <1>3. a \in REPL
    BY <1>2, HostType DEF REPL
  <1>4. repl' = [repl EXCEPT ![h] = a]
    BY <1>1
  <1> HIDE DEF a
  <1>5. repl' \in [Hosts -> REPL]
    BY <1>3, <1>4, ReplStep
  <1> QED BY <1>5 DEF IInv, TypeOK, BufferBound, VRead, sockets, accept, history

\* VReadReturn preserves the inductive invariant.
LEMMA VReadReturnIInv == ASSUME IInv, NEW h \in Hosts, VReadReturn(h) PROVE IInv'
  <1> DEFINE buf == rcv[h].buf
             n == Smaller(repl[h].n, Len(buf))
             rest == SubSeq(buf, n + 1, Len(buf))
             read == SubSeq(buf, 1, n)
             r == [rcv[h] EXCEPT !.buf = rest, !.WND = Free(rest)]
  <1>1. /\ rcv[h] \in RCV /\ buf \in Bytes /\ Len(buf) \in Nat /\ Len(buf) <= BUFFER_SIZE
        /\ repl[h].n \in Nat
    BY HostType
  <1>2. n \in 0..Len(buf)
    <2> HIDE DEF buf
    <2> QED BY <1>1 DEF Smaller
  <1>3. /\ rcv' = [rcv EXCEPT ![h] = r] /\ repl' = [repl EXCEPT ![h] = Idle]
        /\ delivered' = [delivered EXCEPT ![h] = @ \o read] /\ snd' = snd
    BY DEF VReadReturn
  <1> HIDE DEF n
  <1>4. rest \in Bytes /\ Len(rest) = Len(buf) - n /\ read \in Bytes
    BY <1>1, <1>2, Cut
  <1>5. Len(rest) <= BUFFER_SIZE
    <2>1. BUFFER_SIZE \in Nat
      BY ConstantsAssumption
    <2> HIDE DEF buf, rest
    <2> QED BY <1>1, <1>2, <1>4, <2>1
  <1> HIDE DEF rest, read
  <1>6. Free(rest) \in Wnds
    BY <1>4, <1>5, FreeType
  <1>7. r \in RCV /\ r.buf = rest
    BY <1>1, <1>4, <1>6 DEF RCV
  <1> HIDE DEF r
  <1>8. rcv' \in [Hosts -> RCV] /\ repl' \in [Hosts -> REPL]
    BY <1>3, <1>7, IdleType, ReplStep DEF IInv, TypeOK
  <1>9. BufferBound'
    BY <1>3, <1>5, <1>7 DEF IInv, TypeOK, BufferBound
  <1>10. delivered' \in [Hosts -> Bytes]
    <2>1. delivered[h] \o read \in Bytes
      BY <1>4, Join DEF IInv, TypeOK
    <2> QED BY <1>3, <2>1 DEF IInv, TypeOK
  <1> QED BY <1>8, <1>9, <1>10 DEF IInv, TypeOK, VReadReturn, accept

\* The part of VClose up to the send keeps SND and the network typed.
LEMMA SendFINType ==
  ASSUME IInv, NEW h \in Hosts, NEW s \in SND, Len(s.buf) <= BUFFER_SIZE, sendFIN(h, s), rcv' = rcv
  PROVE  snd' \in [Hosts -> SND] /\ BufferBound' /\ net' \in [Hosts -> Seq(Segments)]
  <1> DEFINE p == Packet({"FIN"}, SeqNum[h], 0, 0, <<>>)
             t == Tracked(s, p)
             u == [t EXCEPT !.timer = @ \/ s.inFlight = {}]
             g == Segment({"FIN"}, SeqNum[h], rcv[h].NXT, rcv[h].WND, <<>>)
  <1>1. snd' = [snd EXCEPT ![h] = u] /\ Send(h, g)
    BY DEF sendFIN
  <1>2. {"FIN"} \in SUBSET Flags /\ 0 \in Wnds
    BY ConstantsAssumption DEF Flags, Wnds
  <1>3. p \in Packets /\ g \in Segments
    BY <1>2, HostType, NoBytes, PacketType, SegmentType
  <1> HIDE DEF p, g
  <1>4. t \in SND /\ t.buf = s.buf
    BY <1>3, TrackedType
  <1> HIDE DEF t
  <1>5. u \in SND /\ u.buf = s.buf
    BY <1>4, TimerType DEF SND
  <1> HIDE DEF u
  <1>6. snd' \in [Hosts -> SND] /\ BufferBound'
    BY <1>1, <1>5, SndStep
  <1> QED BY <1>1, <1>3, <1>6, SendType DEF IInv, TypeOK

\* VClose preserves the inductive invariant.
LEMMA VCloseIInv == ASSUME IInv, NEW h \in Hosts, VClose(h) PROVE IInv'
  <1> DEFINE a == [repl[h] EXCEPT !.pc = "close"]
  <1>1. sendFIN(h, snd[h]) /\ rcv' = rcv /\ repl' = [repl EXCEPT ![h] = a]
    BY DEF VClose
  <1>2. a \in REPL
    BY HostType DEF REPL
  <1> HIDE DEF a
  <1>3. snd' \in [Hosts -> SND] /\ BufferBound' /\ net' \in [Hosts -> Seq(Segments)]
    BY <1>1, HostType, SendFINType
  <1>4. repl' \in [Hosts -> REPL]
    BY <1>1, <1>2, ReplStep
  <1> QED BY <1>3, <1>4 DEF IInv, TypeOK, VClose, accept, history

\* The part of VClose after the send keeps the states typed.
LEMMA CloseEndsType ==
  ASSUME IInv, NEW h \in Hosts, closeEnds(h)
  PROVE  state' \in [Hosts -> States] /\ crashed' \subseteq Hosts
  <1>1. \A st \in States : CloseState(st) \in States
    BY DEF CloseState, States
  <1> QED BY <1>1 DEF IInv, TypeOK, closeEnds

\* VCloseReturn preserves the inductive invariant.
LEMMA VCloseReturnIInv == ASSUME IInv, NEW h \in Hosts, VCloseReturn(h) PROVE IInv'
  <1>1. state' \in [Hosts -> States] /\ crashed' \subseteq Hosts
    BY CloseEndsType DEF VCloseReturn
  <1>2. repl' \in [Hosts -> REPL]
    BY IdleType, ReplStep DEF VCloseReturn
  <1> QED BY <1>1, <1>2 DEF IInv, TypeOK, BufferBound, VCloseReturn, accept

\* sendRST preserves the inductive invariant.
LEMMA SendRSTIInv == ASSUME IInv, NEW h \in Hosts, sendRST(h) PROVE IInv'
  <1>1. {"RST"} \in SUBSET Flags /\ 0 \in Wnds
    BY ConstantsAssumption DEF Flags, Wnds
  <1>2. Segment({"RST"}, snd[h].NXT, rcv[h].NXT, 0, <<>>) \in Segments
    BY <1>1, HostType, NoBytes, SegmentType
  <1>3. net' \in [Hosts -> Seq(Segments)]
    BY <1>2, SendType DEF IInv, TypeOK, sendRST
  <1>4. resets' \subseteq Hosts
    BY DEF IInv, TypeOK, sendRST
  <1> QED
    BY <1>3, <1>4 DEF IInv, TypeOK, BufferBound, sendRST, sockets, threads, accept

\* Retransmission.
LEMMA TimerStopped ==
  ASSUME IInv, NEW h \in Hosts, snd' = [snd EXCEPT ![h].timer = FALSE], rcv' = rcv
  PROVE  snd' \in [Hosts -> SND] /\ BufferBound'
  <1> DEFINE s == [snd[h] EXCEPT !.timer = FALSE]
  <1>1. snd' = [snd EXCEPT ![h] = s]
    OBVIOUS
  <1>2. s \in SND /\ s.buf = snd[h].buf
    BY HostType, TimerType
  <1> HIDE DEF s
  <1> QED BY <1>1, <1>2, HostType, SndStep

\* retransmitPacket preserves the inductive invariant.
LEMMA RetransmitIInv == ASSUME IInv, NEW h \in Hosts, retransmitPacket(h) PROVE IInv'
  <1>1. PICK p \in FirstUnacked(snd[h]) :
           /\ Send(h, Segment(p.flags, p.seq, rcv[h].NXT, p.wnd, p.data))
           /\ rtx' = [rtx EXCEPT ![h] = RtxAt("relist", p)]
    BY DEF retransmitPacket
  <1>2. p \in Packets
    BY HostType DEF FirstUnacked, SND
  <1>3. p.flags \in SUBSET Flags /\ p.seq \in Seqs /\ p.wnd \in Wnds /\ p.data \in Bytes
    BY <1>2 DEF Packets
  <1>4. Segment(p.flags, p.seq, rcv[h].NXT, p.wnd, p.data) \in Segments
    BY <1>3, HostType, SegmentType
  <1>5. RtxAt("relist", p) \in RTX
    BY <1>2 DEF RtxAt, RTX
  <1>6. net' \in [Hosts -> Seq(Segments)] /\ rtx' \in [Hosts -> RTX]
    BY <1>1, <1>4, <1>5, SendType, RtxStep DEF IInv, TypeOK
  <1>7. snd' \in [Hosts -> SND] /\ BufferBound'
    BY TimerStopped DEF retransmitPacket
  <1>8. faults' \in Nat
    BY HostType, ElapsesType DEF retransmitPacket, Expired
  <1> QED BY <1>6, <1>7, <1>8 DEF IInv, TypeOK, retransmitPacket, accept

\* relistPacket preserves the inductive invariant.
LEMMA RelistIInv == ASSUME IInv, NEW h \in Hosts, relistPacket(h) PROVE IInv'
  <1> DEFINE p == rtx[h].pkt
             others == {q \in snd[h].inFlight : q.seq # p.seq}
             s == [snd[h] EXCEPT !.inFlight = others, !.place = IF others = {} THEN 0 ELSE @]
             t == Tracked(s, [p EXCEPT !.len = 0])
             u == [t EXCEPT !.retransmissions = @ + 1, !.timer = TRUE]
  <1>1. /\ snd' = [snd EXCEPT ![h] = u] /\ rcv' = rcv /\ rtx' = [rtx EXCEPT ![h] = RtxIdle]
    BY DEF relistPacket
  <1>2. [p EXCEPT !.len = 0] \in Packets
    BY HostType DEF Packets
  <1>3. others \in SUBSET Packets /\ snd[h] \in SND
    BY HostType DEF SND
  <1> HIDE DEF others
  <1>4. s \in SND /\ s.buf = snd[h].buf
    BY <1>3 DEF SND
  <1> HIDE DEF s
  <1>5. t \in SND /\ t.buf = snd[h].buf
    BY <1>2, <1>4, TrackedType
  <1> HIDE DEF t
  <1>6. u \in SND /\ u.buf = snd[h].buf
    <2>1. t.retransmissions + 1 \in Nat
      BY <1>5 DEF SND
    <2>2. u \in SND
      BY <1>5, <2>1 DEF SND
    <2>3. u.buf = t.buf
      BY <1>5 DEF SND
    <2> QED BY <1>5, <2>2, <2>3
  <1> HIDE DEF u
  <1>7. snd' \in [Hosts -> SND] /\ BufferBound'
    BY <1>1, <1>6, HostType, SndStep
  <1>8. rtx' \in [Hosts -> RTX]
    BY <1>1, RtxIdleType, RtxStep
  <1> QED BY <1>7, <1>8 DEF IInv, TypeOK, relistPacket, accept, history

\* nothingToRetransmit preserves the inductive invariant.
LEMMA NothingIInv == ASSUME IInv, NEW h \in Hosts, nothingToRetransmit(h) PROVE IInv'
  <1>1. snd' \in [Hosts -> SND] /\ BufferBound'
    BY TimerStopped DEF nothingToRetransmit
  <1>2. faults' \in Nat
    BY HostType, ElapsesType DEF nothingToRetransmit, Expired
  <1> QED BY <1>1, <1>2 DEF IInv, TypeOK, nothingToRetransmit, threads, accept

\* giveUp preserves the inductive invariant.
LEMMA GiveUpIInv == ASSUME IInv, NEW h \in Hosts, giveUp(h) PROVE IInv'
  <1>1. faults' \in Nat /\ rcv' = rcv
    BY HostType, ElapsesType DEF giveUp, Expired
  <1>2. /\ snd' \in [Hosts -> SND] /\ BufferBound' /\ net' \in [Hosts -> Seq(Segments)]
        /\ rtx' \in [Hosts -> RTX] /\ crashed' \subseteq Hosts
    <2>1. CASE /\ sendFIN(h, [snd[h] EXCEPT !.timer = FALSE])
               /\ rtx' = [rtx EXCEPT ![h].pc = "close"]
               /\ UNCHANGED crashed
      <3> DEFINE s == [snd[h] EXCEPT !.timer = FALSE]
                 a == [rtx[h] EXCEPT !.pc = "close"]
      <3>1. s \in SND /\ s.buf = snd[h].buf
        BY HostType, TimerType
      <3>2. a \in RTX
        BY HostType DEF RTX
      <3>3. sendFIN(h, s) /\ rtx' = [rtx EXCEPT ![h] = a]
        BY <2>1
      <3> HIDE DEF s, a
      <3>4. snd' \in [Hosts -> SND] /\ BufferBound' /\ net' \in [Hosts -> Seq(Segments)]
        BY <1>1, <3>1, <3>3, HostType, SendFINType
      <3>5. rtx' \in [Hosts -> RTX]
        BY <3>2, <3>3, RtxStep
      <3> QED BY <2>1, <3>4, <3>5 DEF IInv, TypeOK
    <2>2. CASE /\ snd' = [snd EXCEPT ![h].timer = FALSE]
               /\ crashed' = IF NilEntry(h) THEN crashed \cup {h} ELSE crashed
               /\ UNCHANGED <<net, rtx>>
      <3>1. snd' \in [Hosts -> SND] /\ BufferBound'
        BY <1>1, <2>2, TimerStopped
      <3> QED BY <2>2, <3>1 DEF IInv, TypeOK
    <2> QED BY <2>1, <2>2 DEF giveUp
  <1> QED BY <1>1, <1>2 DEF IInv, TypeOK, giveUp, accept

\* giveUpReturn preserves the inductive invariant.
LEMMA GiveUpReturnIInv == ASSUME IInv, NEW h \in Hosts, giveUpReturn(h) PROVE IInv'
  <1>1. state' \in [Hosts -> States] /\ crashed' \subseteq Hosts
    BY CloseEndsType DEF giveUpReturn
  <1>2. rtx' \in [Hosts -> RTX]
    BY RtxIdleType, RtxStep DEF giveUpReturn
  <1> QED BY <1>1, <1>2 DEF IInv, TypeOK, BufferBound, giveUpReturn, accept

-----------------------------------------------------------------------------
(* The theorems *)

\* Every step keeps the types and the bounds.
LEMMA NextIInv == ASSUME IInv, [Next]_vars PROVE IInv'
  <1>1. CASE VConnect
    BY <1>1, VConnectIInv
  <1>2. CASE Connecting
    BY <1>2, ConnectingIInv
  <1>3. ASSUME NEW h \in Hosts, Application(h) PROVE IInv'
    BY <1>3, VWriteIInv, VReadIInv, VCloseIInv, SendRSTIInv DEF Application
  <1>4. ASSUME NEW h \in Hosts, VReadReturn(h) \/ VCloseReturn(h) PROVE IInv'
    BY <1>4, VReadReturnIInv, VCloseReturnIInv
  <1>5. ASSUME NEW h \in Hosts, Sending(h) PROVE IInv'
    BY <1>5, VWriteLoopIInv, TrySendDataIInv, StartTimerIInv, TrackPacketIInv DEF Sending
  <1>6. ASSUME NEW h \in Hosts, Probing(h) PROVE IInv'
    BY <1>6, StartProbingIInv, ProbeIInv, ProbingEndsIInv DEF Probing
  <1>7. ASSUME NEW h \in Hosts, Retransmitting(h) PROVE IInv'
    BY <1>7, RetransmitIInv, RelistIInv, NothingIInv, GiveUpIInv, GiveUpReturnIInv
       DEF Retransmitting
  <1>8. ASSUME NEW h \in Hosts, Receiving(h) PROVE IInv'
    BY <1>8, HandlePacketIInv, RcvBufWriteIInv, InOrderIInv DEF Receiving
  <1>9. ASSUME NEW h \in Hosts, TimeWaitExpires(h) \/ Fault(h) PROVE IInv'
    BY <1>9, TimeWaitIInv, FaultIInv
  <1>10. CASE UNCHANGED vars
    BY <1>10 DEF IInv, TypeOK, BufferBound, vars, sockets, threads, accept, history
  <1> QED
    BY <1>1, <1>2, <1>3, <1>4, <1>5, <1>6, <1>7, <1>8, <1>9, <1>10 DEF Next

\* Types and bounds hold in every state.
LEMMA Invariance == Spec => []IInv
  <1>1. Init => IInv
    BY InitIInv
  <1>2. IInv /\ [Next]_vars => IInv'
    BY NextIInv
  <1> QED BY <1>1, <1>2, PTL DEF Spec

\* Every variable keeps its type: sequence numbers and windows stay in their
\* width, buffers hold bytes, goroutines are at one of their program points.
THEOREM TypeCorrect == Spec => []TypeOK
  <1>1. IInv => TypeOK
    BY DEF IInv
  <1> QED BY <1>1, Invariance, PTL

\* Neither ring buffer is ever overfilled, for any buffer size, any window a
\* peer may announce and any number of faults.
THEOREM BuffersBounded == Spec => []BufferBound
  <1>1. IInv => BufferBound
    BY DEF IInv
  <1> QED BY <1>1, Invariance, PTL
=============================================================================
