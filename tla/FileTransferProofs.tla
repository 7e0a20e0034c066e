------------------------- MODULE FileTransferProofs -------------------------
(***************************************************************************)
(* Proof of ClosedAfterAll: VSendFile sends its FIN only when the receiver *)
(* has the whole file, if the file fits into one segment.                  *)
(*                                                                         *)
(* Until then the connection is used in one direction only and for one     *)
(* payload.  The invariant says that this payload is always the whole file *)
(* (Whole), which it is because the window has room for it when it is cut  *)
(* (Windows, Earned); and that it stays in the in-flight list until the    *)
(* receiver has it (Phase), because the only other packets of the list are *)
(* a SYN or a FIN with other numbers (Opened).                             *)
(***************************************************************************)
EXTENDS FileTransfer, TcpConnStream

\* The file is one segment.
OneSegment == FileSize \in 1..MAX_TCP_PAYLOAD

\* A segment fits into the buffers, as 1360 bytes do into 65535.
SegmentFits == MAX_TCP_PAYLOAD <= BUFFER_SIZE

\* The client has not begun to close and has not heard of a close.
Transferring ==
    state[Client] \in {"NONE", "SYN_SENT", "ESTABLISHED"} /\ repl[Client].pc # "close"

Complete == Len(Received(Server)) = FileSize

\* trySendData has not taken the payload out of snd.buf yet.
BeforeData == written[Client] = 0 \/ snd[Client].buf # <<>>

\* The packets that are in the list, or will be when retransmitPacket goes on.
Pending(h) == snd[h].inFlight \cup (IF rtx[h].pc = "relist" THEN {rtx[h].pkt} ELSE {})

\* The server has nothing to send but acknowledgements.
OneWay ==
    /\ written[Server] = 0 /\ iface[Client].pc = "idle"
    /\ repl[Server].pc \in {"idle", "read", "close"}

\* A payload anywhere is the file.
Whole ==
    /\ \A x \in Sent(Client) : x.data = <<>> \/ Len(x.data) = FileSize
    /\ \A x \in rcv[Server].early : Len(x.data) = FileSize
    /\ iface[Server].pc = "write" => Len(iface[Server].rest) = FileSize
    /\ Len(Received(Server)) \in {0, FileSize}

\* What the client has besides payloads: a SYN, and a FIN of the timer's giving up.
Opened ==
    /\ rcv[Client].WND = BUFFER_SIZE
    /\ SeqNum[Client] = snd[Client].ISS \/ state[Client] = "NONE"
    /\ \A x \in Sent(Client) : "FIN" \in x.flags => x.seq = snd[Client].ISS
    /\ \A p \in Pending(Client) : p.data # <<>> \/ p.flags \in {{"SYN"}, {"FIN"}}

NoData ==
    /\ \A x \in Sent(Client) : x.data = <<>>
    /\ rcv[Server].early = {} /\ iface[Server].pc = "idle" /\ Received(Server) = <<>>

\* Until the payload is sent, every window that is announced is the whole buffer.
Windows ==
    BeforeData =>
       /\ NoData
       /\ \A x \in Wire(Client) : x.flags \cap {"ACK", "FIN"} # {} => x.wnd = BUFFER_SIZE
       /\ rcv[Server].WND = BUFFER_SIZE
       /\ \A x \in Sent(Server) : "ACK" \in x.flags => x.wnd = BUFFER_SIZE
       /\ state[Client] # "NONE" => snd[Client].WND = BUFFER_SIZE

\* The numbers the server acknowledges count what it has received, even after
\* a FIN that the client's timer has sent.
Earned ==
    /\ state[Client] = "ESTABLISHED" => snd[Client].UNA \in Acks(Client)
    /\ Connected(Server) => rcv[Server].NXT \in Acks(Client)
    /\ \A x \in Wire(Server) : "ACK" \in x.flags => x.ack \in Acks(Client)

DataInFlight == \E p \in snd[Client].inFlight : p.data # <<>>

\* The way of the file from VWrite through snd.buf and trySendData to the list,
\* where it stays until the receiver has it.
Written == written[Client] = FileSize /\ Client \notin failed /\ repl[Client].data = <<>>
Phase ==
    LET pc == repl[Client].pc
        buf == snd[Client].buf IN
    \/ written[Client] = 0 /\ pc = "idle"
    \/ Written /\ pc = "send" /\ Len(buf) = FileSize
    \/ Written /\ pc \in {"arm", "track"} /\ Len(repl[Client].seg) = FileSize /\ buf = <<>>
    \/ Written /\ pc \in {"send", "idle"} /\ buf = <<>> /\ (Complete \/ DataInFlight)

TInv == Transferring => Whole /\ Opened /\ Windows /\ Earned /\ Phase

\* What VSendFile knows of its VWrites, and after its VClose.
SendFileInv ==
    /\ sf \in {"draining", "closing", "returned"} => written[Client] = FileSize
    /\ sf = "draining" => repl[Client].pc = "idle"
    /\ sf \in {"closing", "returned"} =>
          Complete \/ state[Client] \in {"CLOSE_WAIT", "LAST_ACK", "CLOSED"}

FInv == SInv /\ OneWay /\ (OneSegment => TInv /\ SendFileInv)

-----------------------------------------------------------------------------
(* The steps of the two hosts under the file commands *)

\* The client writes the file in chunks of a buffer and closes once.
ClientStep ==
    \/ VConnect \/ VConnectReturn \/ HandshakeTimeout
    \/ /\ VWrite(Client) /\ Client \notin failed
       /\ written'[Client] = Smaller(written[Client] + BUFFER_SIZE, FileSize)
    \/ VClose(Client) \/ VCloseReturn(Client)
    \/ Connection(Client) \/ sendRST(Client) \/ Fault(Client)

\* The server reads and closes.
ServerStep ==
    \/ VAccept \/ VRead(Server) \/ VReadReturn(Server) \/ VClose(Server) \/ VCloseReturn(Server)
    \/ Connection(Server) \/ sendRST(Server) \/ Fault(Server)

\* A step of sendFile or receiveFile alone, which may be the panic of VClose.
CommandStep ==
    /\ UNCHANGED <<sockets, threads, accept, net, faults, resets, failed, written, delivered>>
    /\ crashed' \subseteq Hosts

\* A step is the client's, the server's, or none of the connection.
LEMMA FileSteps ==
  ASSUME IInv, [FileNext]_fileVars
  PROVE  ClientStep \/ ServerStep \/ CommandStep
  <1>0. Client \in Hosts /\ Server \in Hosts /\ crashed \subseteq Hosts
    BY DEF IInv, TypeOK, Hosts
  <1>u. UNCHANGED vars => CommandStep
    BY <1>0 DEF vars, history, CommandStep
  <1>f. ASSUME NEW h \in Hosts, VCloseFails(h) PROVE CommandStep
    BY <1>0, <1>f DEF VCloseFails, CommandStep
  <1>1. CASE sendFile
    BY <1>1 DEF sendFile, ClientStep
  <1>2. CASE SendingFile
    <2>1. CASE sendFileConnected \/ VSendFileFails \/ VSendFileEOF
      BY <1>u, <2>1 DEF sendFileConnected, VSendFileFails, VSendFileEOF
    <2>2. CASE VSendFile
      BY <2>2 DEF VSendFile, NextChunk, ClientStep
    <2>3. CASE VSendFileClose
      BY <1>0, <1>f, <2>3 DEF VSendFileClose, ClientStep
    <2>4. CASE VSendFileReturn
      BY <2>4 DEF VSendFileReturn, ClientStep
    <2> QED BY <1>2, <2>1, <2>2, <2>3, <2>4 DEF SendingFile
  <1>3. CASE ReceivingFile
    <2>1. CASE receiveFile
      BY <2>1 DEF receiveFile, ServerStep
    <2>2. CASE VReceiveFileCheck \/ VReceiveFileReadFails
      BY <1>u, <2>2 DEF VReceiveFileCheck, VReceiveFileReadFails
    <2>3. CASE VReceiveFileRead \/ VReceiveFileWrite \/ VReceiveFileReturn
      BY <2>3 DEF VReceiveFileRead, VReceiveFileWrite, VReceiveFileReturn, ServerStep
    <2>4. CASE VReceiveFileClose
      BY <1>0, <1>f, <2>4 DEF VReceiveFileClose, ServerStep
    <2> QED BY <1>3, <2>1, <2>2, <2>3, <2>4 DEF ReceivingFile
  <1>4. CASE Handshake
    BY <1>4 DEF Handshake, ClientStep
  <1>5. CASE \E h \in Hosts : Connection(h) \/ sendRST(h) \/ Fault(h)
    BY <1>5 DEF Hosts, ClientStep, ServerStep
  <1>6. CASE UNCHANGED fileVars
    BY <1>u, <1>6 DEF fileVars
  <1> QED BY <1>1, <1>2, <1>3, <1>4, <1>5, <1>6 DEF FileNext

\* They are steps of the connection, with all that is known of those.
LEMMA HostSteps ==
  /\ Client \in Hosts /\ Server \in Hosts /\ Client # Server
  /\ Peer(Client) = Server /\ Peer(Server) = Client
  /\ \A k \in Hosts : k = Client \/ k = Server
  /\ ClientStep => Step(Client)
  /\ ServerStep => Step(Server)
  <1>1. /\ Client \in Hosts /\ Server \in Hosts /\ Client # Server
        /\ \A k \in Hosts : k = Client \/ k = Server
    BY ConstantsAssumption DEF Hosts
  <1> QED BY <1>1 DEF Peer, ClientStep, ServerStep, Step, Connection, Application

\* A step of sendFile or receiveFile alone leaves every invariant as it is.
LEMMA CommandKeeps ==
  ASSUME SInv, CommandStep
  PROVE  /\ SInv'
         /\ \A h \in Hosts : Received(h)' = Received(h) /\ Sent(h)' = Sent(h)
  <1> USE DEF CommandStep, sockets, threads, accept
  <1>1. IInv'
    BY DEF SInv, CInv, HInv, IInv, TypeOK, BufferBound
  <1>2. \A h : /\ Received(h)' = Received(h) /\ Wire(h)' = Wire(h) /\ Listed(h)' = Listed(h)
               /\ Sent(h)' = Sent(h)
    BY DEF Received, Wire, Listed, Sent
  <1>3. \A h : /\ Connected(h)' = Connected(h) /\ AtClose(h)' = AtClose(h)
               /\ BeforeFIN(h)' = BeforeFIN(h) /\ Acks(h)' = Acks(h)
               /\ Partial(h)' = Partial(h) /\ Taken(h)' = Taken(h)
    BY <1>2 DEF Connected, AtClose, BeforeFIN, Acks, Partial, Taken
  <1>4. HInv'
    <2>1. AInv' /\ Agreed'
      BY <1>3 DEF SInv, CInv, HInv, AInv, AcceptOnce, Agreed
    <2>2. SilentInv'
      BY <1>2, <1>3 DEF SInv, CInv, HInv, SilentInv, Silent
    <2>3. SynSound' /\ FinInv'
      BY <1>2, <1>3 DEF SInv, CInv, HInv, SynSound, FinInv
    <2>4. Closing'
      BY <1>3 DEF SInv, CInv, HInv, Closing
    <2> QED BY <1>1, <2>1, <2>2, <2>3, <2>4 DEF HInv
  <1>5. CInv'
    BY <1>2, <1>3, <1>4 DEF SInv, CInv, WritingInv, NxtInv, AcksInv
  <1>6. \A h \in Hosts : Queue(h)'
    BY DEF SInv, Queue, Shape, Unsent
  <1>7. \A h : \A x : InPlace(h, x) => InPlace(h, x)'
    BY DEF InPlace
  <1>8. \A h \in Hosts : InTransit(h)' /\ Arrived(h)'
    BY <1>2, <1>7 DEF SInv, InTransit, Ahead, Arrived
  <1> QED BY <1>2, <1>5, <1>6, <1>8 DEF SInv

-----------------------------------------------------------------------------
(* Where a window comes from *)

\* The states in which the client is Transferring.
Early3 == {"NONE", "SYN_SENT", "ESTABLISHED"}

\* The window of a segment that h sends is its own, or that of a packet it repeats.
Announced(h, x) ==
    \/ x \in Wire(h)
    \/ x.flags \cap {"ACK", "FIN"} = {}
    \/ x.wnd \in {rcv[h].WND, rcv'[h].WND, Free(rcv[h].buf)}
    \/ rtx[h].pc = "idle" /\ \E p \in snd[h].inFlight : x.flags = p.flags /\ x.wnd = p.wnd

\* rcv.WND changes with the buffer, or is taken from a segment of the teardown.
WindowSet(h) ==
    \/ rcv'[h].WND \in {rcv[h].WND, BUFFER_SIZE} \/ rcv[h].buf # <<>>
    \/ /\ state'[h] \notin Early3
       /\ \E x \in Wire(Peer(h)) : x.flags \cap {"ACK", "FIN"} # {} /\ rcv'[h].WND = x.wnd

\* snd.WND is what the peer has announced.
WindowHeard(h) ==
    \/ snd'[h].WND = snd[h].WND \/ (state[h] = "NONE" /\ snd'[h].WND = BUFFER_SIZE)
    \/ \E x \in Wire(Peer(h)) : ("ACK" \in x.flags \/ x.data # <<>>) /\ snd'[h].WND = x.wnd

\* In ESTABLISHED packets leave the list when more than snd.UNA is acknowledged.
ListedUntilAcked(h) ==
    state[h] = "ESTABLISHED" /\ state'[h] = "ESTABLISHED" =>
       \/ snd'[h].inFlight = snd[h].inFlight
       \/ \E x \in Wire(Peer(h)) : "ACK" \in x.flags /\ x.ack > snd[h].UNA

\* The handling of ACKs and the list leave snd.WND alone.
LEMMA OperatorWindows ==
  ASSUME NEW s \in SND
  PROVE  /\ \A p : Tracked(s, p).WND = s.WND
         /\ \A a : cleanUpInFlightPackets(s, a).WND = s.WND
         /\ \A g \in Segments : processACK(s, g).WND = s.WND
         /\ \A g \in Segments : ClosingSND(s, g).WND = s.WND
  <1>1. \A p : Tracked(s, p).WND = s.WND
    BY DEF Tracked, SND
  <1>2. \A t \in SND : \A a : cleanUpInFlightPackets(t, a).WND = t.WND
    BY DEF cleanUpInFlightPackets, SND
  <1>3. ASSUME NEW g \in Segments PROVE processACK(s, g).WND = s.WND
    <2> DEFINE t == [s EXCEPT !.UNA = g.ack]
               c == cleanUpInFlightPackets(t, g.ack)
               u == [c EXCEPT !.timer = c.inFlight # {}, !.retransmissions = 0]
    <2>1. t \in SND /\ g.ack \in Seqs /\ t.WND = s.WND
      BY DEF SND, Segments
    <2> HIDE DEF t
    <2>2. c \in SND /\ c.WND = s.WND
      BY <1>2, <2>1, CleanUpType
    <2> HIDE DEF c
    <2>3. u.WND = s.WND
      BY <2>2 DEF SND
    <2>4. processACK(s, g) = u \/ processACK(s, g) = s
      BY DEF processACK, c, t
    <2> HIDE DEF u
    <2> QED BY <2>3, <2>4
  <1>4. ASSUME NEW g \in Segments PROVE ClosingSND(s, g).WND = s.WND
    <2> DEFINE c == cleanUpInFlightPackets(s, g.ack)
    <2>1. c \in SND /\ c.WND = s.WND
      BY <1>2, CleanUpType DEF Segments
    <2> HIDE DEF c
    <2>2. [c EXCEPT !.timer = FALSE].WND = s.WND
      BY <2>1 DEF SND
    <2> QED BY <2>2 DEF ClosingSND, c
  <1> QED BY <1>1, <1>2, <1>3, <1>4

\* What the handling of an ACK does to the windows and, outside the teardown, to the list.
LEMMA AfterDataWindows ==
  ASSUME IInv, NEW h \in Hosts, NEW s \in SND, NEW r \in RCV, NEW g \in Segments, NEW c \in BOOLEAN,
         AfterData(h, s, r, g, c)
  PROVE  /\ snd'[h].WND = s.WND /\ rcv'[h].WND = (IF c THEN g.wnd ELSE r.WND)
         /\ c \/ snd'[h].inFlight = s.inFlight \/ ("ACK" \in g.flags /\ g.ack > s.UNA)
  <1> DEFINE u == processACK(s, g)
             v == ClosingSND(u, g)
             w == [r EXCEPT !.WND = g.wnd]
  <1>1. snd'[h] = (IF c THEN v ELSE u) /\ rcv'[h] = (IF c THEN w ELSE r)
    BY DEF AfterData, IInv, TypeOK
  <1>2. u \in SND /\ u.WND = s.WND /\ (u = s \/ ("ACK" \in g.flags /\ g.ack > s.UNA))
    BY ProcessACKType, OperatorWindows DEF processACK
  <1> HIDE DEF u
  <1>3. v.WND = u.WND
    BY <1>2, OperatorWindows
  <1>4. w.WND = g.wnd
    BY DEF RCV
  <1> HIDE DEF v, w
  <1> QED BY <1>1, <1>2, <1>3, <1>4

\* A segment is put on the wire, as an answer or not.
LEMMA OneAnnounced ==
  ASSUME IInv, NEW h \in Hosts, NEW g \in Segments, Announced(h, g),
         Send(h, g) \/ (net[h] # <<>> /\ Exchange(h, <<g>>))
  PROVE  \A x \in Wire(h)' : Announced(h, x)
  BY SendWire, ReplyWire DEF Announced

\* Nothing is put on the wire.
LEMMA NoneAnnounced ==
  ASSUME IInv, NEW h \in Hosts, net' = net \/ (net[h] # <<>> /\ Exchange(h, <<>>))
  PROVE  \A x \in Wire(h)' : Announced(h, x)
  <1>1. net' = net => Wire(h)' = Wire(h)
    BY DEF Wire
  <1> QED BY <1>1, TakeWire DEF Announced

\* The handlers, when no payload is being written.
LEMMA ReceivingWindows ==
  ASSUME IInv, NEW h \in Hosts, iface[h].pc = "idle", Receiving(h)
  PROVE  /\ \A x \in Wire(h)' : Announced(h, x)
         /\ WindowSet(h) /\ (h = Client => WindowHeard(h)) /\ ListedUntilAcked(h)
  <1> DEFINE g == Head(net[h])
  <1>0. /\ state \in [Hosts -> States] /\ snd \in [Hosts -> SND] /\ rcv \in [Hosts -> RCV]
        /\ rcv[h].WND \in Wnds /\ Client # Server /\ g = Head(net[h])
    BY Owned, HostType, ConstantsAssumption
  <1>g. Receives(h, g) => /\ g \in Wire(Peer(h)) /\ g \in Segments /\ net[h] # <<>>
                          /\ g.seq \in Seqs /\ g.ack \in Seqs /\ g.wnd \in Wnds
    BY HeadWire DEF Segments
  <1> HIDE DEF g
  <1>1. CASE h = Server /\ handleSYN(g)
    <2> DEFINE r == NewRCV(g.seq, Plus(g.seq, 1))
               f == {"SYN", "ACK"}
    <2>1. PICK isn \in ISNs[h] : Exchange(h, <<Segment(f, isn, r.NXT, r.WND, <<>>)>>)
      BY <1>1 DEF handleSYN
    <2> DEFINE x == Segment(f, isn, r.NXT, r.WND, <<>>)
    <2>2. rcv'[h] = r /\ state[h] = "NONE" /\ net[h] # <<>> /\ Receives(h, g)
      BY <1>0, <1>1 DEF handleSYN, Receives
    <2>3. r.WND = BUFFER_SIZE /\ r.NXT = Plus(g.seq, 1) /\ x.wnd = r.WND
      BY DEF NewRCV, Segment
    <2>4. x \in Segments
      <3>1. isn \in Seqs
        BY ConstantsAssumption DEF Seqs
      <3>2. BUFFER_SIZE \in Wnds
        BY ConstantsAssumption DEF Wnds
      <3>3. Plus(g.seq, 1) \in Seqs
        BY <1>g, <2>2, PlusSeqs
      <3>4. r.WND \in Wnds /\ r.NXT \in Seqs
        BY <2>3, <3>2, <3>3
      <3> HIDE DEF r
      <3> QED BY <3>1, <3>4, NoBytes, SegmentType DEF Flags
    <2> HIDE DEF r, x
    <2>5. Exchange(h, <<x>>)
      BY <2>1 DEF x, r
    <2>6. Announced(h, x)
      BY <2>2, <2>3 DEF Announced
    <2> QED BY <1>0, <1>1, <2>2, <2>3, <2>4, <2>5, <2>6, OneAnnounced DEF WindowSet, ListedUntilAcked
  <1>2. CASE handleSYNACK(h, g)
    <2> DEFINE r == [rcv[h] EXCEPT !.IRS = g.seq, !.NXT = Plus(g.seq, 1)]
               s == [snd[h] EXCEPT !.UNA = g.ack, !.NXT = g.ack, !.WND = g.wnd,
                                   !.timer = FALSE, !.inFlight = {}, !.place = 0]
               x == AckOf(s, r, r.WND, <<>>)
    <2>1. /\ rcv' = [rcv EXCEPT ![h] = r] /\ snd' = [snd EXCEPT ![h] = s]
          /\ Exchange(h, <<x>>) /\ Receives(h, g) /\ state[h] = "SYN_SENT" /\ "ACK" \in g.flags
      BY <1>2 DEF handleSYNACK
    <2>2. Plus(g.seq, 1) \in Seqs
      BY <1>g, <2>1, PlusSeqs
    <2>3. r \in RCV /\ r.WND = rcv[h].WND
      BY <1>0, <1>g, <2>1, <2>2 DEF RCV
    <2>4. s \in SND /\ s.WND = g.wnd
      BY <1>0, <1>g, <2>1 DEF SND
    <2>5. x \in Segments /\ x.wnd = r.WND
      <3> HIDE DEF r, s
      <3> QED BY <1>0, <2>3, <2>4, NoBytes, AckOfType DEF AckOf, Segment
    <2> HIDE DEF r, s, x
    <2>6. rcv'[h] = r /\ snd'[h] = s
      BY <1>0, <2>1
    <2> QED BY <1>g, <2>1, <2>3, <2>4, <2>5, <2>6, OneAnnounced
            DEF Announced, WindowSet, WindowHeard, ListedUntilAcked
  <1>3. CASE handleACK(h, g)
    <2> DEFINE s == cleanUpInFlightPackets(snd[h], g.ack)
    <2>1. s \in SND /\ s.WND = snd[h].WND
      BY <1>0, <1>3, <1>g, CleanUpType, OperatorWindows DEF handleACK
    <2>2. snd'[h] = [s EXCEPT !.timer = s.inFlight # {}]
      BY <1>0, <1>3 DEF handleACK
    <2> HIDE DEF s
    <2>3. snd'[h].WND = snd[h].WND
      BY <2>1, <2>2 DEF SND
    <2> QED BY <1>3, <1>g, <2>3, NoneAnnounced DEF handleACK, WindowSet, WindowHeard, ListedUntilAcked
  <1>4. CASE handleEstablishedPacket(h, g)
    <2> DEFINE s == [snd[h] EXCEPT !.WND = g.wnd]
               e == [seq |-> g.seq, data |-> g.data]
               r == IF g.data = <<>> THEN rcv[h] ELSE [rcv[h] EXCEPT !.early = @ \cup {e}]
               c == state[h] \in FinWait /\ "ACK" \in g.flags
               x == AckOf(s, r, r.WND, <<>>)
    <2>1. /\ AfterData(h, s, r, g, c) /\ Receives(h, g)
          /\ Exchange(h, <<>>) \/ Exchange(h, <<x>>)
          /\ state[h] \in FinWait \/ (state[h] = "ESTABLISHED" /\ ("ACK" \in g.flags \/ g.data # <<>>))
          /\ state[h] \in FinWait => g.data # <<>>
      BY <1>4 DEF handleEstablishedPacket, FinWait
    <2>2. s \in SND /\ s.WND = g.wnd /\ s.inFlight = snd[h].inFlight /\ s.UNA = snd[h].UNA
      BY <1>0, <1>g, <2>1 DEF SND
    <2>3. r \in RCV /\ r.WND = rcv[h].WND
      <3>1. e \in Early
        BY <1>g, <2>1 DEF Early, Segments
      <3> HIDE DEF e
      <3>2. rcv[h].early \cup {e} \in SUBSET Early
        BY <1>0, <3>1 DEF RCV
      <3> QED BY <1>0, <3>2 DEF RCV
    <2>4. c \in BOOLEAN
      OBVIOUS
    <2>5. x \in Segments /\ x.wnd = r.WND
      <3> HIDE DEF r, s
      <3> QED BY <1>0, <2>2, <2>3, NoBytes, AckOfType DEF AckOf, Segment
    <2>6. c => state[h] \in FinWait /\ "ACK" \in g.flags /\ state'[h] = "FIN_WAIT_2"
      BY <1>0, <2>1 DEF FinWait, ClosingState, AfterData
    <2> HIDE DEF s, r, c, x
    <2>7. /\ snd'[h].WND = s.WND /\ rcv'[h].WND = (IF c THEN g.wnd ELSE r.WND)
          /\ c \/ snd'[h].inFlight = s.inFlight \/ ("ACK" \in g.flags /\ g.ack > s.UNA)
      BY <1>g, <2>1, <2>2, <2>3, <2>4, AfterDataWindows
    <2>8. \A y \in Wire(h)' : Announced(h, y)
      BY <1>g, <2>1, <2>3, <2>5, OneAnnounced, NoneAnnounced DEF Announced
    <2>9. WindowSet(h)
      BY <1>g, <2>1, <2>3, <2>6, <2>7 DEF WindowSet, Early3
    <2>10. WindowHeard(h)
      BY <1>g, <2>1, <2>2, <2>7 DEF WindowHeard
    <2>11. ListedUntilAcked(h)
      BY <1>g, <2>1, <2>2, <2>6, <2>7 DEF ListedUntilAcked, FinWait
    <2> QED BY <2>8, <2>9, <2>10, <2>11
  <1>5. CASE handleData(h, g)
    <2>1. snd'[h].WND = g.wnd /\ snd'[h].inFlight = snd[h].inFlight
      BY <1>0, <1>5 DEF handleData, SND
    <2> QED BY <1>5, <1>g, <2>1, NoneAnnounced DEF handleData, WindowSet, WindowHeard, ListedUntilAcked
  <1>6. CASE handleFIN(h, g)
    <2> DEFINE r == [rcv[h] EXCEPT !.NXT = Plus(g.seq, 1), !.WND = g.wnd]
               x == AckOf(snd[h], r, r.WND, <<>>)
    <2>1. /\ rcv' = [rcv EXCEPT ![h] = r] /\ Exchange(h, <<x>>) /\ Receives(h, g) /\ "FIN" \in g.flags
          /\ snd'[h] = cleanUpInFlightPackets(snd[h], g.ack)
      BY <1>0, <1>6 DEF handleFIN
    <2>2. state'[h] \in {"CLOSE_WAIT", "TIME_WAIT"}
      BY <1>0, <1>6 DEF handleFIN
    <2>3. Plus(g.seq, 1) \in Seqs
      BY <1>g, <2>1, PlusSeqs
    <2>4. r \in RCV /\ r.WND = g.wnd
      BY <1>0, <1>g, <2>1, <2>3 DEF RCV
    <2>5. x \in Segments /\ x.wnd = r.WND
      <3> HIDE DEF r
      <3> QED BY <1>0, <1>g, <2>1, <2>4, NoBytes, AckOfType DEF AckOf, Segment
    <2> HIDE DEF r, x
    <2>6. rcv'[h] = r /\ snd'[h].WND = snd[h].WND
      BY <1>0, <2>1, OperatorWindows
    <2> QED BY <1>g, <2>1, <2>2, <2>4, <2>5, <2>6, OneAnnounced
            DEF Announced, WindowSet, WindowHeard, ListedUntilAcked, Early3
  <1>7. CASE handleClosingACK(h, g)
    <2>1. snd'[h].WND = snd[h].WND /\ rcv'[h].WND = g.wnd /\ "ACK" \in g.flags
      BY <1>0, <1>7, <1>g, OperatorWindows DEF handleClosingACK, RCV
    <2>2. state[h] \in FinWait \cup {"TIME_WAIT", "LAST_ACK"} /\ state'[h] = ClosingState(state[h])
      BY <1>0, <1>7 DEF handleClosingACK
    <2>3. state'[h] \notin Early3
      BY <2>2 DEF ClosingState, FinWait, Early3
    <2> QED BY <1>7, <1>g, <2>1, <2>3, NoneAnnounced
            DEF handleClosingACK, WindowSet, WindowHeard, ListedUntilAcked, Early3
  <1>8. CASE handleRST(h, g) \/ ignore(h, g)
    BY <1>8, <1>g, NoneAnnounced
       DEF handleRST, ignore, sockets, WindowSet, WindowHeard, ListedUntilAcked
  <1>9. ~rcvBufWrite(h) /\ ~processInOrderData(h)
    BY DEF rcvBufWrite, processInOrderData
  <1> QED
    BY <1>1, <1>2, <1>3, <1>4, <1>5, <1>6, <1>7, <1>8, <1>9 DEF Receiving, HandlePacket, g

\* A packet of the list with an ACK is an old one, announces the window, or is trySendData's.
ListedWindows(h) ==
    \A p \in Listed(h)' : "ACK" \in p.flags =>
       \/ \E q \in Listed(h) : p.flags = q.flags /\ p.wnd = q.wnd
       \/ p.wnd = rcv'[h].WND \/ repl[h].pc = "track"

WindowStep(h) ==
    /\ \A x \in Wire(h)' : Announced(h, x)
    /\ WindowSet(h) /\ (h = Client => WindowHeard(h)) /\ ListedWindows(h)

\* The list gets no new packet, or one that needs no looking at.
LEMMA ListWindowsKept ==
  ASSUME NEW h, \A p \in snd'[h].inFlight : p \in snd[h].inFlight \/ "ACK" \notin p.flags,
         rtx'[h] = rtx[h] \/ rtx'[h].pkt = rtx[h].pkt \/ rtx'[h] = RtxIdle
  PROVE  ListedWindows(h)
  <1> SUFFICES ASSUME NEW p \in Listed(h)', "ACK" \in p.flags PROVE p \in Listed(h)
    BY DEF ListedWindows
  <1>1. RtxIdle.pkt.flags = {}
    BY DEF RtxIdle, RtxAt, Packet
  <1> QED BY <1>1 DEF Listed

\* The handlers, and the writing of a payload, do not add to the list but in handleSYN.
LEMMA ReceivingListed ==
  ASSUME HInv, NEW h \in Hosts, Step(h), Receiving(h) PROVE ListedWindows(h)
  <1>0. snd \in [Hosts -> SND] /\ rcv \in [Hosts -> RCV] /\ rtx' = rtx
    BY Owned DEF HInv, Receiving, HandlePacket, handleSYN, handleSYNACK, handleACK, handleEstablishedPacket,
       handleData, handleFIN, handleClosingACK, handleRST, ignore, rcvBufWrite, processInOrderData, threads
  <1>1. CASE Kept(snd'[h], snd[h])
    BY <1>0, <1>1, ListWindowsKept DEF Kept
  <1>2. CASE handleSYNACK(h, Head(net[h]))
    <2>1. snd'[h].inFlight = {}
      BY <1>0, <1>2 DEF handleSYNACK, SND
    <2> QED BY <1>0, <2>1, ListWindowsKept
  <1>3. CASE h = Server /\ handleSYN(Head(net[h]))
    <2> DEFINE g == Head(net[h])
               r == NewRCV(g.seq, Plus(g.seq, 1))
               f == {"SYN", "ACK"}
    <2>1. PICK isn \in ISNs[h] :
             snd' = [snd EXCEPT ![h] =
                       [Tracked(NewSND(isn, g.wnd), Packet(f, isn, 0, r.WND, <<>>))
                          EXCEPT !.timer = TRUE]]
      BY <1>3 DEF handleSYN
    <2> DEFINE p == [Packet(f, isn, 0, r.WND, <<>>) EXCEPT !.at = 1]
    <2>2. rcv'[h] = r
      BY <1>0, <1>3 DEF handleSYN
    <2>3. snd'[h].inFlight = {p} /\ p.wnd = r.WND
      BY <1>0, <2>1 DEF Tracked, NewSND, Packet
    <2> HIDE DEF p, r
    <2> QED BY <1>0, <2>2, <2>3 DEF ListedWindows, Listed
  <1> QED BY <1>1, <1>2, <1>3, ReceivingReceives DEF InterfaceStep, Shakes

\* Steps that send nothing and leave RCV alone.
LEMMA SilentWindows ==
  ASSUME IInv, NEW h \in Hosts, net' = net, rcv'[h] = rcv[h], snd'[h].WND = snd[h].WND,
         ListedWindows(h)
  PROVE  WindowStep(h)
  BY NoneAnnounced DEF WindowStep, WindowSet, WindowHeard

\* Steps that send a segment and leave RCV alone.
LEMMA SendingWindows ==
  ASSUME IInv, NEW h \in Hosts, NEW g \in Segments, Send(h, g), Announced(h, g), rcv'[h] = rcv[h],
         snd'[h].WND = snd[h].WND, ListedWindows(h)
  PROVE  WindowStep(h)
  BY OneAnnounced DEF WindowStep, WindowSet, WindowHeard

\* VConnect, and the end of the waiting for it.
LEMMA ConnectingWindows ==
  ASSUME IInv, NEW h \in Hosts, h = Client,
         VConnect \/ VConnectReturn \/ HandshakeTimeout
  PROVE  WindowStep(h)
  <1>0. snd \in [Hosts -> SND] /\ rcv \in [Hosts -> RCV] /\ rtx \in [Hosts -> RTX]
    BY Owned
  <1>1. CASE VConnect
    <2>1. PICK isn \in ISNs[h] : VConnect!3!(isn)
      BY <1>1 DEF VConnect
    <2> DEFINE x == Segment({"SYN"}, isn, 0, BUFFER_SIZE, <<>>)
               p == [Packet({"SYN"}, isn, 0, 0, <<>>) EXCEPT !.at = 1]
    <2>2. Send(h, x) /\ state[h] = "NONE" /\ rtx' = rtx /\ x.flags = {"SYN"} /\ p.flags = {"SYN"}
      BY <1>1, <2>1 DEF VConnect, Segment, Packet
    <2>3. x \in Segments
      <3>1. isn \in Seqs /\ 0 \in Seqs /\ BUFFER_SIZE \in Wnds
        BY ConstantsAssumption DEF Seqs, Wnds
      <3> QED BY <3>1, NoBytes, SegmentType DEF Flags
    <2>4. snd'[h].inFlight = {p} /\ snd'[h].WND = BUFFER_SIZE /\ rcv'[h].WND = BUFFER_SIZE
      BY <1>0, <2>1 DEF Tracked, NewSND, NewRCV
    <2> HIDE DEF x, p
    <2>5. ListedWindows(h)
      BY <2>2, <2>4, ListWindowsKept
    <2> QED BY <2>2, <2>3, <2>4, <2>5, OneAnnounced DEF WindowStep, WindowSet, WindowHeard, Announced
  <1>2. CASE VConnectReturn \/ HandshakeTimeout
    <2>1. snd' = snd /\ rcv' = rcv /\ rtx' = rtx /\ net' = net
      BY <1>2 DEF VConnectReturn, HandshakeTimeout, sockets
    <2> QED BY <2>1, ListWindowsKept, SilentWindows
  <1> QED BY <1>1, <1>2

\* A FIN goes out with rcv.WND.
LEMMA FINWindows ==
  ASSUME IInv, NEW h \in Hosts, NEW s \in SND, s.inFlight = snd[h].inFlight, s.WND = snd[h].WND,
         sendFIN(h, s), rcv' = rcv, rtx'[h] = rtx[h] \/ rtx'[h].pkt = rtx[h].pkt
  PROVE  WindowStep(h)
  <1>0. snd \in [Hosts -> SND] /\ rcv[h] \in RCV /\ SeqNum[h] \in Seqs
    BY Owned, HostType
  <1> DEFINE x == Segment({"FIN"}, SeqNum[h], rcv[h].NXT, rcv[h].WND, <<>>)
             p == Packet({"FIN"}, SeqNum[h], 0, 0, <<>>)
             t == Tracked(s, p)
             u == [t EXCEPT !.timer = @ \/ s.inFlight = {}]
  <1>1. Send(h, x) /\ x.wnd = rcv[h].WND
    BY DEF sendFIN, Segment
  <1>2. x \in Segments
    BY <1>0, NoBytes, SegmentType DEF Flags, RCV
  <1>3. snd'[h] = u
    BY <1>0 DEF sendFIN
  <1>4. u.WND = s.WND
    <2>0. 0 \in Wnds /\ {"FIN"} \in SUBSET Flags
      BY ConstantsAssumption DEF Wnds, Flags
    <2>1. p \in Packets
      BY <1>0, <2>0, NoBytes, PacketType
    <2> HIDE DEF p
    <2>2. t \in SND /\ t.WND = s.WND
      BY <2>1, TrackedType, OperatorWindows
    <2> HIDE DEF t
    <2> QED BY <2>2 DEF SND
  <1>5. ListedWindows(h)
    <2>1. \A q \in snd'[h].inFlight : q \in snd[h].inFlight \/ "ACK" \notin q.flags
      BY FINKeeps
    <2> QED BY <2>1, ListWindowsKept
  <1> HIDE DEF x, u
  <1> QED BY <1>1, <1>2, <1>3, <1>4, <1>5, SendingWindows DEF Announced

\* The application's calls and the timers that are not the RTO timer.
LEMMA ApplicationWindows ==
  ASSUME IInv, NEW h \in Hosts,
         \/ Application(h) \/ VReadReturn(h) \/ VCloseReturn(h) \/ TimeWaitExpires(h) \/ Fault(h)
         \/ VAccept
  PROVE  WindowStep(h)
  <1>0. /\ snd \in [Hosts -> SND] /\ snd[h] \in SND /\ repl \in [Hosts -> REPL] /\ rcv[h] \in RCV
        /\ rcv \in [Hosts -> RCV]
    BY Owned
  <1>1. CASE VWrite(h)
    <2>1. snd'[h].inFlight = snd[h].inFlight /\ snd'[h].WND = snd[h].WND
      BY <1>0, <1>1 DEF VWrite, TryWrite, SND
    <2> QED BY <1>1, <2>1, ListWindowsKept, SilentWindows DEF VWrite
  <1>2. CASE VRead(h) \/ VCloseReturn(h) \/ TimeWaitExpires(h) \/ VAccept
    <2>1. snd' = snd /\ rcv' = rcv /\ rtx' = rtx /\ net' = net
      BY <1>2 DEF VRead, VCloseReturn, TimeWaitExpires, VAccept, sockets, threads
    <2> QED BY <2>1, ListWindowsKept, SilentWindows
  <1>3. CASE VReadReturn(h)
    <2>1. snd' = snd /\ rtx' = rtx /\ net' = net /\ rcv[h].buf # <<>>
      BY <1>3 DEF VReadReturn
    <2> QED BY <2>1, ListWindowsKept, NoneAnnounced DEF WindowStep, WindowSet, WindowHeard
  <1>4. CASE VClose(h)
    BY <1>0, <1>4, FINWindows DEF VClose
  <1>5. CASE sendRST(h)
    <2> DEFINE x == Segment({"RST"}, snd[h].NXT, rcv[h].NXT, 0, <<>>)
    <2>1. Send(h, x) /\ x.flags = {"RST"} /\ snd' = snd /\ rtx' = rtx /\ rcv' = rcv
      BY <1>5 DEF sendRST, Segment, sockets, threads
    <2>2. x \in Segments
      BY <1>0, NoBytes, SegmentType, ConstantsAssumption DEF Flags, SND, RCV, Wnds
    <2> HIDE DEF x
    <2> QED BY <2>1, <2>2, ListWindowsKept, SendingWindows DEF Announced
  <1>6. CASE Fault(h)
    <2>1. snd' = snd /\ rtx' = rtx /\ rcv' = rcv /\ Wire(h)' = Wire(h)
      BY <1>6, FaultWire DEF Fault, sockets, threads
    <2> QED BY <2>1, ListWindowsKept DEF WindowStep, WindowSet, WindowHeard, Announced
  <1> QED BY <1>1, <1>2, <1>3, <1>4, <1>5, <1>6 DEF Application

\* VWrite's loop, trySendData and the zero window probes.
LEMMA TrySendWindows ==
  ASSUME IInv, NEW h \in Hosts, Sending(h) \/ Probing(h) PROVE WindowStep(h)
  <1>0. /\ snd \in [Hosts -> SND] /\ snd[h] \in SND /\ repl \in [Hosts -> REPL] /\ rcv[h] \in RCV
        /\ repl[h].seg \in Bytes /\ snd[h].buf \in Bytes /\ Len(snd[h].buf) \in Nat
    BY Owned, HostType
  <1>a. ASSUME NEW d \in Bytes, Send(h, AckOf(snd[h], rcv[h], Free(rcv[h].buf), d))
        PROVE  \E x \in Segments : Send(h, x) /\ Announced(h, x)
    <2> DEFINE x == AckOf(snd[h], rcv[h], Free(rcv[h].buf), d)
    <2>1. Free(rcv[h].buf) \in Wnds
      BY <1>0, HostType, FreeType
    <2>2. x \in Segments /\ x.wnd = Free(rcv[h].buf)
      BY <1>0, <2>1, AckOfType DEF AckOf, Segment
    <2> HIDE DEF x
    <2>3. Send(h, x)
      BY <1>a DEF x
    <2> QED BY <2>2, <2>3 DEF Announced
  <1>1. CASE VWriteLoop(h) \/ startTimer(h) \/ startProbing(h) \/ probingEnds(h)
    <2>1. snd'[h].inFlight = snd[h].inFlight /\ snd'[h].WND = snd[h].WND
      BY <1>0, <1>1 DEF VWriteLoop, TryWrite, startTimer, startProbing, probingEnds, SND
    <2>2. net' = net /\ rcv' = rcv /\ rtx' = rtx
      BY <1>1 DEF VWriteLoop, startTimer, startProbing, probingEnds
    <2> QED BY <2>1, <2>2, ListWindowsKept, SilentWindows
  <1>2. CASE trySendData(h)
    <2> DEFINE n == Smaller(Smaller(freeWindowSpace(snd[h]), MAX_TCP_PAYLOAD), Len(snd[h].buf))
    <2>1. n \in 0..Len(snd[h].buf)
      BY <1>0, WindowType, ConstantsAssumption DEF Smaller, Wnds
    <2>2. SubSeq(snd[h].buf, 1, n) \in Bytes
      <3> HIDE DEF n
      <3> QED BY <1>0, <2>1, Cut
    <2>3. \E x \in Segments : Send(h, x) /\ Announced(h, x)
      BY <1>2, <1>a, <2>2 DEF trySendData
    <2>4. /\ snd'[h].inFlight = snd[h].inFlight /\ snd'[h].WND = snd[h].WND
      BY <1>0, <1>2 DEF trySendData, SND
    <2> QED BY <1>2, <2>3, <2>4, ListWindowsKept, SendingWindows DEF trySendData
  <1>3. CASE trackPacket(h)
    <2> DEFINE p == Packet({"ACK"}, snd[h].NXT, Len(repl[h].seg), 0, repl[h].seg)
               t == Tracked(snd[h], p)
               nxt == Plus(snd[h].NXT, Len(repl[h].seg))
               u == [t EXCEPT !.NXT = nxt]
    <2>1. snd'[h] = u /\ net' = net /\ rcv' = rcv /\ repl[h].pc = "track"
      BY <1>0, <1>3 DEF trackPacket
    <2>2. u.WND = snd[h].WND
      <3>1. Len(repl[h].seg) \in Nat /\ snd[h].NXT \in Seqs
        BY <1>0 DEF Bytes, SND
      <3>0. 0 \in Wnds /\ {"ACK"} \in SUBSET Flags
        BY ConstantsAssumption DEF Wnds, Flags
      <3>2. p \in Packets
        BY <1>0, <3>0, <3>1, PacketType
      <3> HIDE DEF p, nxt
      <3>3. t \in SND /\ t.WND = snd[h].WND
        BY <1>0, <3>2, TrackedType, OperatorWindows
      <3> HIDE DEF t
      <3> QED BY <3>3 DEF SND
    <2> HIDE DEF u
    <2> QED BY <2>1, <2>2, SilentWindows DEF ListedWindows
  <1>4. CASE sendZeroWindowProbe(h)
    <2>1. \E x \in Segments : Send(h, x) /\ Announced(h, x)
      BY <1>0, <1>4, <1>a DEF sendZeroWindowProbe
    <2>2. snd' = snd /\ rcv' = rcv /\ rtx' = rtx
      BY <1>4 DEF sendZeroWindowProbe, sockets
    <2> QED BY <2>1, <2>2, ListWindowsKept, SendingWindows
  <1> QED BY <1>1, <1>2, <1>3, <1>4 DEF Sending, Probing

\* retransmitPacket repeats a packet of the list; giveUp sends a FIN.
LEMMA RetransmittingWindows ==
  ASSUME IInv, NEW h \in Hosts, Retransmitting(h) PROVE WindowStep(h)
  <1>0. /\ snd \in [Hosts -> SND] /\ rtx \in [Hosts -> RTX] /\ snd[h] \in SND /\ rtx[h].pkt \in Packets
        /\ rcv[h] \in RCV
    BY Owned, HostType
  <1> DEFINE s == [snd[h] EXCEPT !.timer = FALSE]
  <1>s. s \in SND /\ s.inFlight = snd[h].inFlight /\ s.WND = snd[h].WND
    BY <1>0 DEF SND
  <1>1. CASE retransmitPacket(h)
    <2>1. PICK p \in FirstUnacked(snd[h]) :
             /\ Send(h, Segment(p.flags, p.seq, rcv[h].NXT, p.wnd, p.data))
             /\ rtx' = [rtx EXCEPT ![h] = RtxAt("relist", p)]
      BY <1>1 DEF retransmitPacket
    <2> DEFINE x == Segment(p.flags, p.seq, rcv[h].NXT, p.wnd, p.data)
    <2>2. p \in snd[h].inFlight /\ p \in Packets
      BY <1>0 DEF FirstUnacked, SND
    <2>3. x \in Segments /\ x.flags = p.flags /\ x.wnd = p.wnd
      <3>1. rcv[h].NXT \in Seqs
        BY <1>0 DEF RCV
      <3> QED BY <2>2, <3>1, SegmentType DEF Packets, Segment
    <2>4. rtx[h].pc = "idle" /\ rcv' = rcv
      BY <1>1 DEF retransmitPacket, Expired
    <2>5. Announced(h, x)
      BY <2>2, <2>3, <2>4 DEF Announced
    <2>6. snd'[h] = s /\ rtx'[h].pkt = p
      BY <1>0, <1>1, <2>1 DEF retransmitPacket, RtxAt
    <2>7. ListedWindows(h)
      BY <1>s, <2>2, <2>6 DEF ListedWindows, Listed
    <2>8. Send(h, x)
      BY <2>1
    <2> HIDE DEF x, s
    <2> QED BY <1>s, <2>3, <2>4, <2>5, <2>6, <2>7, <2>8, SendingWindows
  <1>2. CASE relistPacket(h)
    <2> DEFINE others == {q \in snd[h].inFlight : q.seq # rtx[h].pkt.seq}
               v == [snd[h] EXCEPT !.inFlight = others, !.place = IF others = {} THEN 0 ELSE @]
               p == [rtx[h].pkt EXCEPT !.len = 0]
               q == [p EXCEPT !.at = v.place + 1]
               t == Tracked(v, p)
               u == [t EXCEPT !.retransmissions = @ + 1, !.timer = TRUE]
    <2>1. snd'[h] = u /\ rtx'[h] = RtxIdle /\ net' = net /\ rcv' = rcv
      BY <1>0, <1>2 DEF relistPacket
    <2>2. q.flags = rtx[h].pkt.flags /\ q.wnd = rtx[h].pkt.wnd /\ rtx[h].pkt \in Listed(h)
      BY <1>0 DEF Packets, Listed
    <2>3. others \subseteq snd[h].inFlight
      OBVIOUS
    <2> HIDE DEF others
    <2>4. v.inFlight = others /\ v.WND = snd[h].WND /\ DOMAIN v = DOMAIN snd[h]
      BY <1>0 DEF SND
    <2> HIDE DEF v, p
    <2>5. t.inFlight = v.inFlight \cup {q} /\ t.WND = v.WND /\ DOMAIN t = DOMAIN v
      BY <1>0, <2>4 DEF Tracked, SND
    <2> HIDE DEF t
    <2>6. u.inFlight = t.inFlight /\ u.WND = t.WND
      BY <1>0, <2>4, <2>5 DEF SND
    <2> HIDE DEF u, q
    <2>7. RtxIdle.pkt.flags = {}
      BY DEF RtxIdle, RtxAt, Packet
    <2>8. ListedWindows(h)
      BY <2>1, <2>2, <2>3, <2>4, <2>5, <2>6, <2>7 DEF ListedWindows, Listed
    <2> QED BY <2>1, <2>4, <2>5, <2>6, <2>8, SilentWindows
  <1>3. CASE nothingToRetransmit(h)
    <2>1. snd'[h] = s /\ rtx' = rtx /\ net' = net /\ rcv' = rcv
      BY <1>0, <1>3 DEF nothingToRetransmit, threads
    <2> HIDE DEF s
    <2> QED BY <1>s, <2>1, ListWindowsKept, SilentWindows
  <1>4. CASE giveUp(h)
    <2>1. CASE sendFIN(h, s) /\ rtx' = [rtx EXCEPT ![h].pc = "close"]
      <3>1. rtx'[h].pkt = rtx[h].pkt /\ rcv' = rcv
        BY <1>0, <1>4, <2>1 DEF giveUp, RTX
      <3> HIDE DEF s
      <3> QED BY <1>s, <2>1, <3>1, FINWindows
    <2>2. CASE snd' = [snd EXCEPT ![h].timer = FALSE] /\ net' = net /\ rtx' = rtx
      <3>1. snd'[h] = s /\ rcv' = rcv
        BY <1>0, <1>4, <2>2 DEF giveUp
      <3> HIDE DEF s
      <3> QED BY <1>s, <2>2, <3>1, ListWindowsKept, SilentWindows
    <2> QED BY <1>4, <2>1, <2>2 DEF giveUp
  <1>5. CASE giveUpReturn(h)
    <2>1. snd' = snd /\ rcv' = rcv /\ net' = net /\ rtx'[h] = RtxIdle
      BY <1>0, <1>5 DEF giveUpReturn
    <2> QED BY <2>1, ListWindowsKept, SilentWindows
  <1> QED BY <1>1, <1>2, <1>3, <1>4, <1>5 DEF Retransmitting

\* The windows of a step of h, unless a payload is being written.
LEMMA StepWindows ==
  ASSUME HInv, NEW h \in Hosts, Step(h), iface[h].pc = "idle" PROVE WindowStep(h)
  <1>1. IInv
    BY DEF HInv
  <1>2. CASE Receiving(h)
    BY <1>1, <1>2, ReceivingWindows, ReceivingListed DEF WindowStep
  <1> QED BY <1>1, <1>2, ConnectingWindows, ApplicationWindows, TrySendWindows, RetransmittingWindows
          DEF Step

-----------------------------------------------------------------------------
(* What the invariants say of a connection used in one direction *)

\* The server writes nothing, so there is no payload on the way to the client.
LEMMA OneWayFacts ==
  ASSUME SInv, OneWay
  PROVE  (\A x \in Sent(Server) : x.data = <<>>) /\ Received(Client) = <<>> /\ rcv[Client].buf = <<>>
  <1>0. Client \in Hosts /\ Server \in Hosts /\ Peer(Server) = Client /\ IInv
    BY HostSteps DEF SInv, CInv, HInv
  <1>1. ASSUME NEW x \in Sent(Server) PROVE x.data = <<>>
    <2>1. x.data \in Bytes
      BY <1>0, TransitType
    <2>2. x.data # <<>> => InPlace(Server, x)
      BY <1>0 DEF SInv, InTransit
    <2>3. x.data # <<>> => Len(x.data) = 0
      BY <2>1, <2>2, BytesType DEF InPlace, OneWay
    <2> QED BY <2>1, <2>3, BytesType
  <1>2. Len(Received(Client)) <= 0
    BY <1>0 DEF SInv, Arrived, OneWay
  <1>3. /\ delivered[Client] \in Bytes /\ rcv[Client].buf \in Bytes
        /\ Len(Received(Client)) = Len(delivered[Client]) + Len(rcv[Client].buf)
    BY <1>0, Owned, HostType, Join DEF Received
  <1>4. Received(Client) \in Bytes
    BY <1>3, <1>0, Join DEF Received
  <1>5. Len(delivered[Client]) \in Nat /\ Len(rcv[Client].buf) \in Nat
    BY <1>3, BytesType
  <1>6. Len(Received(Client)) = 0 /\ Len(rcv[Client].buf) = 0
    <2> DEFINE n == Len(Received(Client))
               d == Len(delivered[Client])
               b == Len(rcv[Client].buf)
    <2>1. n = d + b /\ d \in Nat /\ b \in Nat /\ n <= 0
      BY <1>2, <1>3, <1>5
    <2> HIDE DEF n, d, b
    <2>2. n = 0 /\ b = 0
      BY <2>1
    <2> QED BY <2>2 DEF n, b
  <1> QED BY <1>1, <1>3, <1>4, <1>6, BytesType

\* The numbers of a file that is one segment.
LEMMA FileNumbers ==
  ASSUME NoWrap, OneSegment, SInv
  PROVE  /\ FileSize \in Nat /\ FileSize >= 1 /\ MaxBytes[Client] = FileSize
         /\ written[Client] \in 0..FileSize /\ snd[Client].ISS \in Seqs
         /\ Plus(snd[Client].ISS, 1) \in Seqs /\ Plus(snd[Client].ISS, 1) # snd[Client].ISS
         /\ Plus(snd[Client].ISS, 1) \in Acks(Client)
         /\ Received(Server) \in Bytes /\ Len(Received(Server)) \in 0..written[Client]
         /\ Received(Server) = <<>> => Acks(Client) = {Plus(snd[Client].ISS, 1)}
  <1>0. Client \in Hosts /\ Server \in Hosts /\ Peer(Client) = Server /\ IInv
    BY HostSteps DEF SInv, CInv, HInv
  <1>1. FileSize \in Nat /\ FileSize >= 1 /\ MaxBytes[Client] = FileSize
    BY ConstantsAssumption DEF OneSegment, FileSize
  <1>2. written[Client] \in 0..FileSize
    BY <1>0, <1>1, SenderType DEF Shape
  <1>3. snd[Client].ISS \in Seqs /\ Plus(snd[Client].ISS, 1) \in Seqs
    BY <1>0, SenderType, PlusSeqs
  <1>4. Plus(snd[Client].ISS, 1) # snd[Client].ISS
    <2>1. 1 \in Seqs /\ 0 \in Seqs
      <3>1. SeqMod \in Nat /\ MaxBytes[Client] + 1 < SeqMod
        BY <1>0, SeqsType DEF NoWrap
      <3> QED BY <1>1, <3>1 DEF Seqs
    <2>2. Plus(snd[Client].ISS, 0) = snd[Client].ISS
      <3>1. SeqMod \in Nat /\ snd[Client].ISS \in Int
        BY <1>3, SeqsType
      <3>2. snd[Client].ISS + 0 = 0 * SeqMod + snd[Client].ISS
        BY <3>1
      <3>3. 0 \in Nat /\ 0 \in Int
        OBVIOUS
      <3>4. \A a \in Seqs : \A n \in Nat : \A k \in Int : \A r \in Seqs :
               a + n = k * SeqMod + r => Plus(a, n) = r
        BY PlusUnique
      <3> QED BY <1>3, <3>2, <3>3, <3>4
    <2> QED BY <1>3, <2>1, <2>2, PlusInjective
  <1>5. Received(Server) \in Bytes /\ Len(Received(Server)) \in Nat
    BY <1>0, Owned, HostType, Join, BytesType DEF Received
  <1>6. Len(Received(Server)) \in 0..written[Client]
    BY <1>0, <1>2, <1>5 DEF SInv, Arrived
  <1>7. Plus(snd[Client].ISS, 1) \in Acks(Client)
    BY <1>0, <1>5 DEF Acks
  <1>8. Received(Server) = <<>> => Acks(Client) = {Plus(snd[Client].ISS, 1)}
    BY <1>0, BytesType DEF Acks
  <1> QED BY <1>1, <1>2, <1>3, <1>4, <1>5, <1>6, <1>7, <1>8

\* A payload of the whole file has the first number of the stream.
LEMMA WholeSeq ==
  ASSUME NoWrap, OneSegment, SInv, NEW x \in Sent(Client), Len(x.data) = FileSize
  PROVE  x.seq = Plus(snd[Client].ISS, 1)
  <1>0. Client \in Hosts /\ x.data # <<>>
    BY FileNumbers, HostSteps, BytesType
  <1>1. InPlace(Client, x)
    BY <1>0 DEF SInv, InTransit
  <1>2. PICK d \in 0..written[Client] : x.seq = Plus(snd[Client].ISS, 1 + d) /\ d + FileSize <= written[Client]
    BY <1>1 DEF InPlace
  <1>3. d = 0
    BY <1>2, FileNumbers
  <1> QED BY <1>2, <1>3

\* While it transfers, the client that has written or is at work is ESTABLISHED.
LEMMA AtWorkEstablished ==
  ASSUME SInv, Transferring, written[Client] > 0 \/ repl[Client].pc # "idle"
  PROVE  state[Client] = "ESTABLISHED"
  <1>1. HInv /\ Client \in Hosts
    BY HostSteps DEF SInv, CInv
  <1>2. Connected(Client)
    BY <1>1, AtWork DEF HInv, SilentInv, Silent
  <1> QED BY <1>1, <1>2 DEF HInv, Agreed, Transferring

\* Unless its timer is giving up, a client that transfers has sent no FIN.
LEMMA TransferringNoFIN ==
  ASSUME SInv, Transferring, rtx[Client].pc # "close"
  PROVE  \A x \in Sent(Client) : "FIN" \notin x.flags
  BY HostSteps DEF SInv, CInv, HInv, FinInv, BeforeFIN, AtClose, Transferring, Young, Open

\* Transferring ends for good.
LEMMA TransferringBack ==
  ASSUME SInv, ClientStep \/ ServerStep \/ CommandStep, Transferring'
  PROVE  Transferring
  <1>0. HInv /\ Client \in Hosts /\ state[Client] # "SYN_RECEIVED" /\ state[Client] \in States
    BY HostSteps DEF SInv, CInv, HInv, AInv, IInv, TypeOK
  <1>1. CASE CommandStep
    BY <1>1 DEF CommandStep, sockets, threads, Transferring
  <1>2. CASE ServerStep
    BY <1>0, <1>2, HostSteps, StepFacts DEF PeerSame, Transferring
  <1>3. CASE ClientStep
    <2>1. Follows(state[Client], state'[Client]) /\ WorkAllowed(Client)
      BY <1>0, <1>3, HostSteps, StepFacts DEF Local
    <2>2. state[Client] \in {"NONE", "SYN_SENT", "ESTABLISHED"}
      BY <1>0, <2>1 DEF Follows, Transferring
    <2>3. repl[Client].pc = "close" => state[Client] = "ESTABLISHED"
      BY <1>0, <2>2 DEF HInv, Closing, AtClose, Young
    <2>4. repl[Client].pc = "close" => state'[Client] = "FIN_WAIT_1"
      BY <2>1, <2>3 DEF WorkAllowed, CloseState, Transferring
    <2> QED BY <2>2, <2>4 DEF Transferring
  <1> QED BY <1>1, <1>2, <1>3

-----------------------------------------------------------------------------
(* The steps that matter to the client's numbers and to its packets *)

\* Only VConnect gives the client its number, and it leaves NONE by nothing else.
LEMMA ClientOpens ==
  ASSUME HInv, NEW h \in Hosts, Step(h)
  PROVE  \/ SeqNum'[Client] = SeqNum[Client] /\ (state[Client] = "NONE" => state'[Client] = "NONE")
         \/ h = Client /\ VConnect
  <1>0. /\ IInv /\ state[Client] # "SYN_RECEIVED" /\ SeqNum \in [Hosts -> Seqs]
        /\ state \in [Hosts -> States]
    BY DEF HInv, AInv, IInv, TypeOK
  <1> DEFINE Q == SeqNum'[Client] = SeqNum[Client] /\ (state[Client] = "NONE" => state'[Client] = "NONE")
             g == Head(net[h])
  <1>1. CASE VConnectReturn \/ HandshakeTimeout \/ VAccept
    BY <1>0, <1>1, HostSteps DEF VConnectReturn, HandshakeTimeout, VAccept, sockets
  <1>2. CASE Application(h) \/ VReadReturn(h) \/ VCloseReturn(h) \/ TimeWaitExpires(h) \/ Fault(h)
    BY <1>0, <1>2, HostSteps DEF Application, VWrite, VRead, VClose, sendRST, VReadReturn, VCloseReturn, closeEnds,
       CloseState, TimeWaitExpires, Fault, sockets
  <1>3. CASE Sending(h) \/ Probing(h)
    BY <1>3 DEF Sending, Probing, VWriteLoop, trySendData, startTimer, trackPacket, startProbing,
       sendZeroWindowProbe, probingEnds, sockets
  <1>4. CASE Retransmitting(h)
    <2>1. CASE giveUpReturn(h)
      <3>1. SeqNum' = SeqNum /\ state' = [state EXCEPT ![h] = CloseState(@)]
        BY <2>1 DEF giveUpReturn, closeEnds
      <3> QED BY <1>0, <3>1, HostSteps DEF CloseState
    <2>2. CASE ~giveUpReturn(h)
      BY <1>4, <2>2 DEF Retransmitting, retransmitPacket, relistPacket, nothingToRetransmit, giveUp
    <2> QED BY <2>1, <2>2
  <1>5. CASE Receiving(h)
    <2>1. CASE h = Server /\ handleSYN(g)
      BY <1>0, <2>1, HostSteps DEF handleSYN
    <2>2. CASE handleSYNACK(h, g) \/ handleACK(h, g)
      BY <1>0, <2>2, HostSteps DEF handleSYNACK, handleACK
    <2>3. CASE handleFIN(h, g) \/ handleClosingACK(h, g) \/ handleRST(h, g) \/ ignore(h, g)
      BY <1>0, <2>3, HostSteps DEF handleFIN, handleClosingACK, ClosingState, FinWait, handleRST, ignore, sockets
    <2>4. CASE handleEstablishedPacket(h, g) \/ handleData(h, g)
      BY <1>0, <2>4, HostSteps DEF handleEstablishedPacket, handleData, AfterData, ClosingState, FinWait
    <2>5. CASE rcvBufWrite(h) \/ processInOrderData(h)
      BY <1>0, <2>5, HostSteps DEF rcvBufWrite, processInOrderData, AfterData, ClosingState
    <2> QED BY <1>5, <2>1, <2>2, <2>3, <2>4, <2>5 DEF Receiving, HandlePacket
  <1> QED BY <1>1, <1>2, <1>3, <1>4, <1>5 DEF Step

\* A packet that is in the list, or comes back to it, has been there; or it is a
\* SYN, a FIN, or the payload that trySendData has sent.
PendingStep(h) ==
    \A p \in Pending(h)' :
       \/ \E q \in Pending(h) : q.flags = p.flags /\ q.data = p.data
       \/ p.flags \in {{"SYN"}, {"FIN"}}
       \/ repl[h].pc = "track" /\ p.data = repl[h].seg

\* The list gets no new packet but a SYN, a FIN or the payload.
LEMMA PendingKept ==
  ASSUME NEW h, rtx'[h] = rtx[h] \/ rtx'[h].pc # "relist",
         \A p \in snd'[h].inFlight : \/ p \in snd[h].inFlight \/ p.flags \in {{"SYN"}, {"FIN"}}
                                     \/ repl[h].pc = "track" /\ p.data = repl[h].seg
  PROVE  PendingStep(h)
  BY DEF PendingStep, Pending

\* retransmitPacket works on a packet of the list, and puts a copy back.
LEMMA RetransmittingPending ==
  ASSUME IInv, NEW h \in Hosts, Retransmitting(h) PROVE PendingStep(h)
  <1>0. /\ snd \in [Hosts -> SND] /\ rtx \in [Hosts -> RTX] /\ snd[h] \in SND /\ rtx[h].pkt \in Packets
    BY Owned, HostType
  <1> DEFINE s == [snd[h] EXCEPT !.timer = FALSE]
  <1>s. s \in SND /\ s.inFlight = snd[h].inFlight
    BY <1>0 DEF SND
  <1>r. RtxIdle.pc = "idle" /\ \A p : RtxAt("relist", p).pkt = p
    BY DEF RtxIdle, RtxAt
  <1>1. CASE retransmitPacket(h)
    <2>1. PICK p \in FirstUnacked(snd[h]) : rtx' = [rtx EXCEPT ![h] = RtxAt("relist", p)]
      BY <1>1 DEF retransmitPacket
    <2>2. p \in snd[h].inFlight /\ rtx'[h].pkt = p /\ snd'[h] = s
      BY <1>0, <1>1, <1>r, <2>1 DEF FirstUnacked, retransmitPacket
    <2> HIDE DEF s
    <2> QED BY <1>s, <2>2 DEF PendingStep, Pending
  <1>2. CASE relistPacket(h)
    <2> DEFINE others == {q \in snd[h].inFlight : q.seq # rtx[h].pkt.seq}
               v == [snd[h] EXCEPT !.inFlight = others, !.place = IF others = {} THEN 0 ELSE @]
               p == [rtx[h].pkt EXCEPT !.len = 0]
               q == [p EXCEPT !.at = v.place + 1]
               t == Tracked(v, p)
               u == [t EXCEPT !.retransmissions = @ + 1, !.timer = TRUE]
    <2>1. snd'[h] = u /\ rtx'[h] = RtxIdle /\ rtx[h].pc = "relist"
      BY <1>0, <1>2 DEF relistPacket
    <2>2. q.flags = rtx[h].pkt.flags /\ q.data = rtx[h].pkt.data /\ rtx[h].pkt \in Pending(h)
      BY <1>0, <2>1 DEF Packets, Pending
    <2>3. others \subseteq snd[h].inFlight
      OBVIOUS
    <2> HIDE DEF others
    <2>4. v.inFlight = others /\ DOMAIN v = DOMAIN snd[h]
      BY <1>0 DEF SND
    <2> HIDE DEF v, p
    <2>5. t.inFlight = v.inFlight \cup {q} /\ DOMAIN t = DOMAIN v
      BY <1>0, <2>4 DEF Tracked, SND
    <2> HIDE DEF t
    <2>6. u.inFlight = t.inFlight
      BY <1>0, <2>4, <2>5 DEF SND
    <2> HIDE DEF u, q
    <2> QED BY <1>r, <2>1, <2>2, <2>3, <2>4, <2>5, <2>6 DEF PendingStep, Pending
  <1>3. CASE nothingToRetransmit(h)
    <2>1. snd'[h] = s /\ rtx' = rtx
      BY <1>0, <1>3 DEF nothingToRetransmit, threads
    <2> HIDE DEF s
    <2> QED BY <1>s, <2>1, PendingKept
  <1>4. CASE giveUp(h)
    <2>1. CASE sendFIN(h, s) /\ rtx' = [rtx EXCEPT ![h].pc = "close"]
      <3>1. rtx'[h].pc = "close"
        BY <1>0, <1>4, <2>1 DEF giveUp, RTX
      <3> HIDE DEF s
      <3>2. \A p \in snd'[h].inFlight : p \in s.inFlight \/ p.flags = {"FIN"}
        BY <1>s, <2>1, FINKeeps
      <3> QED BY <1>s, <3>1, <3>2, PendingKept
    <2>2. CASE snd' = [snd EXCEPT ![h].timer = FALSE] /\ rtx' = rtx
      <3>1. snd'[h] = s
        BY <1>0, <2>2
      <3> HIDE DEF s
      <3> QED BY <1>s, <2>2, <3>1, PendingKept
    <2> QED BY <1>4, <2>1, <2>2 DEF giveUp
  <1>5. CASE giveUpReturn(h)
    <2>1. snd' = snd /\ rtx'[h] = RtxIdle
      BY <1>0, <1>5 DEF giveUpReturn
    <2> QED BY <1>r, <2>1, PendingKept
  <1> QED BY <1>1, <1>2, <1>3, <1>4, <1>5 DEF Retransmitting

\* The packets of the client after a step of it.
LEMMA ClientPending ==
  ASSUME HInv, Step(Client) PROVE PendingStep(Client)
  <1> DEFINE h == Client
  <1>0. /\ h \in Hosts /\ IInv /\ snd \in [Hosts -> SND] /\ snd[h] \in SND /\ repl[h] \in REPL
        /\ h # Server
    BY HostSteps, Owned, HostType DEF HInv
  <1>1. CASE VConnect
    <2>1. PICK isn \in ISNs[h] : VConnect!3!(isn)
      BY <1>1 DEF VConnect
    <2> DEFINE p == [Packet({"SYN"}, isn, 0, 0, <<>>) EXCEPT !.at = 1]
    <2>2. p.flags = {"SYN"} /\ rtx' = rtx
      BY <1>1 DEF Packet, VConnect
    <2>3. snd'[h].inFlight = {p}
      BY <1>0, <2>1 DEF Tracked, NewSND
    <2> HIDE DEF p
    <2> QED BY <2>2, <2>3, PendingKept
  <1>2. CASE VConnectReturn \/ HandshakeTimeout \/ VRead(h) \/ sendRST(h) \/ VReadReturn(h)
             \/ VCloseReturn(h) \/ TimeWaitExpires(h) \/ Fault(h)
    <2>1. snd' = snd /\ rtx' = rtx
      BY <1>2 DEF VConnectReturn, HandshakeTimeout, VRead, sendRST, VReadReturn, VCloseReturn,
         TimeWaitExpires, Fault, sockets, threads
    <2> QED BY <2>1, PendingKept
  <1>3. CASE VWrite(h) \/ VWriteLoop(h) \/ trySendData(h) \/ startTimer(h) \/ startProbing(h)
             \/ sendZeroWindowProbe(h) \/ probingEnds(h)
    <2>a. ASSUME NEW d, TryWrite(h, d) PROVE snd'[h].inFlight = snd[h].inFlight
      BY <1>0, <2>a DEF TryWrite, SND
    <2>1. snd'[h].inFlight = snd[h].inFlight
      <3>1. CASE VWrite(h) \/ VWriteLoop(h)
        BY <2>a, <3>1 DEF VWrite, VWriteLoop
      <3>2. CASE trySendData(h) \/ startTimer(h) \/ startProbing(h) \/ sendZeroWindowProbe(h) \/ probingEnds(h)
        BY <1>0, <3>2 DEF trySendData, startTimer, startProbing, sendZeroWindowProbe, probingEnds, sockets, SND
      <3> QED BY <1>3, <3>1, <3>2
    <2>2. rtx' = rtx
      BY <1>3 DEF VWrite, VWriteLoop, trySendData, startTimer, startProbing, sendZeroWindowProbe, probingEnds
    <2> QED BY <2>1, <2>2, PendingKept
  <1>4. CASE VClose(h)
    <2>1. \A p \in snd'[h].inFlight : p \in snd[h].inFlight \/ p.flags = {"FIN"}
      BY <1>0, <1>4, FINKeeps DEF VClose
    <2>2. rtx' = rtx
      BY <1>4 DEF VClose
    <2> QED BY <2>1, <2>2, PendingKept
  <1>5. CASE trackPacket(h)
    <2> DEFINE p == Packet({"ACK"}, snd[h].NXT, Len(repl[h].seg), 0, repl[h].seg)
               q == [p EXCEPT !.at = snd[h].place + 1]
               t == Tracked(snd[h], p)
               nxt == Plus(snd[h].NXT, Len(repl[h].seg))
               u == [t EXCEPT !.NXT = nxt]
    <2>1. snd'[h] = u /\ rtx' = rtx /\ repl[h].pc = "track"
      BY <1>0, <1>5 DEF trackPacket
    <2>2. q.data = repl[h].seg
      BY DEF Packet
    <2> HIDE DEF p, nxt
    <2>3. t.inFlight = snd[h].inFlight \cup {q} /\ DOMAIN t = DOMAIN snd[h]
      BY <1>0 DEF Tracked, SND
    <2> HIDE DEF t, q
    <2>4. u.inFlight = t.inFlight
      BY <1>0, <2>3 DEF SND
    <2> HIDE DEF u
    <2> QED BY <2>1, <2>2, <2>3, <2>4, PendingKept
  <1>6. CASE Retransmitting(h)
    BY <1>0, <1>6, RetransmittingPending
  <1>7. CASE Receiving(h)
    <2>1. rtx' = rtx
      BY <1>7 DEF Receiving, HandlePacket, handleSYN, handleSYNACK, handleACK, handleEstablishedPacket,
         handleData, handleFIN, handleClosingACK, handleRST, ignore, rcvBufWrite, processInOrderData, threads
    <2>2. CASE Kept(snd'[h], snd[h])
      BY <2>1, <2>2, PendingKept DEF Kept
    <2>3. CASE handleSYNACK(h, Head(net[h]))
      <3>1. snd'[h].inFlight = {}
        BY <1>0, <2>3 DEF handleSYNACK, SND
      <3> QED BY <2>1, <3>1, PendingKept
    <2> QED BY <1>0, <1>7, <2>2, <2>3, ReceivingReceives DEF InterfaceStep, Shakes
  <1> QED BY <1>0, <1>1, <1>2, <1>3, <1>4, <1>5, <1>6, <1>7 DEF Step, Application, Sending, Probing

-----------------------------------------------------------------------------
(* The connection stays in use in one direction *)

\* The server never writes: receiveFile has no VWrite.
LEMMA ServerQuiet ==
  ASSUME IInv, OneWay, ServerStep
  PROVE  written' = written /\ repl'[Server].pc \in {"idle", "read", "close"}
  <1> DEFINE h == Server
  <1>0. repl \in [Hosts -> REPL] /\ h \in Hosts /\ repl[h] \in REPL /\ Idle.pc = "idle"
    BY HostSteps, Owned, HostType DEF Idle
  <1>1. CASE VAccept \/ sendRST(h) \/ Fault(h) \/ TimeWaitExpires(h)
    BY <1>1 DEF VAccept, sendRST, Fault, TimeWaitExpires, threads, history, OneWay
  <1>2. CASE VRead(h) \/ VReadReturn(h) \/ VCloseReturn(h)
    BY <1>0, <1>2 DEF VRead, VReadReturn, VCloseReturn, history, OneWay, REPL
  <1>3. CASE VClose(h)
    BY <1>0, <1>3 DEF VClose, history, REPL
  <1>4. ~Sending(h) /\ ~Probing(h)
    BY DEF OneWay, Sending, Probing, VWriteLoop, trySendData, startTimer, trackPacket, startProbing,
       sendZeroWindowProbe, probingEnds
  <1>5. CASE Retransmitting(h)
    BY <1>5 DEF Retransmitting, retransmitPacket, relistPacket, nothingToRetransmit, giveUp,
       giveUpReturn, history, threads, OneWay
  <1>6. CASE Receiving(h)
    BY <1>6 DEF Receiving, HandlePacket, handleSYN, handleSYNACK, handleACK, handleEstablishedPacket,
       handleData, handleFIN, handleClosingACK, handleRST, ignore, rcvBufWrite, processInOrderData,
       threads, history, OneWay
  <1> QED BY <1>1, <1>2, <1>3, <1>4, <1>5, <1>6 DEF ServerStep, Connection

\* Nothing comes to the client but acknowledgements.
LEMMA StepOneWay ==
  ASSUME SInv, OneWay, ClientStep \/ ServerStep \/ CommandStep PROVE OneWay'
  <1>0. HInv /\ IInv /\ Client \in Hosts /\ Server \in Hosts /\ Client # Server
    BY HostSteps DEF SInv, CInv, HInv
  <1>1. CASE CommandStep
    BY <1>1 DEF CommandStep, threads, OneWay
  <1>2. CASE ServerStep
    BY <1>0, <1>2, HostSteps, StepFacts, ServerQuiet DEF PeerSame, OneWay
  <1>3. CASE ClientStep
    <2>0. Step(Client)
      BY <1>3, HostSteps
    <2>1. repl'[Server] = repl[Server] /\ written'[Server] = written[Server]
      BY <1>0, <2>0, StepFacts DEF PeerSame
    <2>2. ReceiverStep(Client)
      BY <1>0, <2>0, StepReceives
    <2>3. ~StartsWrite(Client) /\ ~WritesPart(Client) /\ ~WritesAll(Client)
      BY OneWayFacts, HostSteps DEF StartsWrite, WritesPart, WritesAll, OneWay, Sent
    <2>4. iface'[Client].pc = "idle"
      BY <2>2, <2>3 DEF ReceiverStep, Waits, Opens, KeepsEarly, TakesFIN, OneWay
    <2> QED BY <2>1, <2>4 DEF OneWay
  <1> QED BY <1>1, <1>2, <1>3

-----------------------------------------------------------------------------
(* The way of the file *)

\* What is transferring has these invariants.
Moving == SInv /\ OneWay /\ OneSegment /\ Transferring /\ Whole /\ Opened /\ Windows /\ Earned /\ Phase

\* The phase, where the goroutine writing the file stands still, and so does the list.
LEMMA PhaseKept ==
  ASSUME Phase, NEW h, h = Client, snd'[h].buf = snd[h].buf, repl'[h] = repl[h], written'[h] = written[h],
         h \in failed' <=> h \in failed, Complete => Complete', DataInFlight => DataInFlight' \/ Complete'
  PROVE  Phase' /\ (BeforeData' <=> BeforeData)
  BY DEF Phase, BeforeData, Written

\* Before the payload is cut the client has nothing under way, and after it nothing is left.
LEMMA BeforeOrAfter ==
  ASSUME NoWrap, SInv, OneSegment, Phase
  PROVE  /\ BeforeData => /\ repl[Client].pc \in {"idle", "send"} /\ repl[Client].seg = <<>>
                          /\ repl[Client].data = <<>>
         /\ written[Client] = 0 => snd[Client].buf = <<>> /\ repl[Client].pc = "idle"
         /\ written[Client] # 0 => Written
         /\ repl[Client].seg = <<>> \/ Len(repl[Client].seg) = FileSize
         /\ repl[Client].pc \in {"arm", "track"} => Len(repl[Client].seg) = FileSize
         /\ repl[Client].pc = "send" => snd[Client].buf = <<>> \/ Len(snd[Client].buf) = FileSize
  <1>0. Client \in Hosts /\ FileSize >= 1 /\ FileSize \in Nat
    BY HostSteps, FileNumbers
  <1>1. Shape(Client) /\ snd[Client].buf \in Bytes
    BY <1>0, SenderType
  <1>2. written[Client] = 0 => snd[Client].buf = <<>>
    BY <1>0, NothingBuffered
  <1> QED BY <1>0, <1>1, <1>2 DEF Shape, Phase, BeforeData, Written

\* VWrite of the file: it goes into snd.buf at once.
LEMMA VWritePhase ==
  ASSUME NoWrap, SegmentFits, Moving, VWrite(Client), Client \notin failed,
         written'[Client] = Smaller(written[Client] + BUFFER_SIZE, FileSize)
  PROVE  Phase' /\ BeforeData
  <1> DEFINE h == Client
  <1>0. /\ h \in Hosts /\ FileSize \in Nat /\ FileSize >= 1 /\ FileSize <= BUFFER_SIZE
        /\ BUFFER_SIZE \in Nat /\ SInv /\ MaxBytes[h] = FileSize /\ written[h] \in Nat
        /\ snd \in [Hosts -> SND] /\ repl \in [Hosts -> REPL] /\ written \in [Hosts -> Nat]
        /\ snd[h] \in SND
    BY HostSteps, FileNumbers, SenderType, ConstantsAssumption DEF Moving, OneSegment, SegmentFits
  <1>1. PICK n \in WriteSizes[h] : /\ written[h] + n <= MaxBytes[h]
                                   /\ written' = [written EXCEPT ![h] = @ + n]
                                   /\ TryWrite(h, [k \in 1..n |-> written[h] + k])
    BY DEF VWrite
  <1>2. n \in Nat /\ n > 0
    BY <1>0, ConstantsAssumption
  <1>3. written[h] = 0
    BY <1>0, <1>1, <1>2, BeforeOrAfter DEF Moving, Written
  <1>4. n = FileSize /\ written'[h] = FileSize
    BY <1>0, <1>1, <1>2, <1>3 DEF Smaller
  <1>5. snd[h].buf = <<>>
    BY <1>3, BeforeOrAfter DEF Moving
  <1> DEFINE d == [k \in 1..n |-> written[h] + k]
             m == Smaller(Len(d), Free(snd[h].buf))
  <1>6. d \in Bytes /\ Len(d) = FileSize
    BY <1>0, <1>2, <1>4 DEF Bytes
  <1>7. TryWrite(h, d)
    BY <1>1
  <1> HIDE DEF d
  <1>8. m = FileSize
    BY <1>0, <1>5, <1>6, BytesType DEF Smaller, Free
  <1>9. /\ snd' = [snd EXCEPT ![h].buf = @ \o SubSeq(d, 1, m)]
        /\ repl' = [repl EXCEPT ![h] = [Idle EXCEPT !.pc = "send", !.data = SubSeq(d, m + 1, Len(d))]]
    BY <1>7 DEF TryWrite
  <1> HIDE DEF m
  <1>10. /\ SubSeq(d, 1, m) \in Bytes /\ Len(SubSeq(d, 1, m)) = FileSize
         /\ SubSeq(d, m + 1, Len(d)) \in Bytes /\ Len(SubSeq(d, m + 1, Len(d))) = 0
    BY <1>0, <1>6, <1>8, Cut
  <1>11. snd'[h].buf = snd[h].buf \o SubSeq(d, 1, m)
    BY <1>0, <1>9 DEF SND
  <1>12. Len(snd'[h].buf) = FileSize
    <2> DEFINE a == SubSeq(d, 1, m)
               b == snd[h].buf
    <2>1. a \in Bytes /\ b \in Bytes /\ Len(a) = FileSize /\ Len(b) = 0
      BY <1>0, <1>5, <1>10, BytesType
    <2> HIDE DEF a, b
    <2>2. Len(b \o a) = Len(b) + Len(a)
      BY <2>1, Join
    <2>3. Len(b \o a) = FileSize
      BY <1>0, <2>1, <2>2
    <2> QED BY <1>11, <2>3 DEF a, b
  <1>13. repl'[h].pc = "send" /\ repl'[h].data = <<>>
    BY <1>0, <1>9, <1>10, BytesType DEF Idle
  <1>14. failed' = failed
    BY DEF VWrite
  <1> QED BY <1>3, <1>4, <1>12, <1>13, <1>14 DEF Phase, Written, BeforeData

\* trySendData: the window is the whole buffer, so that the payload is the whole file.
LEMMA TrySendPhase ==
  ASSUME NoWrap, SegmentFits, Moving, trySendData(Client)
  PROVE  Phase' /\ BeforeData
  <1> DEFINE h == Client
             s == snd[h]
             i == Plus(s.ISS, 1)
  <1>0. /\ h \in Hosts /\ FileSize \in Nat /\ FileSize >= 1 /\ FileSize <= MAX_TCP_PAYLOAD
        /\ MAX_TCP_PAYLOAD <= BUFFER_SIZE /\ MAX_TCP_PAYLOAD \in Nat
        /\ BUFFER_SIZE \in Nat /\ BUFFER_SIZE < WndMod /\ WndMod \in Nat
        /\ SInv /\ snd \in [Hosts -> SND] /\ repl \in [Hosts -> REPL]
        /\ s \in SND /\ s.buf \in Bytes /\ repl[h].pc = "send" /\ s.buf # <<>>
    BY HostSteps, FileNumbers, SenderType, ConstantsAssumption
       DEF Moving, OneSegment, SegmentFits, trySendData
  <1>1. BeforeData /\ NoData /\ Len(s.buf) = FileSize /\ repl[h].seg = <<>> /\ repl[h].data = <<>> /\ Written
    BY <1>0, BeforeOrAfter DEF Moving, BeforeData, Windows
  <1>2. state[h] = "ESTABLISHED"
    BY <1>0, AtWorkEstablished DEF Moving
  <1>3. s.WND = BUFFER_SIZE
    BY <1>0, <1>1, <1>2 DEF Moving, Windows
  <1>4. s.UNA = i /\ i \in Seqs
    BY <1>0, <1>1, <1>2, FileNumbers DEF Moving, Earned, NoData
  <1>5. s.NXT = i
    <2>1. Placed(s.ISS, s.NXT, <<>>, s.buf, <<>>, FileSize, TRUE)
      <3>1. Unsent(h) /\ h \notin failed /\ written[h] = FileSize
        BY <1>0, <1>1, SenderType DEF Written
      <3> QED BY <1>1, <3>1 DEF Unsent
    <2>2. PICK d \in 0..FileSize : s.NXT = Plus(s.ISS, 1 + d) /\ d + Len(<<>>) + Len(s.buf) + Len(<<>>) = FileSize
      BY <2>1 DEF Placed
    <2>3. Len(<<>>) = 0
      BY BytesType
    <2>4. d = 0
      BY <1>0, <1>1, <2>2, <2>3
    <2> QED BY <2>2, <2>4
  <1>6. freeWindowSpace(s) = BUFFER_SIZE
    <2>1. i - i = 0 /\ 0 % SeqMod = 0 /\ BUFFER_SIZE - 0 = BUFFER_SIZE /\ BUFFER_SIZE % WndMod = BUFFER_SIZE
      BY <1>0, <1>4, SeqsType
    <2> QED BY <1>3, <1>4, <1>5, <2>1 DEF freeWindowSpace
  <1> DEFINE n == Smaller(Smaller(freeWindowSpace(s), MAX_TCP_PAYLOAD), Len(s.buf))
             data == SubSeq(s.buf, 1, n)
             rest == SubSeq(s.buf, n + 1, Len(s.buf))
  <1>7. n = FileSize
    BY <1>0, <1>1, <1>6 DEF Smaller
  <1>8. /\ snd' = [snd EXCEPT ![h].buf = SubSeq(@, n + 1, Len(@))]
        /\ repl' = [repl EXCEPT ![h] = [@ EXCEPT !.pc = "arm", !.seg = data]]
        /\ written' = written /\ failed' = failed
    BY DEF trySendData, history
  <1> HIDE DEF n
  <1>9. Len(data) = FileSize /\ rest \in Bytes /\ Len(rest) = 0
    BY <1>0, <1>1, <1>7, Cut
  <1>10. snd'[h].buf = rest
    BY <1>0, <1>8 DEF SND
  <1> HIDE DEF data, rest
  <1>11. repl'[h].pc = "arm" /\ repl'[h].seg = data /\ repl'[h].data = repl[h].data
    BY <1>0, <1>8 DEF REPL
  <1>12. Written'
    BY <1>1, <1>8, <1>11 DEF Written
  <1> QED BY <1>1, <1>9, <1>10, <1>11, <1>12, BytesType DEF Phase

\* The other parts of VWrite: nothing probes, and the payload gets into the list.
LEMMA SendingPhase ==
  ASSUME NoWrap, SegmentFits, Moving, Sending(Client) \/ Probing(Client)
  PROVE  Phase' /\ (BeforeData' => BeforeData)
  <1> DEFINE h == Client
  <1>0. /\ h \in Hosts /\ FileSize \in Nat /\ FileSize >= 1 /\ SInv /\ Phase
        /\ snd \in [Hosts -> SND] /\ repl \in [Hosts -> REPL]
        /\ snd[h] \in SND /\ repl[h] \in REPL /\ snd[h].buf \in Bytes /\ repl[h].seg \in Bytes
        /\ BUFFER_SIZE # 0
    BY HostSteps, FileNumbers, SenderType, ConstantsAssumption DEF Moving
  <1>b. Len(<<>>) = 0
    BY BytesType
  <1>1. CASE VWriteLoop(h)
    <2>1. repl[h].pc = "send" /\ snd[h].buf = <<>> /\ written' = written /\ failed' = failed
      BY <1>1 DEF VWriteLoop, history
    <2>2. Written /\ (Complete \/ DataInFlight)
      BY <1>0, <1>b, <2>1 DEF Phase
    <2>3. repl'[h] = Idle /\ snd' = snd
      BY <1>0, <1>1, <2>2 DEF VWriteLoop, Written
    <2>4. Complete'
          \/ DataInFlight'
      <3>1. rcv' = rcv /\ delivered' = delivered
        BY <1>1 DEF VWriteLoop, history
      <3> QED BY <2>2, <2>3, <3>1 DEF Complete, DataInFlight, Received
    <2> QED BY <2>1, <2>2, <2>3, <2>4 DEF Phase, Written, BeforeData, Idle
  <1>2. CASE trySendData(h)
    BY <1>2, TrySendPhase
  <1>3. CASE startTimer(h)
    <2>1. repl[h].pc = "arm" /\ written' = written /\ failed' = failed /\ snd'[h].buf = snd[h].buf
      BY <1>0, <1>3 DEF startTimer, history, SND
    <2>2. repl'[h].pc = "track" /\ repl'[h].seg = repl[h].seg /\ repl'[h].data = repl[h].data
      BY <1>0, <1>3 DEF startTimer, REPL
    <2> QED BY <1>0, <2>1, <2>2 DEF Phase, Written, BeforeData
  <1>4. CASE trackPacket(h)
    <2> DEFINE p == Packet({"ACK"}, snd[h].NXT, Len(repl[h].seg), 0, repl[h].seg)
               q == [p EXCEPT !.at = snd[h].place + 1]
               t == Tracked(snd[h], p)
               nxt == Plus(snd[h].NXT, Len(repl[h].seg))
               u == [t EXCEPT !.NXT = nxt]
    <2>1. snd'[h] = u /\ repl[h].pc = "track" /\ written' = written /\ failed' = failed
      BY <1>0, <1>4 DEF trackPacket, history
    <2>2. repl'[h].pc = "send" /\ repl'[h].data = repl[h].data
      BY <1>0, <1>4 DEF trackPacket, REPL
    <2>3. Written /\ Len(repl[h].seg) = FileSize /\ snd[h].buf = <<>>
      BY <1>0, <2>1 DEF Phase
    <2>4. q.data = repl[h].seg
      BY DEF Packet
    <2> HIDE DEF p, nxt
    <2>5. t.inFlight = snd[h].inFlight \cup {q} /\ t.buf = snd[h].buf /\ DOMAIN t = DOMAIN snd[h]
      BY <1>0 DEF Tracked, SND
    <2> HIDE DEF t, q
    <2>6. u.inFlight = t.inFlight /\ u.buf = t.buf
      BY <1>0, <2>5 DEF SND
    <2> HIDE DEF u
    <2>7. q \in snd'[h].inFlight /\ q.data # <<>> /\ snd'[h].buf = <<>>
      BY <1>0, <1>b, <2>1, <2>3, <2>4, <2>5, <2>6
    <2> QED BY <2>1, <2>2, <2>3, <2>7 DEF Phase, Written, DataInFlight, BeforeData
  <1>5. CASE Probing(h)
    <2>1. repl[h].pc # "zwp"
      BY <1>0 DEF Phase
    <2>2. startProbing(h)
      BY <1>5, <2>1 DEF Probing, sendZeroWindowProbe, probingEnds
    <2>3. repl[h].pc = "send" /\ snd[h].buf # <<>> /\ snd[h].WND = 0
      BY <2>2 DEF startProbing
    <2>4. state[h] = "ESTABLISHED"
      BY <1>0, <2>3, AtWorkEstablished DEF Moving
    <2> QED BY <1>0, <2>3, <2>4 DEF Moving, Windows, BeforeData
  <1> QED BY <1>1, <1>2, <1>3, <1>4, <1>5 DEF Sending

\* Retransmissions leave the payload in the list: what they take out has another number.
LEMMA ListStays ==
  ASSUME NoWrap, Moving, Retransmitting(Client), DataInFlight
  PROVE  DataInFlight'
  <1> DEFINE h == Client
  <1>0. /\ h \in Hosts /\ SInv /\ IInv /\ HInv /\ FileSize >= 1 /\ FileSize \in Nat
        /\ snd \in [Hosts -> SND] /\ rtx \in [Hosts -> RTX] /\ snd[h] \in SND /\ rtx[h].pkt \in Packets
    BY HostSteps, FileNumbers, Owned, HostType DEF Moving, SInv, CInv, HInv
  <1>1. PICK r \in snd[h].inFlight : r.data # <<>>
    BY DEF DataInFlight
  <1> DEFINE s == [snd[h] EXCEPT !.timer = FALSE]
  <1>s. s \in SND /\ s.inFlight = snd[h].inFlight
    BY <1>0 DEF SND
  <1>2. CASE retransmitPacket(h) \/ nothingToRetransmit(h) \/ giveUpReturn(h)
    <2>1. snd'[h] = s \/ snd'[h] = snd[h]
      BY <1>0, <1>2 DEF retransmitPacket, nothingToRetransmit, giveUpReturn
    <2> HIDE DEF s
    <2> QED BY <1>1, <1>s, <2>1 DEF DataInFlight
  <1>3. CASE giveUp(h)
    <2>1. sendFIN(h, s) \/ snd'[h] = s
      BY <1>0, <1>3 DEF giveUp
    <2> HIDE DEF s
    <2>2. s.inFlight \subseteq snd'[h].inFlight
      BY <1>0, <1>s, <2>1, FINKeeps
    <2> QED BY <1>1, <1>s, <2>2 DEF DataInFlight
  <1>4. CASE relistPacket(h)
    <2> DEFINE others == {q \in snd[h].inFlight : q.seq # rtx[h].pkt.seq}
               v == [snd[h] EXCEPT !.inFlight = others, !.place = IF others = {} THEN 0 ELSE @]
               p == [rtx[h].pkt EXCEPT !.len = 0]
               q == [p EXCEPT !.at = v.place + 1]
               t == Tracked(v, p)
               u == [t EXCEPT !.retransmissions = @ + 1, !.timer = TRUE]
    <2>1. snd'[h] = u /\ rtx[h].pc = "relist"
      BY <1>0, <1>4 DEF relistPacket
    <2>2. q.data = rtx[h].pkt.data
      BY <1>0 DEF Packets
    <2>3. rtx[h].pkt.data # <<>> \/ r \in others
      <3>1. rtx[h].pkt \in Pending(h) /\ rtx[h].pkt \in Sent(h) /\ r \in Sent(h)
        BY <2>1 DEF Pending, Sent, Listed
      <3>2. rtx[h].pkt.data # <<>> \/ "SYN" \in rtx[h].pkt.flags \/ "FIN" \in rtx[h].pkt.flags
        BY <3>1 DEF Moving, Opened
      <3>3. rtx[h].pkt.data # <<>> \/ rtx[h].pkt.seq = snd[h].ISS
        BY <1>0, <3>1, <3>2 DEF Moving, Opened, HInv, SynSound
      <3>4. Len(r.data) = FileSize
        BY <1>1, <3>1 DEF Moving, Whole
      <3>5. r.seq = Plus(snd[h].ISS, 1) /\ r.seq # snd[h].ISS
        BY <3>1, <3>4, WholeSeq, FileNumbers DEF Moving
      <3> QED BY <3>3, <3>5
    <2> HIDE DEF others
    <2>4. v.inFlight = others /\ DOMAIN v = DOMAIN snd[h]
      BY <1>0 DEF SND
    <2> HIDE DEF v, p
    <2>5. t.inFlight = v.inFlight \cup {q} /\ DOMAIN t = DOMAIN v
      BY <1>0, <2>4 DEF Tracked, SND
    <2> HIDE DEF t
    <2>6. u.inFlight = t.inFlight
      BY <1>0, <2>4, <2>5 DEF SND
    <2> HIDE DEF u, q
    <2> QED BY <1>1, <2>1, <2>2, <2>3, <2>4, <2>5, <2>6 DEF DataInFlight
  <1> QED BY <1>2, <1>3, <1>4 DEF Retransmitting

\* Until the receiver has the file, no ACK takes the payload out of the list.
LEMMA ListUntilComplete ==
  ASSUME NoWrap, Moving, Receiving(Client), Transferring', written[Client] # 0, DataInFlight
  PROVE  DataInFlight' \/ Complete
  <1> DEFINE h == Client
  <1>0. h \in Hosts /\ SInv /\ IInv /\ HInv /\ iface[h].pc = "idle" /\ Step(h) /\ Peer(h) = Server
    BY HostSteps DEF Moving, SInv, CInv, HInv, OneWay, Step
  <1>1. state[h] = "ESTABLISHED"
    BY <1>0, AtWorkEstablished, FileNumbers DEF Moving
  <1>2. state'[h] = "ESTABLISHED"
    BY <1>0, <1>1, StepFacts DEF Follows, Transferring
  <1>3. ListedUntilAcked(h)
    BY <1>0, ReceivingWindows
  <1>4. CASE Received(Server) = <<>>
    <2>1. \A x \in Wire(Server) : "ACK" \in x.flags => x.ack = snd[h].UNA
      BY <1>1, <1>4, FileNumbers DEF Moving, Earned
    <2>2. snd[h].UNA \in Int
      BY <1>0, HostType, SeqsType DEF SND
    <2>3. snd'[h].inFlight = snd[h].inFlight
      BY <1>0, <1>1, <1>2, <1>3, <2>1, <2>2 DEF ListedUntilAcked
    <2> QED BY <2>3 DEF DataInFlight
  <1>5. CASE Received(Server) # <<>>
    <2>1. Len(Received(Server)) = FileSize
      BY <1>5, FileNumbers, BytesType DEF Moving, Whole
    <2> QED BY <2>1 DEF Complete
  <1> QED BY <1>4, <1>5

\* The client's steps move the file on, and never back to where it was not sent.
LEMMA ClientPhase ==
  ASSUME NoWrap, SegmentFits, Moving, ClientStep, Transferring'
  PROVE  Phase' /\ (BeforeData' => BeforeData)
  <1> DEFINE h == Client
  <1>0. /\ h \in Hosts /\ Server \in Hosts /\ Server # h /\ SInv /\ IInv /\ HInv /\ Step(h) /\ Phase
        /\ snd \in [Hosts -> SND] /\ repl \in [Hosts -> REPL] /\ snd[h] \in SND /\ repl[h] \in REPL
    BY HostSteps, SenderType DEF Moving, SInv, CInv, HInv
  <1>c. Complete' <=> Complete
    BY <1>0, StepFacts DEF PeerSame, Complete, Received
  <1>1. CASE VConnect
    <2>1. Silent(h)
      BY <1>0, <1>1, OpensSilent DEF VConnect
    <2>2. written' = written /\ repl' = repl
      BY <1>1 DEF VConnect, history
    <2> QED BY <2>1, <2>2 DEF Silent, Phase, BeforeData
  <1>2. CASE VConnectReturn \/ HandshakeTimeout \/ sendRST(h) \/ Fault(h)
    <2>1. snd' = snd /\ repl' = repl /\ written' = written /\ failed' = failed
      BY <1>2 DEF VConnectReturn, HandshakeTimeout, sendRST, Fault, sockets, threads, history
    <2> QED BY <1>0, <1>c, <2>1, PhaseKept DEF DataInFlight
  <1>3. CASE /\ VWrite(h) /\ h \notin failed
             /\ written'[h] = Smaller(written[h] + BUFFER_SIZE, FileSize)
    BY <1>3, VWritePhase
  <1>4. ~VClose(h) /\ ~VCloseReturn(h) /\ ~TimeWaitExpires(h)
    BY <1>0 DEF VClose, VCloseReturn, TimeWaitExpires, Moving, Transferring, REPL
  <1>5. CASE Sending(h) \/ Probing(h)
    BY <1>5, SendingPhase
  <1>6. CASE Retransmitting(h)
    <2>1. repl' = repl /\ written' = written /\ failed' = failed
      BY <1>6 DEF Retransmitting, retransmitPacket, relistPacket, nothingToRetransmit, giveUp,
         giveUpReturn, history, threads
    <2>2. snd'[h].buf = snd[h].buf
      BY <1>0, <1>6, RetransmittingKeeps
    <2> QED BY <1>0, <1>6, <1>c, <2>1, <2>2, ListStays, PhaseKept
  <1>7. CASE Receiving(h)
    <2>1. repl' = repl /\ written' = written /\ failed' = failed
      BY <1>7 DEF Receiving, HandlePacket, handleSYN, handleSYNACK, handleACK, handleEstablishedPacket,
         handleData, handleFIN, handleClosingACK, handleRST, ignore, rcvBufWrite, processInOrderData,
         history, threads
    <2>2. CASE written[h] = 0
      <3>1. repl[h].pc = "idle"
        BY <1>0, <2>2, BeforeOrAfter DEF Moving
      <3> QED BY <2>1, <2>2, <3>1 DEF Phase, BeforeData
    <2>3. CASE written[h] # 0
      <3>1. ~Shakes(h)
        <4>1. state[h] = "ESTABLISHED"
          BY <1>0, <2>3, AtWorkEstablished, FileNumbers DEF Moving
        <4> QED BY <1>0, <4>1 DEF Shakes, handleSYNACK
      <3>2. snd'[h].buf = snd[h].buf
        BY <1>0, <1>7, <3>1, ReceivingReceives DEF InterfaceStep, Kept
      <3>3. DataInFlight => DataInFlight' \/ Complete'
        BY <1>7, <1>c, <2>3, ListUntilComplete
      <3> QED BY <1>0, <1>c, <2>1, <3>2, <3>3, PhaseKept
    <2> QED BY <2>2, <2>3
  <1> QED BY <1>1, <1>2, <1>3, <1>4, <1>5, <1>6, <1>7 DEF ClientStep, Connection

\* The server's leave it where it is, or take it in.
LEMMA ServerPhase ==
  ASSUME NoWrap, Moving, SInv', ServerStep
  PROVE  Phase' /\ (BeforeData' <=> BeforeData)
  <1>0. /\ Client \in Hosts /\ Server \in Hosts /\ Server # Client /\ SInv /\ HInv /\ Step(Server) /\ Phase
        /\ Peer(Client) = Server
    BY HostSteps DEF Moving, SInv, CInv
  <1>1. PeerSame(Server)
    BY <1>0, StepFacts
  <1>2. Complete => Complete'
    <2>1. Len(Received(Server)) <= Len(Received(Server)') /\ Len(Received(Server)') \in Nat
      BY <1>0, ReceivedGrows
    <2>2. Len(Received(Server)') <= MaxBytes[Client]
      <3>1. Len(Received(Server)') <= written'[Client]
        BY <1>0 DEF SInv, Arrived
      <3>2. Shape(Client)' /\ written'[Client] \in Nat
        BY <1>0 DEF SInv, Queue, CInv, HInv, IInv, TypeOK
      <3>3. MaxBytes[Client] \in Nat
        BY FileNumbers DEF Moving
      <3> QED BY <2>1, <3>1, <3>2, <3>3 DEF Shape
    <2> QED BY <2>1, <2>2, FileNumbers DEF Complete, Moving, FileSize
  <1>3. DataInFlight => DataInFlight'
    BY <1>0, <1>1 DEF PeerSame, DataInFlight
  <1> QED BY <1>0, <1>1, <1>2, <1>3, PhaseKept DEF PeerSame

-----------------------------------------------------------------------------
(* A payload is the whole file *)

\* What the client sends is the file, or nothing.
LEMMA ClientWhole ==
  ASSUME NoWrap, Moving, SInv', Phase', ClientStep
  PROVE  Whole'
  <1> DEFINE h == Client
  <1>0. /\ h \in Hosts /\ Server \in Hosts /\ Server # h /\ SInv /\ HInv /\ Step(h) /\ Phase /\ OneSegment
        /\ Peer(h) = Server
    BY HostSteps DEF Moving, SInv, CInv
  <1>1. PeerSame(h)
    BY <1>0, StepFacts
  <1>2. repl[h].seg = <<>> \/ Len(repl[h].seg) = FileSize
    BY <1>0, BeforeOrAfter
  <1>3. repl'[h].seg = <<>> \/ Len(repl'[h].seg) = FileSize
    <2>1. Shape(h)'
      BY <1>0 DEF SInv, Queue
    <2> QED BY <2>1 DEF Shape, Phase
  <1>4. ASSUME NEW x \in Sent(h)' PROVE x.data = <<>> \/ Len(x.data) = FileSize
    <2>1. Said(h, x) \/ Fresh(h, x)
      BY <1>0, SentStep
    <2> QED BY <1>2, <1>3, <2>1 DEF Said, Fresh, Moving, Whole
  <1> QED BY <1>1, <1>0, <1>4 DEF PeerSame, Whole, Received, Moving

\* A payload is taken into an empty buffer that has room for it, and no second one follows.
LEMMA ServerWhole ==
  ASSUME NoWrap, SegmentFits, Moving, SInv', ServerStep
  PROVE  Whole'
  <1> DEFINE h == Server
             n == Len(Received(h))
  <1>0. /\ h \in Hosts /\ Client \in Hosts /\ Client # h /\ SInv /\ HInv /\ IInv /\ Step(h) /\ Whole
        /\ Peer(h) = Client /\ Peer(Client) = h
    BY HostSteps DEF Moving, SInv, CInv, HInv
  <1>f. /\ FileSize \in Nat /\ FileSize >= 1 /\ FileSize <= BUFFER_SIZE /\ BUFFER_SIZE \in Nat
        /\ written[Client] \in Nat /\ written[Client] <= FileSize /\ n \in Nat
    BY <1>0, FileNumbers, ReceivedGrows, ConstantsAssumption DEF Moving, OneSegment, SegmentFits
  <1>g. written'[Client] \in Nat /\ written'[Client] <= FileSize
    <2>1. Shape(Client)' /\ written'[Client] \in Nat
      BY <1>0 DEF SInv, Queue, CInv, HInv, IInv, TypeOK
    <2> QED BY <2>1 DEF Shape, FileSize
  <1>1. \A x \in Sent(Client)' : x.data = <<>> \/ Len(x.data) = FileSize
    BY <1>0, SentStep DEF Whole
  <1>2. ReceiverStep(h)
    BY <1>0, StepReceives
  <1>3. \A x \in Wire(Client) : x.data # <<>> => Len(x.data) = FileSize
    BY <1>0 DEF Whole, Sent
  <1> HIDE DEF n
  \* Ahead: what is being written comes behind what has been received.
  <1>4. ASSUME iface[h].pc = "write"
        PROVE  Len(iface[h].rest) = FileSize /\ n = 0 /\ written[Client] = FileSize
    <2>1. Len(iface[h].rest) = FileSize
      BY <1>0, <1>4 DEF Whole
    <2>2. n + Len(iface[h].rest) <= written[Client]
      BY <1>0, <1>4 DEF SInv, InTransit, Ahead, n
    <2> QED BY <1>f, <2>1, <2>2
  <1>5. ~WritesPart(h)
    <2>1. SUFFICES ASSUME WritesPart(h) PROVE FALSE
      OBVIOUS
    <2>2. iface[h].pc = "write" /\ Len(iface[h].rest) > Free(rcv[h].buf)
      BY <2>1 DEF WritesPart
    <2>3. /\ delivered[h] \in Bytes /\ rcv[h].buf \in Bytes /\ Len(rcv[h].buf) \in Nat /\ Len(delivered[h]) \in Nat
          /\ n = Len(delivered[h]) + Len(rcv[h].buf)
      BY <1>0, Owned, HostType, Join, BytesType DEF Received, n
    <2>4. Len(rcv[h].buf) = 0
      <3> DEFINE d == Len(delivered[h])
                 b == Len(rcv[h].buf)
      <3>1. n = d + b /\ d \in Nat /\ b \in Nat /\ n = 0
        BY <1>4, <2>2, <2>3
      <3> HIDE DEF d, b
      <3>2. b = 0
        BY <3>1
      <3> QED BY <3>2 DEF b
    <2>5. FileSize > BUFFER_SIZE - 0
      BY <1>4, <2>2, <2>4 DEF Free
    <2> QED BY <1>f, <2>5
  <1>6. CASE Waits(h) \/ Opens(h) \/ KeepsEarly(h) \/ StartsWrite(h) \/ TakesFIN(h)
    <2>1. \A x \in rcv'[h].early : Len(x.data) = FileSize
      BY <1>0, <1>3, <1>6 DEF Whole, Waits, Opens, KeepsEarly, StartsWrite, TakesFIN
    <2>2. iface'[h].pc = "write" => Len(iface'[h].rest) = FileSize
      BY <1>0, <1>3, <1>6 DEF Whole, Waits, Opens, KeepsEarly, StartsWrite, TakesFIN
    <2>3. Received(h)' = Received(h) \/ Received(h)' = <<>>
      BY <1>6 DEF Waits, Opens, KeepsEarly, StartsWrite, TakesFIN
    <2> QED BY <1>0, <1>1, <2>1, <2>2, <2>3, BytesType DEF Whole
  <1>7. CASE WritesAll(h)
    <2>1. iface[h].pc = "write" /\ Len(Received(h)') = n + Len(iface[h].rest)
      BY <1>0, <1>7, WriteStep DEF WritesAll, n
    <2>2. Len(Received(h)') = FileSize
      BY <1>4, <1>f, <2>1
    <2>3. rcv'[h].early \subseteq rcv[h].early
      BY <1>7 DEF WritesAll
    <2>4. iface'[h].pc # "write"
      <3>1. SUFFICES ASSUME iface'[h].pc = "write" PROVE FALSE
        OBVIOUS
      <3>2. PICK e \in rcv[h].early : iface'[h].rest = e.data
        BY <1>7, <3>1 DEF WritesAll
      <3>3. Len(iface'[h].rest) = FileSize
        BY <1>0, <3>2 DEF Whole
      <3>4. Ahead(Client)'
        BY <1>0 DEF SInv, InTransit
      <3>5. Len(Received(h)') + Len(iface'[h].rest) <= written'[Client]
        BY <1>0, <3>1, <3>4 DEF Ahead
      <3> QED BY <1>f, <1>g, <2>2, <3>3, <3>5
    <2> QED BY <1>0, <1>1, <2>2, <2>3, <2>4 DEF Whole
  <1> QED BY <1>2, <1>5, <1>6, <1>7 DEF ReceiverStep

-----------------------------------------------------------------------------
(* What the client has besides payloads *)

\* Nothing comes in that changes rcv.WND, and a FIN takes the initial number.
LEMMA ClientOpened ==
  ASSUME NoWrap, Moving, Phase', ClientStep, Transferring'
  PROVE  Opened'
  <1> DEFINE h == Client
  <1>0. /\ h \in Hosts /\ SInv /\ HInv /\ Step(h) /\ Opened /\ OneWay /\ Local(h) /\ NumbersSet(h) /\ OneSegment
        /\ iface[h].pc = "idle" /\ Phase /\ IInv
    BY HostSteps, StepFacts DEF Moving, SInv, CInv, HInv, OneWay, Local
  <1>1. rcv'[h].WND = BUFFER_SIZE
    <2>1. WindowSet(h)
      BY <1>0, StepWindows DEF WindowStep
    <2> QED BY <1>0, <2>1, OneWayFacts DEF WindowSet, Opened, Transferring, Early3
  <1>2. SeqNum'[h] = snd'[h].ISS \/ state'[h] = "NONE"
    <2>1. CASE VConnect
      <3>1. PICK isn \in ISNs[h] : VConnect!3!(isn)
        BY <2>1 DEF VConnect
      <3>2. SeqNum \in [Hosts -> Seqs] /\ snd \in [Hosts -> SND]
        BY <1>0 DEF IInv, TypeOK
      <3>3. snd'[h].ISS = isn
        BY <1>0, <3>1, <3>2 DEF Tracked, NewSND
      <3> QED BY <1>0, <3>1, <3>2, <3>3
    <2>2. CASE SeqNum'[h] = SeqNum[h] /\ (state[h] = "NONE" => state'[h] = "NONE")
      BY <1>0, <2>2 DEF Opened, NumbersSet
    <2> QED BY <1>0, <2>1, <2>2, ClientOpens
  <1>3. ASSUME NEW x \in Sent(h)', "FIN" \in x.flags PROVE x.seq = snd'[h].ISS
    <2>1. CASE Said(h, x)
      <3>1. PICK y \in Sent(h) : "FIN" \in y.flags /\ y.seq = x.seq
        BY <1>3, <2>1 DEF Said
      <3>2. state[h] # "NONE"
        BY <1>0, <3>1, OpensSilent DEF Silent
      <3> QED BY <1>0, <3>1, <3>2 DEF Opened, NumbersSet
    <2>2. CASE Fresh(h, x)
      BY <1>0, <1>3, <2>2 DEF Fresh, Open, Opened, NumbersSet
    <2> QED BY <1>0, <2>1, <2>2, SentStep
  <1>4. ASSUME NEW p \in Pending(h)' PROVE p.data # <<>> \/ p.flags \in {{"SYN"}, {"FIN"}}
    <2>1. repl[h].pc = "track" => repl[h].seg # <<>>
      BY <1>0, BeforeOrAfter, FileNumbers, BytesType
    <2>2. PendingStep(h)
      BY <1>0, ClientPending
    <2> QED BY <1>0, <2>1, <2>2 DEF PendingStep, Opened
  <1> QED BY <1>1, <1>2, <1>3, <1>4 DEF Opened

\* The server's steps do not touch that.
LEMMA ServerOpened ==
  ASSUME Moving, ServerStep
  PROVE  Opened'
  <1>0. /\ Client \in Hosts /\ Server \in Hosts /\ Server # Client /\ HInv /\ Step(Server) /\ Opened
    BY HostSteps DEF Moving, SInv, CInv
  <1>1. PeerSame(Server) /\ SeqNum'[Client] = SeqNum[Client] /\ Sent(Client)' \subseteq Sent(Client)
    BY <1>0, StepFacts, SentStep, ClientOpens
  <1>2. Pending(Client)' = Pending(Client)
    BY <1>0, <1>1 DEF PeerSame, Pending
  <1> QED BY <1>0, <1>1, <1>2 DEF PeerSame, Opened

-----------------------------------------------------------------------------
(* The windows until the payload is sent *)

\* The client announces the whole of its empty buffer, and hears of the server's.
LEMMA ClientWindows ==
  ASSUME NoWrap, Moving, Phase', Opened', SInv', ClientStep, BeforeData' => BeforeData
  PROVE  Windows'
  <1> DEFINE h == Client
  <1>0. /\ h \in Hosts /\ Server \in Hosts /\ Server # h /\ SInv /\ HInv /\ Step(h) /\ Opened /\ OneWay
        /\ iface[h].pc = "idle" /\ Phase /\ OneSegment /\ Peer(h) = Server /\ BUFFER_SIZE - 0 = BUFFER_SIZE
        /\ IInv
    BY HostSteps, ConstantsAssumption DEF Moving, SInv, CInv, HInv, OneWay
  <1> SUFFICES ASSUME BeforeData' PROVE Windows!2'
    BY DEF Windows
  <1>1. /\ NoData /\ rcv[Server].WND = BUFFER_SIZE
        /\ \A x \in Wire(h) : x.flags \cap {"ACK", "FIN"} # {} => x.wnd = BUFFER_SIZE
        /\ \A x \in Sent(Server) : "ACK" \in x.flags => x.wnd = BUFFER_SIZE
        /\ state[h] # "NONE" => snd[h].WND = BUFFER_SIZE
    BY DEF Moving, Windows
  <1>2. PeerSame(h) /\ Sent(Server)' \subseteq Sent(Server)
    BY <1>0, StepFacts, SentStep
  <1>3. WindowStep(h)
    BY <1>0, StepWindows
  <1>4. NoData'
    <2>1. repl[h].seg = <<>>
      BY <1>0, BeforeOrAfter
    <2>2. repl'[h].seg = <<>>
      <3>1. Shape(h)'
        BY <1>0 DEF SInv, Queue
      <3>2. written'[h] = FileSize => written'[h] # 0
        BY <1>0, FileNumbers
      <3> QED BY <3>1, <3>2 DEF Shape, Phase, BeforeData, Written
    <2>3. \A x \in Sent(h)' : x.data = <<>>
      BY <1>0, <1>1, <2>1, <2>2, SentStep DEF Said, Fresh, NoData
    <2> QED BY <1>0, <1>1, <1>2, <2>3 DEF PeerSame, NoData, Received
  <1>5. ASSUME NEW x \in Wire(h)', x.flags \cap {"ACK", "FIN"} # {} PROVE x.wnd = BUFFER_SIZE
    <2>1. Announced(h, x)
      BY <1>3 DEF WindowStep
    <2>2. rcv[h].WND = BUFFER_SIZE /\ rcv'[h].WND = BUFFER_SIZE /\ Free(rcv[h].buf) = BUFFER_SIZE
      BY <1>0, OneWayFacts, BytesType DEF Opened, Free
    <2>3. ASSUME NEW p \in snd[h].inFlight, rtx[h].pc = "idle", x.flags = p.flags PROVE FALSE
      <3>1. p \in Sent(h) /\ p \in Pending(h)
        BY <2>3 DEF Sent, Listed, Pending
      <3>2. p.flags \in {{"SYN"}, {"FIN"}}
        BY <1>0, <1>1, <3>1 DEF NoData, Opened
      <3>3. "FIN" \notin p.flags
        BY <1>0, <2>3, <3>1, TransferringNoFIN DEF Moving
      <3> QED BY <1>5, <2>3, <3>2, <3>3
    <2> QED BY <1>1, <1>5, <2>1, <2>2, <2>3 DEF Announced
  <1>6. state'[h] # "NONE" => snd'[h].WND = BUFFER_SIZE
    <2>1. CASE VConnect
      <3>1. PICK isn \in ISNs[h] : VConnect!3!(isn)
        BY <2>1 DEF VConnect
      <3>2. snd \in [Hosts -> SND]
        BY <1>0 DEF IInv, TypeOK
      <3> QED BY <1>0, <3>1, <3>2 DEF Tracked, NewSND
    <2>2. CASE state[h] = "NONE" => state'[h] = "NONE"
      <3>1. WindowHeard(h)
        BY <1>3 DEF WindowStep
      <3>2. \A x \in Wire(Server) : x \in Sent(Server)
        BY DEF Sent
      <3> QED BY <1>0, <1>1, <2>2, <3>1, <3>2, OneWayFacts DEF WindowHeard
    <2> QED BY <1>0, <2>1, <2>2, ClientOpens
  <1> QED BY <1>0, <1>1, <1>2, <1>4, <1>5, <1>6 DEF PeerSame

\* So does the server.
LEMMA ServerWindows ==
  ASSUME NoWrap, Moving, OneWay', ServerStep, BeforeData' => BeforeData
  PROVE  Windows'
  <1> DEFINE h == Server
  <1>0. /\ h \in Hosts /\ Client \in Hosts /\ Client # h /\ SInv /\ HInv /\ IInv /\ Step(h) /\ OneWay
        /\ Peer(h) = Client /\ BUFFER_SIZE - 0 = BUFFER_SIZE
    BY HostSteps, ConstantsAssumption DEF Moving, SInv, CInv, HInv
  <1> SUFFICES ASSUME BeforeData' PROVE Windows!2'
    BY DEF Windows
  <1>1. /\ NoData /\ rcv[h].WND = BUFFER_SIZE
        /\ \A x \in Wire(Client) : x.flags \cap {"ACK", "FIN"} # {} => x.wnd = BUFFER_SIZE
        /\ \A x \in Sent(h) : "ACK" \in x.flags => x.wnd = BUFFER_SIZE
        /\ state[Client] # "NONE" => snd[Client].WND = BUFFER_SIZE
    BY DEF Moving, Windows
  <1>2. PeerSame(h) /\ Sent(Client)' \subseteq Sent(Client) /\ Wire(Client)' \subseteq Wire(Client)
    BY <1>0, StepFacts, SentStep, StepSourced DEF HInv, Sourced, WireSourced
  <1>3. WindowStep(h)
    BY <1>0, <1>1, StepWindows DEF NoData
  <1>b. rcv[h].buf = <<>>
    <2>1. delivered[h] \in Bytes /\ rcv[h].buf \in Bytes /\ Received(h) = <<>>
      BY <1>0, <1>1, Owned, HostType DEF NoData
    <2>2. Len(rcv[h].buf) = 0
      <3> DEFINE d == Len(delivered[h])
                 b == Len(rcv[h].buf)
      <3>1. d + b = 0 /\ d \in Nat /\ b \in Nat
        BY <2>1, Join, BytesType DEF Received
      <3> HIDE DEF d, b
      <3>2. b = 0
        BY <3>1
      <3> QED BY <3>2 DEF b
    <2> QED BY <2>1, <2>2, BytesType
  <1>4. NoData'
    <2>1. \A x \in Sent(Client)' : x.data = <<>>
      BY <1>1, <1>2 DEF NoData
    <2>2. ReceiverStep(h)
      BY <1>0, StepReceives
    <2>3. \A x \in Wire(Client) : x.data = <<>>
      BY <1>1 DEF NoData, Sent
    <2>4. ~KeepsEarly(h) /\ ~StartsWrite(h) /\ ~WritesPart(h) /\ ~WritesAll(h)
      BY <1>0, <1>1, <2>3 DEF KeepsEarly, StartsWrite, WritesPart, WritesAll, NoData
    <2>5. rcv'[h].early = {} /\ iface'[h].pc = "idle" /\ Received(h)' = <<>>
      BY <1>1, <2>2, <2>4 DEF ReceiverStep, Waits, Opens, TakesFIN, NoData
    <2> QED BY <2>1, <2>5 DEF NoData
  <1>5. rcv'[h].WND = BUFFER_SIZE
    <2>1. WindowSet(h)
      BY <1>3 DEF WindowStep
    <2> QED BY <1>0, <1>1, <1>b, <2>1 DEF WindowSet
  <1>6. ASSUME NEW x \in Sent(h)', "ACK" \in x.flags PROVE x.wnd = BUFFER_SIZE
    <2>1. CASE x \in Wire(h)'
      <3>1. Announced(h, x)
        BY <1>3, <2>1 DEF WindowStep
      <3>2. Free(rcv[h].buf) = BUFFER_SIZE
        BY <1>0, <1>b, BytesType DEF Free
      <3> QED BY <1>1, <1>5, <1>6, <3>1, <3>2 DEF Announced, Sent, Listed
    <2>2. CASE x \in Listed(h)'
      <3>1. ListedWindows(h)
        BY <1>3 DEF WindowStep
      <3>2. repl[h].pc # "track"
        BY <1>0 DEF OneWay
      <3> QED BY <1>1, <1>5, <1>6, <2>2, <3>1, <3>2 DEF ListedWindows, Sent
    <2> QED BY <2>1, <2>2 DEF Sent
  <1> QED BY <1>0, <1>1, <1>2, <1>4, <1>5, <1>6 DEF PeerSame

-----------------------------------------------------------------------------
(* The numbers that are acknowledged *)

\* The client's number stays, so that the acknowledgements still count the same bytes.
LEMMA ClientEarned ==
  ASSUME NoWrap, Moving, SInv', ClientStep, Transferring'
  PROVE  Earned'
  <1> DEFINE h == Client
  <1>0. /\ h \in Hosts /\ Server \in Hosts /\ Server # h /\ SInv /\ HInv /\ HInv' /\ Step(h) /\ OneWay /\ Earned
        /\ Peer(h) = Server /\ Peer(Server) = h
    BY HostSteps DEF Moving, SInv, CInv
  <1>1. PeerSame(h) /\ NumbersSet(h) /\ StateEarned(h) /\ Follows(state[h], state'[h])
    BY <1>0, StepFacts DEF Local
  <1>2. Wire(Server)' \subseteq Wire(Server)
    BY <1>0, StepSourced DEF HInv, Sourced, WireSourced
  <1>3. Connected(Server)' <=> Connected(Server)
    BY <1>0, <1>1 DEF Connected, PeerSame
  <1>4. CASE state[h] = "NONE"
    <2>1. ~Connected(Server)
      BY <1>0, <1>4 DEF HInv, Agreed
    <2>2. \A x \in Wire(Server) : "ACK" \notin x.flags
      BY <1>0, <1>4, NoAckYet
    <2>3. state'[h] # "ESTABLISHED"
      BY <1>1, <1>4 DEF Follows
    <2> QED BY <1>2, <1>3, <2>1, <2>2, <2>3 DEF Earned
  <1>5. CASE state[h] # "NONE"
    <2>1. snd'[h].ISS = snd[h].ISS /\ Acks(h) \subseteq Acks(h)'
      BY <1>0, <1>1, <1>5, AcksGrow DEF NumbersSet
    <2>2. state'[h] = "ESTABLISHED" => snd'[h].UNA \in Acks(h)
      <3>1. CASE state[h] = "ESTABLISHED"
        BY <1>0, <3>1, StepReceives DEF AckStep, Earned, OneWay
      <3>2. CASE state[h] = "SYN_SENT"
        BY <1>0, <1>1, <3>2 DEF StateEarned, Earned
      <3> QED BY <1>5, <3>1, <3>2 DEF Moving, Transferring
    <2>3. rcv'[Server].NXT = rcv[Server].NXT
      BY <1>0, <1>1 DEF PeerSame
    <2>4. Connected(Server)' => rcv'[Server].NXT \in Acks(h)'
      BY <1>0, <1>3, <2>1, <2>3 DEF Earned
    <2>5. \A x \in Wire(Server)' : "ACK" \in x.flags => x.ack \in Acks(h)'
      BY <1>0, <1>2, <2>1 DEF Earned
    <2> QED BY <2>1, <2>2, <2>4, <2>5 DEF Earned
  <1> QED BY <1>4, <1>5

\* rcv.NXT counts what the server has received, or goes back behind the client's FIN.
LEMMA ServerEarned ==
  ASSUME NoWrap, Moving, SInv', ServerStep
  PROVE  Earned'
  <1> DEFINE h == Server
             iss == snd[Client].ISS
  <1>0. /\ h \in Hosts /\ Client \in Hosts /\ Client # h /\ SInv /\ HInv /\ HInv' /\ Step(h) /\ Earned /\ CInv'
        /\ CInv /\ Peer(h) = Client /\ Peer(Client) = h
    BY HostSteps DEF Moving, SInv, CInv
  <1>1. PeerSame(h) /\ snd'[Client] = snd[Client] /\ state'[Client] = state[Client]
    BY <1>0, StepFacts DEF PeerSame
  <1>2. Acks(Client) \subseteq Acks(Client)'
    BY <1>0, <1>1, AcksGrow
  <1>n. iss \in Seqs /\ \A j \in 0..Len(Received(h)') : Plus(iss, 1 + j) \in Acks(Client)'
    BY <1>0, <1>1, SenderType DEF Acks
  <1>3. Connected(h)' => rcv'[h].NXT \in Acks(Client)'
    <2> SUFFICES ASSUME Connected(h)' PROVE rcv'[h].NXT \in Acks(Client)'
      OBVIOUS
    <2>i. rcv'[h].IRS = iss
      BY <1>0, <1>1 DEF HInv, Agreed
    <2>0. Len(Received(h)') \in Nat
      BY <1>0, ReceivedGrows
    <2>1. CASE ~Connected(h)
      <3>1. rcv'[h].NXT = Plus(iss, 1)
        BY <1>0, <2>1, <2>i, NewlyConnected DEF Opens
      <3> QED BY <1>n, <2>0, <3>1
    <2>2. CASE Connected(h)
      <3>1. ReceiverStep(h) /\ ~Opens(h)
        BY <1>0, <2>2, StepReceives, OpensSilent DEF Opens
      <3>2. CASE Waits(h) \/ KeepsEarly(h) \/ StartsWrite(h) \/ WritesPart(h)
        BY <1>0, <1>2, <2>2, <3>2 DEF Waits, KeepsEarly, StartsWrite, WritesPart, Earned
      <3>3. CASE WritesAll(h)
        <4>1. state[h] \in Taking
          BY <1>0, <3>3 DEF WritesAll, CInv, WritingInv
        <4>2. state'[h] \in Taking
          BY <1>0, <3>3, <4>1, StaysTaking DEF WritesAll
        <4>3. rcv'[h].NXT = Plus(rcv'[h].IRS, 1 + Taken(h)')
          BY <1>0, <4>2 DEF CInv, NxtInv
        <4>4. Taken(h)' \in 0..Len(Received(h)')
          BY <1>0, TakenType
        <4> QED BY <1>n, <2>i, <4>3, <4>4
      <3>4. CASE TakesFIN(h)
        <4>1. PICK x \in Wire(Client) : "FIN" \in x.flags /\ rcv'[h].NXT = Plus(x.seq, 1)
          BY <1>0, <3>4 DEF TakesFIN
        <4>2. x.seq = iss
          BY <4>1 DEF Moving, Opened, Sent
        <4> QED BY <1>n, <2>0, <4>1, <4>2
      <3> QED BY <3>1, <3>2, <3>3, <3>4 DEF ReceiverStep
    <2> QED BY <2>1, <2>2
  <1>4. ASSUME NEW x \in Wire(h)', "ACK" \in x.flags PROVE x.ack \in Acks(Client)'
    <2>1. x \in Wire(h) \/ x.ack = rcv'[h].NXT
      BY <1>0, <1>4, StepSourced DEF HInv, Sourced, WireSourced
    <2>2. Connected(h)'
      <3>1. x \in Sent(h)'
        BY <1>4 DEF Sent
      <3> QED BY <1>0, <1>4, <3>1 DEF HInv, SilentInv, Silent
    <2> QED BY <1>2, <1>3, <1>4, <2>1, <2>2, <1>0 DEF Earned
  <1>5. state'[Client] = "ESTABLISHED" => snd'[Client].UNA \in Acks(Client)'
    BY <1>0, <1>1, <1>2 DEF Earned
  <1> QED BY <1>3, <1>4, <1>5 DEF Earned

-----------------------------------------------------------------------------
(* The invariant, and ClosedAfterAll *)

\* While the file is transferred.
LEMMA StepTransfers ==
  ASSUME NoWrap, SegmentFits, SInv, SInv', OneWay, OneWay', OneSegment, TInv,
         ClientStep \/ ServerStep \/ CommandStep
  PROVE  TInv'
  <1> SUFFICES ASSUME Transferring' PROVE (Whole /\ Opened /\ Windows /\ Earned /\ Phase)'
    BY DEF TInv
  <1>1. Moving
    BY TransferringBack DEF TInv, Moving
  <1>2. CASE ClientStep
    <2>1. Phase' /\ (BeforeData' => BeforeData)
      BY <1>1, <1>2, ClientPhase
    <2>2. Opened'
      BY <1>1, <1>2, <2>1, ClientOpened
    <2> QED BY <1>1, <1>2, <2>1, <2>2, ClientWhole, ClientWindows, ClientEarned
  <1>3. CASE ServerStep
    <2>1. Phase' /\ (BeforeData' <=> BeforeData)
      BY <1>1, <1>3, ServerPhase
    <2> QED BY <1>1, <1>3, <2>1, ServerWhole, ServerOpened, ServerWindows, ServerEarned
  <1>4. CASE CommandStep
    <2>0. /\ UNCHANGED <<sockets, threads, written, failed, net>>
          /\ \A h \in Hosts : Received(h)' = Received(h) /\ Sent(h)' = Sent(h)
          /\ Client \in Hosts /\ Server \in Hosts /\ Peer(Client) = Server
      BY <1>4, CommandKeeps, HostSteps DEF CommandStep
    <2>1. /\ \A h : Wire(h)' = Wire(h) /\ Pending(h)' = Pending(h) /\ Connected(h)' = Connected(h)
          /\ Acks(Client)' = Acks(Client) /\ Complete' = Complete /\ BeforeData' = BeforeData
          /\ DataInFlight' = DataInFlight
      BY <2>0 DEF sockets, threads, Wire, Pending, Connected, Acks, Complete, BeforeData, DataInFlight
    <2>2. Whole' /\ Opened'
      BY <1>1, <2>0, <2>1 DEF Moving, Whole, Opened, sockets, threads
    <2>3. Windows'
      BY <1>1, <2>0, <2>1 DEF Moving, Windows, NoData, sockets, threads
    <2>4. Earned' /\ Phase'
      BY <1>1, <2>0, <2>1 DEF Moving, Earned, Phase, Written, sockets, threads
    <2> QED BY <2>2, <2>3, <2>4
  <1> QED BY <1>2, <1>3, <1>4

\* Once the file is complete, or the receiver has closed, it stays so.
LEMMA DoneStays ==
  ASSUME NoWrap, SInv, SInv', OneSegment, ClientStep \/ ServerStep \/ CommandStep
  PROVE  /\ Complete => Complete'
         /\ state[Client] \in {"CLOSE_WAIT", "LAST_ACK", "CLOSED"} =>
               state'[Client] \in {"CLOSE_WAIT", "LAST_ACK", "CLOSED"}
         /\ written[Client] = FileSize => written'[Client] = FileSize
  <1>0. Client \in Hosts /\ Server \in Hosts /\ Peer(Client) = Server /\ HInv
    BY HostSteps DEF SInv, CInv
  <1>1. CASE CommandStep
    BY <1>0, <1>1, CommandKeeps DEF CommandStep, sockets, Complete
  <1>2. CASE ClientStep \/ ServerStep
    <2>0. PICK h \in Hosts : Step(h)
      BY <1>0, <1>2, HostSteps
    <2>1. Follows(state[Client], state'[Client])
      BY <1>0, <2>0, StepFacts
    <2>2. /\ Len(Received(Server)) <= Len(Received(Server)') /\ Len(Received(Server)') \in Nat
          /\ Len(Received(Server)) \in Nat
      BY <1>0, <2>0, ReceivedGrows
    <2>3. written[Client] \in Nat /\ written'[Client] \in Nat /\ written[Client] <= written'[Client]
      BY <1>0, <2>0, StreamGrows
    <2>4. written'[Client] <= FileSize /\ Len(Received(Server)') <= written'[Client]
      BY <1>0 DEF SInv, Queue, Shape, Arrived, FileSize
    <2>5. FileSize \in Nat
      BY FileNumbers
    <2> QED BY <2>1, <2>2, <2>3, <2>4, <2>5 DEF Follows, Complete
  <1> QED BY <1>1, <1>2

\* The connection leaves alone a goroutine that is not in a VWrite.
LEMMA ReplIdle ==
  ASSUME HInv, repl[Client].pc = "idle",
         Handshake \/ Connection(Client) \/ sendRST(Client) \/ Fault(Client)
  PROVE  repl'[Client].pc = "idle"
  <1>1. CASE Handshake \/ sendRST(Client) \/ Fault(Client) \/ TimeWaitExpires(Client)
    BY <1>1 DEF Handshake, VConnectReturn, HandshakeTimeout, sendRST, Fault, TimeWaitExpires, threads
  <1>2. ~Sending(Client) /\ ~Probing(Client)
    BY DEF Sending, Probing, VWriteLoop, trySendData, startTimer, trackPacket, startProbing,
       sendZeroWindowProbe, probingEnds
  <1>3. CASE Retransmitting(Client)
    BY <1>3 DEF Retransmitting, retransmitPacket, relistPacket, nothingToRetransmit, giveUp,
       giveUpReturn, threads
  <1>4. CASE Receiving(Client)
    BY <1>4 DEF Receiving, HandlePacket, handleSYN, handleSYNACK, handleACK, handleEstablishedPacket,
       handleData, handleFIN, handleClosingACK, handleRST, ignore, rcvBufWrite, processInOrderData, threads
  <1> QED BY <1>1, <1>2, <1>3, <1>4 DEF Connection

\* The FIN of VSendFile: the list is empty, and so it is the receiver that has the file.
LEMMA ClosesComplete ==
  ASSUME NoWrap, SInv, OneSegment, TInv, SendFileInv, sf = "draining", Drained, VClose(Client)
  PROVE  Complete \/ state[Client] = "CLOSE_WAIT"
  <1>1. /\ written[Client] = FileSize /\ FileSize >= 1 /\ FileSize \in Nat
        /\ repl[Client].pc = "idle" /\ state[Client] \in Open
    BY FileNumbers DEF SendFileInv, VClose, AppIdle, sendFIN
  <1>2. SUFFICES ASSUME state[Client] = "ESTABLISHED" PROVE Complete
    BY <1>1 DEF Open
  <1>3. Phase
    BY <1>1, <1>2 DEF TInv, Transferring
  <1>4. ~DataInFlight
    BY DEF Drained, DataInFlight
  <1> QED BY <1>1, <1>3, <1>4 DEF Phase

\* The steps of sendFile and VSendFile, and of everything else.
LEMMA StepSendFile ==
  ASSUME NoWrap, SInv, SInv', OneSegment, TInv, SendFileInv, [FileNext]_fileVars
  PROVE  SendFileInv'
  <1>0. HInv /\ IInv /\ (ClientStep \/ ServerStep \/ CommandStep) /\ Client # Server
    BY FileSteps, HostSteps DEF SInv, CInv, HInv
  <1>d. /\ Complete => Complete'
        /\ state[Client] \in {"CLOSE_WAIT", "LAST_ACK", "CLOSED"} =>
              state'[Client] \in {"CLOSE_WAIT", "LAST_ACK", "CLOSED"}
        /\ written[Client] = FileSize => written'[Client] = FileSize
    BY <1>0, DoneStays
  \* sf stays, and the application goroutine with it if it is idle.
  <1>s. ASSUME sf' = sf, sf = "draining" => repl'[Client].pc = "idle" PROVE SendFileInv'
    BY <1>d, <1>s DEF SendFileInv
  <1>1. CASE sendFile
    BY <1>1 DEF sendFile, SendFileInv
  <1>2. CASE SendingFile
    <2>1. CASE sendFileConnected \/ VSendFileFails
      BY <2>1 DEF sendFileConnected, VSendFileFails, SendFileInv
    <2>2. CASE VSendFile
      BY <2>2 DEF VSendFile, NextChunk, SendFileInv
    <2>3. CASE VSendFileEOF
      <3>1. written[Client] = FileSize /\ repl[Client].pc = "idle" /\ repl' = repl /\ sf' = "draining"
        BY <2>3 DEF VSendFileEOF, NextChunk, AppIdle, vars, threads
      <3> QED BY <1>d, <3>1 DEF SendFileInv
    <2>4. CASE VSendFileClose
      <3>1. sf = "draining" /\ Drained /\ written[Client] = FileSize
        BY <2>4 DEF VSendFileClose, SendFileInv
      <3>2. CASE VClose(Client) /\ sf' = "closing"
        <4>1. Complete \/ state[Client] = "CLOSE_WAIT"
          BY <3>1, <3>2, ClosesComplete
        <4> QED BY <1>d, <3>1, <3>2, <4>1 DEF SendFileInv
      <3>3. CASE sf' = "error"
        BY <3>3 DEF SendFileInv
      <3> QED BY <2>4, <3>2, <3>3 DEF VSendFileClose
    <2>5. CASE VSendFileReturn
      BY <1>d, <2>5 DEF VSendFileReturn, SendFileInv
    <2> QED BY <1>2, <2>1, <2>2, <2>3, <2>4, <2>5 DEF SendingFile
  <1>p. ServerStep => repl'[Client] = repl[Client]
    BY <1>0, HostSteps, StepFacts DEF PeerSame
  <1>3. CASE ReceivingFile
    <2>1. sf' = sf
      BY <1>3 DEF ReceivingFile, receiveFile, VReceiveFileCheck, VReceiveFileRead, VReceiveFileWrite,
         VReceiveFileReadFails, VReceiveFileClose, VReceiveFileReturn
    <2>2. repl' = repl \/ ServerStep
      BY <1>3 DEF ReceivingFile, receiveFile, VReceiveFileCheck, VReceiveFileRead, VReceiveFileWrite,
         VReceiveFileReadFails, VReceiveFileClose, VReceiveFileReturn, VCloseFails, ServerStep, vars, threads
    <2> QED BY <1>p, <1>s, <2>1, <2>2 DEF SendFileInv
  <1>4. CASE UNCHANGED fileVars
    BY <1>4, <1>s DEF fileVars, files, vars, threads, SendFileInv
  <1>5. CASE UNCHANGED files /\ (Handshake \/ Connection(Client) \/ sendRST(Client) \/ Fault(Client))
    BY <1>0, <1>5, <1>s, ReplIdle DEF files, SendFileInv
  <1>6. CASE UNCHANGED files /\ (Connection(Server) \/ sendRST(Server) \/ Fault(Server))
    BY <1>6, <1>p, <1>s DEF files, ServerStep, SendFileInv
  <1> QED BY <1>1, <1>2, <1>3, <1>4, <1>5, <1>6, HostSteps DEF FileNext

\* Before sendFile has begun nothing is on the way.
LEMMA InitFile == ASSUME NoWrap PROVE FileInit => FInv
  <1> SUFFICES ASSUME FileInit PROVE FInv
    OBVIOUS
  <1>0. SInv /\ Init /\ sf = "start" /\ HInv /\ Client \in Hosts /\ Server \in Hosts /\ Peer(Client) = Server
    BY InitStream, HostSteps DEF FileInit, SInv, CInv
  <1>1. OneWay
    BY <1>0 DEF Init, OneWay, Idle, IfaceIdle
  <1>2. SendFileInv
    BY <1>0 DEF SendFileInv
  <1>3. /\ Wire(Client) = {} /\ Wire(Server) = {} /\ snd[Client].inFlight = {} /\ rtx[Client].pc = "idle"
        /\ Sent(Client) = {RtxIdle.pkt} /\ Sent(Server) = {RtxIdle.pkt}
    BY <1>0 DEF Init, Wire, Sent, Listed, RtxIdle, RtxAt, NewSND, Peer
  <1>4. RtxIdle.pkt.data = <<>> /\ RtxIdle.pkt.flags = {}
    BY DEF RtxIdle, RtxAt, Packet
  <1>5. Received(Server) = <<>> /\ rcv[Server].early = {} /\ iface[Server].pc = "idle"
    BY <1>0 DEF Init, Received, NewRCV, IfaceIdle
  <1>6. /\ rcv[Client].WND = BUFFER_SIZE /\ rcv[Server].WND = BUFFER_SIZE /\ state[Client] = "NONE"
        /\ state[Server] = "NONE" /\ written[Client] = 0 /\ repl[Client].pc = "idle"
    BY <1>0 DEF Init, NewRCV, Idle
  <1>7. Whole /\ Opened
    BY <1>3, <1>4, <1>5, <1>6, BytesType DEF Whole, Opened, Pending
  <1>8. Windows
    BY <1>3, <1>4, <1>5, <1>6 DEF Windows, NoData
  <1>9. Earned
    BY <1>0, <1>3, <1>6, HostSteps DEF Earned, Connected
  <1>10. Phase
    BY <1>6 DEF Phase
  <1> QED BY <1>0, <1>1, <1>2, <1>7, <1>8, <1>9, <1>10 DEF FInv, TInv

\* Every step keeps the invariant.
LEMMA NextFile ==
  ASSUME NoWrap, SegmentFits, FInv, [FileNext]_fileVars PROVE FInv'
  <1>1. SInv /\ OneWay /\ (ClientStep \/ ServerStep \/ CommandStep)
    BY FileSteps DEF FInv, SInv, CInv, HInv
  <1>2. SInv'
    <2>1. ClientStep \/ ServerStep => Next
      BY HostSteps, StepNext
    <2> QED BY <1>1, <2>1, CommandKeeps, NextStream
  <1>3. OneWay'
    BY <1>1, StepOneWay
  <1>4. OneSegment => TInv' /\ SendFileInv'
    BY <1>1, <1>2, <1>3, StepTransfers, StepSendFile DEF FInv
  <1> QED BY <1>2, <1>3, <1>4 DEF FInv

\* An empty file is always complete; one of a segment is when VSendFile closes.
LEMMA FileClosed == ASSUME NoWrap, FInv PROVE ClosedAfterAll
  <1>0. Client \in Hosts /\ Server \in Hosts /\ Peer(Client) = Server /\ SInv
    BY HostSteps DEF FInv
  <1>1. FileSize \in Nat /\ MAX_TCP_PAYLOAD \in Nat
    BY <1>0, ConstantsAssumption DEF FileSize
  <1>2. CASE OneSegment
    BY <1>2 DEF FInv, SendFileInv, ClosedAfterAll, Complete
  <1>3. CASE FileSize = 0
    <2>1. Len(Received(Server)) <= written[Client] /\ written[Client] <= FileSize
      BY <1>0 DEF SInv, Arrived, Queue, Shape, FileSize
    <2>2. Received(Server) \in Bytes /\ written[Client] \in Nat
      BY <1>0, SenderType, Owned, HostType, Join DEF Received
    <2>3. Len(Received(Server)) \in Nat
      BY <2>2, BytesType
    <2> QED BY <1>3, <2>1, <2>2, <2>3 DEF ClosedAfterAll
  <1> QED BY <1>1, <1>2, <1>3 DEF ClosedAfterAll, OneSegment

\* The argument of this module: what FileSpec keeps.
LEMMA FileInvariant == ASSUME NoWrap, SegmentFits PROVE FileSpec => []FInv
  BY InitFile, NextFile, PTL DEF FileSpec

\* ClosedAfterAll: VSendFile sends its FIN only when the receiver has the whole file,
\* if that is one segment, unless the receiver gave up or reset the connection.
THEOREM FileReceived == ASSUME NoWrap, SegmentFits PROVE FileSpec => []ClosedAfterAll
  BY FileInvariant, FileClosed, PTL
=============================================================================
