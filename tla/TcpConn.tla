------------------------------- MODULE TcpConn -------------------------------
(***************************************************************************)
(* One TCP connection of pkg/tcpstack, both ends.  Client opens it with    *)
(* VConnect, Server accepts it on a listening port.  Each end runs three   *)
(* goroutines that share the socket without a common lock:                 *)
(*                                                                         *)
(*   repl   the application: VWrite, VRead, VClose, sendRST                *)
(*   iface  the interface goroutine: HandlePacket and its handlers         *)
(*   rtx    manageRetransmissions, woken by the RTO timer                  *)
(*                                                                         *)
(* A goroutine runs without interruption between two points where another  *)
(* one can see or change what it works on; each such stretch is an action. *)
(* Clocks are left out: a timer is running or not, and Elapses says when   *)
(* a running one may expire.                                               *)
(*                                                                         *)
(* The byte at position i of the stream a host writes is the number i.     *)
(* Sequence numbers and windows keep their width (SeqMod for 2^32, WndMod  *)
(* for 2^16) and are compared as the code compares them.                   *)
(***************************************************************************)
EXTENDS Integers, Sequences, FiniteSets

CONSTANTS
    Client, Server,      \* the two hosts
    BUFFER_SIZE,         \* capacity of snd.buf and of rcv.buf
    MAX_TCP_PAYLOAD,     \* most bytes in one segment
    RTO_MAX_RETRIES,
    ZWP_RETRIES,
    SeqMod, WndMod,      \* 2^32 and 2^16
    ISNs,                \* ISNs[h]: what generateInitialSeqNum may return at h
    \* Bounds on what the environment does
    WriteSizes,          \* WriteSizes[h]: sizes of the VWrites of h
    MaxBytes,            \* MaxBytes[h]: most bytes h ever writes
    ReadSizes,           \* ReadSizes[h]: buffer sizes of the VReads of h
    Closers, Resetters,  \* hosts whose application may close, or send a RST
    MaxFaults            \* segments lost, duplicated, overtaken, or delayed for
                         \* longer than a timer

Hosts == {Client, Server}
Peer(h) == IF h = Client THEN Server ELSE Client

ASSUME ConstantsAssumption ==
    /\ Client # Server
    /\ BUFFER_SIZE \in Nat \ {0} /\ MAX_TCP_PAYLOAD \in Nat \ {0}
    /\ RTO_MAX_RETRIES \in Nat /\ ZWP_RETRIES \in Nat
    /\ WndMod \in Nat /\ BUFFER_SIZE < WndMod
    /\ SeqMod \in Nat /\ WndMod <= SeqMod
    /\ ISNs \in [Hosts -> SUBSET (0..(SeqMod - 1))]
    /\ WriteSizes \in [Hosts -> SUBSET (Nat \ {0})] /\ MaxBytes \in [Hosts -> Nat]
    /\ ReadSizes \in [Hosts -> SUBSET (Nat \ {0})]
    /\ Closers \subseteq Hosts /\ Resetters \subseteq Hosts
    /\ MaxFaults \in Nat

VARIABLES
    state,      \* state[h]: State of the table entry of the connection, NONE before it exists
    SeqNum,     \* SeqNum[h]: NormalSocket.SeqNum
    snd,        \* snd[h]: SND
    rcv,        \* rcv[h]: RCV
    repl,       \* repl[h]: where the application goroutine is
    iface,      \* iface[h]: where the interface goroutine is
    rtx,        \* rtx[h]: where manageRetransmissions is
    conn,       \* the goroutine of the client's VConnect, and establishedChan
    acceptQueue,\* connections waiting in the listener's acceptQueue
    accepted,   \* VAccepts that returned
    net,        \* net[h]: the segments in transit to h
    faults,     \* faults of the network so far
    resets,     \* hosts that have sent a RST
    crashed,    \* hosts whose process has panicked
    failed,     \* hosts a VWrite of which has returned an error after taking bytes
    written,    \* written[h]: bytes h has passed to VWrite
    delivered   \* delivered[h]: bytes VRead has returned to h

sockets == <<state, SeqNum, snd, rcv>>
threads == <<repl, iface, rtx, conn>>
history == <<faults, resets, crashed, failed, written, delivered>>
accept  == <<acceptQueue, accepted>>
vars == <<sockets, threads, accept, net, history>>

-----------------------------------------------------------------------------
(* Values *)

States == {"NONE", "SYN_SENT", "SYN_RECEIVED", "ESTABLISHED", "FIN_WAIT_1", "FIN_WAIT_2",
           "TIME_WAIT", "CLOSE_WAIT", "LAST_ACK", "CLOSED"}
Flags == {"FIN", "SYN", "RST", "ACK"}
Seqs == 0..(SeqMod - 1)
Wnds == 0..(WndMod - 1)
Bytes == Seq(Nat)

\* Mutant: sequence numbers that do not wrap.
Plus_NoWrap(a, n) == a + n
Plus(a, n) == (a + n) % SeqMod             \* uint32 addition
Smaller(a, b) == IF a < b THEN a ELSE b    \* min

Segments == [flags : SUBSET Flags, seq : Seqs, ack : Seqs, wnd : Wnds, data : Bytes]
Segment(f, s, a, w, d) == [flags |-> f, seq |-> s, ack |-> a, wnd |-> w, data |-> d]

\* An InFlightPacket.  inFlight is the set of the list's elements and `at' the
\* place of each in the list.
Packets == [seq : Seqs, len : Nat, flags : SUBSET Flags, wnd : Wnds, data : Bytes, at : Nat]
Packet(f, s, l, w, d) == [seq |-> s, len |-> l, flags |-> f, wnd |-> w, data |-> d, at |-> 0]

SND == [buf : Bytes, ISS : Seqs, UNA : Seqs, NXT : Seqs, WND : Wnds,
        inFlight : SUBSET Packets, place : Nat, retransmissions : Nat, timer : BOOLEAN]
NewSND(iss, wnd) ==
    [buf |-> <<>>, ISS |-> iss, UNA |-> iss, NXT |-> Plus(iss, 1), WND |-> wnd,
     inFlight |-> {}, place |-> 0, retransmissions |-> 0, timer |-> FALSE]

Early == [seq : Seqs, data : Bytes]
RCV == [buf : Bytes, IRS : Seqs, NXT : Seqs, WND : Wnds, early : SUBSET Early]
NewRCV(irs, nxt) == [buf |-> <<>>, IRS |-> irs, NXT |-> nxt, WND |-> BUFFER_SIZE, early |-> {}]

\* Where a goroutine is between two of its actions, and its local variables
REPL == [pc : {"idle", "read", "send", "arm", "track", "zwp", "close"},
         data : Bytes, seg : Bytes, n : Nat]
IFACE == [pc : {"idle", "write"}, seg : Segments, rest : Bytes, len : Nat, closing : BOOLEAN]
RTX == [pc : {"idle", "relist", "close"}, pkt : Packets]

Idle == [pc |-> "idle", data |-> <<>>, seg |-> <<>>, n |-> 0]
NoSegment == Segment({}, 0, 0, 0, <<>>)
IfaceIdle == [pc |-> "idle", seg |-> NoSegment, rest |-> <<>>, len |-> 0, closing |-> FALSE]
RtxAt(pc, p) == [pc |-> pc, pkt |-> p]
RtxIdle == RtxAt("idle", Packet({}, 0, 0, 0, <<>>))

Free(buf) == BUFFER_SIZE - Len(buf)        \* ringbuffer.Free

\* append to inFlightPackets.packets
Tracked(s, p) ==
    [s EXCEPT !.inFlight = @ \cup {[p EXCEPT !.at = s.place + 1]}, !.place = @ + 1]

\* Segments that carry the socket's current numbers, as most handlers build them
AckOf(s, r, wnd, data) == Segment({"ACK"}, s.NXT, r.NXT, wnd, data)

-----------------------------------------------------------------------------
(* Goroutines and the network *)

Send(h, seg) == net' = [net EXCEPT ![Peer(h)] = Append(@, seg)]

\* The interface goroutine of h takes the next segment and sends `out'.
Exchange(h, out) == net' = [net EXCEPT ![h] = Tail(@), ![Peer(h)] = @ \o out]

\* A goroutine of h can take a step that waits for nothing outside the host.  The
\* start of a VWrite is left out: it may come just when a timer runs out.
CanStep(h) ==
    /\ h \notin crashed
    /\ \/ iface[h].pc = "idle" /\ net[h] # <<>>
       \/ iface[h].pc = "write" /\ Free(rcv[h].buf) > 0
       \/ repl[h].pc \in {"arm", "track", "close"}
       \/ rtx[h].pc # "idle"

\* The goroutines have done all they can for now.
Quiet == \A h \in Hosts : ~CanStep(h)

\* A timer or a sleep runs out.  They are seconds long, so that happens once
\* every segment has been handled, unless the network delays one for that long.
Elapses ==
    \/ Quiet /\ UNCHANGED faults
    \/ ~Quiet /\ faults < MaxFaults /\ faults' = faults + 1

\* The links are UDP sockets: they lose, duplicate and reorder segments.
Drop(h, i) == net' = [net EXCEPT ![h] = SubSeq(@, 1, i - 1) \o SubSeq(@, i + 1, Len(@))]
Duplicate(h, i) == net' = [net EXCEPT ![h] = Append(@, @[i])]
Overtake(h, i) ==
    /\ i > 1
    /\ net' = [net EXCEPT ![h] = [@ EXCEPT ![i] = net[h][i - 1], ![i - 1] = net[h][i]]]

Fault(h) ==
    /\ faults < MaxFaults
    /\ faults' = faults + 1
    /\ \E i \in DOMAIN net[h] : Drop(h, i) \/ Duplicate(h, i) \/ Overtake(h, i)
    /\ UNCHANGED <<sockets, threads, accept, resets, crashed, failed, written, delivered>>

-----------------------------------------------------------------------------
(* Opening: VConnect, VAccept and the handshake handlers *)

VConnect ==
    /\ state[Client] = "NONE"
    /\ conn.pc = "idle"
    /\ \E isn \in ISNs[Client] :
          /\ SeqNum' = [SeqNum EXCEPT ![Client] = isn]
          /\ snd' = [snd EXCEPT ![Client] =
                       [Tracked(NewSND(isn, BUFFER_SIZE), Packet({"SYN"}, isn, 0, 0, <<>>))
                          EXCEPT !.timer = TRUE]]
          /\ rcv' = [rcv EXCEPT ![Client] = NewRCV(0, 0)]
          /\ Send(Client, Segment({"SYN"}, isn, 0, BUFFER_SIZE, <<>>))
    /\ state' = [state EXCEPT ![Client] = "SYN_SENT"]
    /\ conn' = [conn EXCEPT !.pc = "waiting"]
    /\ UNCHANGED <<repl, iface, rtx, accept, history>>

\* select: establishedChan is closed
VConnectReturn ==
    /\ conn.pc = "waiting" /\ conn.established
    /\ Client \notin crashed
    /\ conn' = [conn EXCEPT !.pc = "ok"]
    /\ UNCHANGED <<sockets, repl, iface, rtx, accept, net, history>>

\* select: HANDSHAKE_TIMEOUT.  VDeleteTableEntry removes the entry only if it is
\* still the one VConnect inserted, that is in SYN_SENT; the RTO timer goes on.
HandshakeTimeout ==
    /\ conn.pc = "waiting" /\ Elapses
    /\ Client \notin crashed
    /\ conn' = [conn EXCEPT !.pc = "timeout"]
    /\ state' = [state EXCEPT ![Client] = IF @ = "SYN_SENT" THEN "CLOSED" ELSE @]
    /\ UNCHANGED <<SeqNum, snd, rcv, repl, iface, rtx, accept, net, resets, crashed, failed, written, delivered>>

VAccept ==
    /\ acceptQueue > 0
    /\ Server \notin crashed
    /\ acceptQueue' = acceptQueue - 1
    /\ accepted' = accepted + 1
    /\ UNCHANGED <<sockets, threads, net, history>>

\* h takes a segment off the wire and parses it.
Receives(h, seg) ==
    /\ h \notin crashed
    /\ iface[h].pc = "idle"
    /\ net[h] # <<>> /\ seg = Head(net[h])

\* A SYN for the listening port, which has no entry for this peer yet.
handleSYN(seg) ==
    /\ Receives(Server, seg)
    /\ state[Server] = "NONE"
    /\ "SYN" \in seg.flags
    /\ \E isn \in ISNs[Server] :
          LET r == NewRCV(seg.seq, Plus(seg.seq, 1))
              synAck == {"SYN", "ACK"} IN
          /\ SeqNum' = [SeqNum EXCEPT ![Server] = isn]
          /\ snd' = [snd EXCEPT ![Server] =
                       [Tracked(NewSND(isn, seg.wnd), Packet(synAck, isn, 0, r.WND, <<>>))
                          EXCEPT !.timer = TRUE]]
          /\ rcv' = [rcv EXCEPT ![Server] = r]
          /\ Exchange(Server, <<Segment(synAck, isn, r.NXT, r.WND, <<>>)>>)
    /\ state' = [state EXCEPT ![Server] = "SYN_RECEIVED"]
    /\ UNCHANGED <<threads, accept, history>>

handleSYNACK(h, seg) ==
    /\ Receives(h, seg)
    /\ state[h] = "SYN_SENT"
    /\ {"SYN", "ACK"} \subseteq seg.flags
    /\ LET r == [rcv[h] EXCEPT !.IRS = seg.seq, !.NXT = Plus(seg.seq, 1)]
           s == [snd[h] EXCEPT !.UNA = seg.ack, !.NXT = seg.ack, !.WND = seg.wnd,
                               !.timer = FALSE, !.inFlight = {}, !.place = 0] IN
       /\ rcv' = [rcv EXCEPT ![h] = r]
       /\ snd' = [snd EXCEPT ![h] = s]
       /\ Exchange(h, <<AckOf(s, r, r.WND, <<>>)>>)
    /\ state' = [state EXCEPT ![h] = "ESTABLISHED"]
    /\ conn' = [conn EXCEPT !.established = TRUE]
    /\ UNCHANGED <<SeqNum, repl, iface, rtx, accept, history>>

\* cleanUpInFlightPackets: every packet removed restarts the timer.
cleanUpInFlightPackets(s, ack) ==
    LET rest == {p \in s.inFlight : Plus(p.seq, p.len) > ack} IN
    [s EXCEPT !.inFlight = rest,
              !.place = IF rest = {} THEN 0 ELSE @,
              !.timer = @ \/ rest # s.inFlight]

\* Mutant: the handshake is completed by any segment.
handleACK_AnySegment(h, seg) ==
    /\ Receives(h, seg)
    /\ state[h] = "SYN_RECEIVED" /\ "RST" \notin seg.flags
    /\ state' = [state EXCEPT ![h] = "ESTABLISHED"]
    /\ acceptQueue' = acceptQueue + 1
    /\ Exchange(h, <<>>)
    /\ UNCHANGED <<SeqNum, snd, rcv, threads, accepted, history>>

\* Mutant: a repeated ACK puts the connection into the accept queue again.
handleACK_Again(h, seg) ==
    /\ Receives(h, seg)
    /\ state[h] \in {"SYN_RECEIVED", "ESTABLISHED"}
    /\ "ACK" \in seg.flags /\ "RST" \notin seg.flags
    /\ state' = [state EXCEPT ![h] = "ESTABLISHED"]
    /\ acceptQueue' = acceptQueue + 1
    /\ Exchange(h, <<>>)
    /\ UNCHANGED <<SeqNum, snd, rcv, threads, accepted, history>>

\* Any ACK completes the handshake; its payload is not looked at.
handleACK(h, seg) ==
    /\ Receives(h, seg)
    /\ state[h] = "SYN_RECEIVED"
    /\ "ACK" \in seg.flags /\ "RST" \notin seg.flags
    /\ state' = [state EXCEPT ![h] = "ESTABLISHED"]
    /\ SeqNum' = [SeqNum EXCEPT ![h] = Plus(@, 1)]
    /\ acceptQueue' = acceptQueue + 1
    /\ LET s == cleanUpInFlightPackets(snd[h], seg.ack) IN
       snd' = [snd EXCEPT ![h] = [s EXCEPT !.timer = s.inFlight # {}]]
    /\ Exchange(h, <<>>)
    /\ UNCHANGED <<rcv, threads, accepted, history>>

-----------------------------------------------------------------------------
(* Established: handleEstablishedPacket, handleData, processInOrderData *)

\* Mutant: an ACK acknowledges everything sent so far.
processACK_All(s, seg) ==
    IF "ACK" \in seg.flags /\ s.inFlight # {} /\ seg.ack > s.UNA
    THEN [s EXCEPT !.UNA = s.NXT, !.inFlight = {}, !.timer = FALSE, !.retransmissions = 0]
    ELSE s

\* Step 2 of handleEstablishedPacket
processACK(s, seg) ==
    IF "ACK" \in seg.flags /\ s.inFlight # {} /\ seg.ack > s.UNA
    THEN LET c == cleanUpInFlightPackets([s EXCEPT !.UNA = seg.ack], seg.ack) IN
         [c EXCEPT !.timer = c.inFlight # {}, !.retransmissions = 0]
    ELSE s

\* handleClosingACK: what it does to the socket and to the state
ClosingSND(s, seg) == [cleanUpInFlightPackets(s, seg.ack) EXCEPT !.timer = FALSE]
\* Mutant: the ACK of the FIN ends the connection.
ClosingState_NoWait(st) == CASE st = "FIN_WAIT_1" -> "TIME_WAIT"
                             [] st = "LAST_ACK" -> "CLOSED"
                             [] OTHER -> st

ClosingState(st) == CASE st = "FIN_WAIT_1" -> "FIN_WAIT_2"
                      [] st = "LAST_ACK" -> "CLOSED"
                      [] OTHER -> st

FinWait == {"FIN_WAIT_1", "FIN_WAIT_2"}

\* Mutant: rcv.NXT is computed from the segment just handled.
AfterData_NextOfSegment(h, s, r, seg, closing) ==
    /\ snd' = [snd EXCEPT ![h] = processACK(s, seg)]
    /\ rcv' = [rcv EXCEPT ![h] = [r EXCEPT !.NXT = Plus(seg.seq, Len(seg.data))]]
    /\ UNCHANGED state

\* Step 2 of handleEstablishedPacket and, in the FIN_WAIT states, the
\* handleClosingACK that HandlePacket calls after it.
AfterData(h, s, r, seg, closing) ==
    /\ snd' = [snd EXCEPT ![h] = IF closing THEN ClosingSND(processACK(s, seg), seg)
                                            ELSE processACK(s, seg)]
    /\ rcv' = [rcv EXCEPT ![h] = IF closing THEN [r EXCEPT !.WND = seg.wnd] ELSE r]
    /\ state' = [state EXCEPT ![h] = IF closing THEN ClosingState(@) ELSE @]

\* No payload, or a payload that is not the next one expected: it is kept in
\* earlyData and answered with a duplicate ACK.
handleEstablishedPacket(h, seg) ==
    /\ Receives(h, seg)
    /\ "RST" \notin seg.flags
    /\ \/ state[h] = "ESTABLISHED" /\ ("ACK" \in seg.flags \/ seg.data # <<>>)
       \/ state[h] \in FinWait /\ seg.data # <<>>
    /\ seg.data = <<>> \/ seg.seq # rcv[h].NXT
    /\ LET s == [snd[h] EXCEPT !.WND = seg.wnd]
           r == IF seg.data = <<>> THEN rcv[h]
                ELSE [rcv[h] EXCEPT !.early = @ \cup {[seq |-> seg.seq, data |-> seg.data]}] IN
       /\ AfterData(h, s, r, seg, state[h] \in FinWait /\ "ACK" \in seg.flags)
       /\ Exchange(h, IF seg.data = <<>> THEN <<>> ELSE <<AckOf(s, r, r.WND, <<>>)>>)
    /\ UNCHANGED <<SeqNum, threads, accept, history>>

\* Mutant: every payload is taken for the next one.
handleData_AnySeq(h, seg) ==
    /\ Receives(h, seg)
    /\ "RST" \notin seg.flags
    /\ state[h] \in FinWait \cup {"ESTABLISHED"}
    /\ seg.data # <<>>
    /\ iface' = [iface EXCEPT ![h] =
                   [pc |-> "write", seg |-> seg, rest |-> seg.data, len |-> Len(seg.data),
                    closing |-> FALSE]]
    /\ Exchange(h, <<>>)
    /\ UNCHANGED <<sockets, repl, rtx, conn, accept, history>>

\* The next payload expected: rcv.buf.Write blocks while the buffer is full.
handleData(h, seg) ==
    /\ Receives(h, seg)
    /\ "RST" \notin seg.flags
    /\ state[h] \in FinWait \cup {"ESTABLISHED"}
    /\ seg.data # <<>> /\ seg.seq = rcv[h].NXT
    /\ snd' = [snd EXCEPT ![h].WND = seg.wnd]
    /\ iface' = [iface EXCEPT ![h] =
                   [pc |-> "write", seg |-> seg, rest |-> seg.data, len |-> Len(seg.data),
                    closing |-> state[h] \in FinWait /\ "ACK" \in seg.flags]]
    /\ Exchange(h, <<>>)
    /\ UNCHANGED <<state, SeqNum, rcv, repl, rtx, conn, accept, history>>

\* Mutant: Write does not wait for room.
rcvBufWrite_All(h) ==
    /\ h \notin crashed
    /\ iface[h].pc = "write" /\ Len(iface[h].rest) > Free(rcv[h].buf)
    /\ rcv' = [rcv EXCEPT ![h].buf = @ \o iface[h].rest]
    /\ iface' = [iface EXCEPT ![h].rest = <<>>]
    /\ UNCHANGED <<state, SeqNum, snd, repl, rtx, conn, accept, net, history>>

\* The blocked Write makes progress: as many bytes as there is room for.
rcvBufWrite(h) ==
    LET rest == iface[h].rest
        free == Free(rcv[h].buf) IN
    /\ h \notin crashed
    /\ iface[h].pc = "write" /\ free > 0 /\ Len(rest) > free
    /\ rcv' = [rcv EXCEPT ![h].buf = @ \o SubSeq(rest, 1, free)]
    /\ iface' = [iface EXCEPT ![h].rest = SubSeq(rest, free + 1, Len(rest))]
    /\ UNCHANGED <<state, SeqNum, snd, repl, rtx, conn, accept, net, history>>

\* Write has returned: advance rcv.NXT; go on with the early data that is next
\* now (findNextSequence, removePacket), or acknowledge and look at the ACK.
processInOrderData(h) ==
    LET t == iface[h]
        buf == rcv[h].buf \o t.rest
        nxt == Plus(rcv[h].NXT, t.len)
        next == {e \in rcv[h].early : e.seq = nxt} IN
    /\ h \notin crashed
    /\ t.pc = "write" /\ Len(t.rest) <= Free(rcv[h].buf)
    /\ \/ \E e \in next :
             /\ rcv' = [rcv EXCEPT ![h] = [rcv[h] EXCEPT !.buf = buf, !.NXT = nxt, !.early = @ \ {e}]]
             /\ iface' = [iface EXCEPT ![h] = [@ EXCEPT !.rest = e.data, !.len = Len(e.data)]]
             /\ UNCHANGED <<state, snd, net>>
       \/ /\ next = {}
          /\ LET r == [rcv[h] EXCEPT !.buf = buf, !.NXT = nxt, !.WND = Free(buf)] IN
             /\ AfterData(h, snd[h], r, t.seg, t.closing)
             /\ Send(h, AckOf(snd[h], r, r.WND, <<>>))
          /\ iface' = [iface EXCEPT ![h] = IfaceIdle]
    /\ UNCHANGED <<SeqNum, repl, rtx, conn, accept, history>>

-----------------------------------------------------------------------------
(* Teardown handlers *)

\* In TIME_WAIT the FIN is acknowledged again.
handleFIN(h, seg) ==
    /\ Receives(h, seg)
    /\ "FIN" \in seg.flags /\ "RST" \notin seg.flags
    /\ state[h] \in {"ESTABLISHED", "FIN_WAIT_2", "TIME_WAIT"}
    /\ LET r == [rcv[h] EXCEPT !.NXT = Plus(seg.seq, 1), !.WND = seg.wnd] IN
       /\ rcv' = [rcv EXCEPT ![h] = r]
       /\ Exchange(h, <<AckOf(snd[h], r, r.WND, <<>>)>>)
    /\ snd' = [snd EXCEPT ![h] = cleanUpInFlightPackets(@, seg.ack)]
    /\ state' = [state EXCEPT ![h] = IF @ = "ESTABLISHED" THEN "CLOSE_WAIT" ELSE "TIME_WAIT"]
    /\ UNCHANGED <<SeqNum, threads, accept, history>>

\* Any ACK without a payload in a closing state.
handleClosingACK(h, seg) ==
    /\ Receives(h, seg)
    /\ "ACK" \in seg.flags /\ "RST" \notin seg.flags
    /\ \/ state[h] \in FinWait /\ seg.data = <<>>
       \/ state[h] \in {"TIME_WAIT", "LAST_ACK"}
    /\ snd' = [snd EXCEPT ![h] = ClosingSND(@, seg)]
    /\ rcv' = [rcv EXCEPT ![h].WND = seg.wnd]
    /\ state' = [state EXCEPT ![h] = ClosingState(@)]
    /\ Exchange(h, <<>>)
    /\ UNCHANGED <<SeqNum, threads, accept, history>>

\* The entry is deleted; the RTO timer is left running.
handleRST(h, seg) ==
    /\ Receives(h, seg)
    /\ "RST" \in seg.flags
    /\ state[h] \notin {"NONE", "CLOSED"}
    /\ state' = [state EXCEPT ![h] = "CLOSED"]
    /\ Exchange(h, <<>>)
    /\ UNCHANGED <<SeqNum, snd, rcv, threads, accept, history>>

\* The flags of which HandlePacket looks at one in each state
Wanted(st) == CASE st = "NONE" -> {"SYN"}
                [] st \in {"SYN_RECEIVED", "FIN_WAIT_1", "LAST_ACK"} -> {"ACK", "RST"}
                [] st \in {"ESTABLISHED", "FIN_WAIT_2", "TIME_WAIT"} -> {"ACK", "FIN", "RST"}
                [] OTHER -> {"RST"}

\* Everything else is dropped: no entry, or nothing the state looks at.
\* (A SYN that would open a second connection is out of scope.)
ignore(h, seg) ==
    /\ Receives(h, seg)
    /\ \/ state[h] = "CLOSED"
       \/ state[h] = "NONE" /\ (h = Client \/ "SYN" \notin seg.flags)
       \/ state[h] = "SYN_SENT" /\ ~({"SYN", "ACK"} \subseteq seg.flags) /\ "RST" \notin seg.flags
       \/ /\ state[h] \notin {"CLOSED", "NONE", "SYN_SENT"}
          /\ seg.flags \cap Wanted(state[h]) = {}
          /\ ~(seg.data # <<>> /\ state[h] \in FinWait \cup {"ESTABLISHED"})
    /\ Exchange(h, <<>>)
    /\ UNCHANGED <<sockets, threads, accept, history>>

HandlePacket(h) ==
    LET seg == Head(net[h]) IN
    /\ net[h] # <<>>
    /\ \/ h = Server /\ handleSYN(seg)
       \/ handleSYNACK(h, seg)
       \/ handleACK(h, seg)
       \/ handleEstablishedPacket(h, seg)
       \/ handleData(h, seg)
       \/ handleFIN(h, seg)
       \/ handleClosingACK(h, seg)
       \/ handleRST(h, seg)
       \/ ignore(h, seg)

\* The goroutine started by handleFIN: time.Sleep(2 * MSL), then delete the entry.
TimeWaitExpires(h) ==
    /\ h \notin crashed
    /\ state[h] = "TIME_WAIT" /\ Elapses
    /\ state' = [state EXCEPT ![h] = "CLOSED"]
    /\ UNCHANGED <<SeqNum, snd, rcv, threads, accept, net, resets, crashed, failed, written, delivered>>

-----------------------------------------------------------------------------
(* The application: VWrite, VRead, VClose, sendRST *)

AppIdle(h) == h \notin crashed /\ repl[h].pc = "idle"
Open == {"ESTABLISHED", "CLOSE_WAIT"}     \* the states VWrite and VClose accept

\* snd.buf.TryWrite(data): as many bytes as fit; the others wait in repl.data.
TryWrite(h, data) ==
    LET n == Smaller(Len(data), Free(snd[h].buf)) IN
    /\ snd' = [snd EXCEPT ![h].buf = @ \o SubSeq(data, 1, n)]
    /\ repl' = [repl EXCEPT ![h] = [Idle EXCEPT !.pc = "send", !.data = SubSeq(data, n + 1, Len(data))]]

VWrite(h) ==
    /\ AppIdle(h)
    /\ state[h] \in Open
    /\ \E n \in WriteSizes[h] :
          /\ written[h] + n <= MaxBytes[h]
          /\ written' = [written EXCEPT ![h] = @ + n]
          /\ TryWrite(h, [k \in 1..n |-> written[h] + k])
    /\ UNCHANGED <<state, SeqNum, rcv, iface, rtx, conn, accept, net, faults, resets, crashed, failed, delivered>>

\* trySendData has emptied snd.buf: write the next part of the data, or return.
VWriteLoop(h) ==
    /\ h \notin crashed
    /\ repl[h].pc = "send" /\ snd[h].buf = <<>>
    /\ \/ repl[h].data # <<>> /\ TryWrite(h, repl[h].data)
       \/ repl[h].data = <<>> /\ repl' = [repl EXCEPT ![h] = Idle] /\ UNCHANGED snd
    /\ UNCHANGED <<state, SeqNum, rcv, iface, rtx, conn, accept, net, history>>

\* snd.WND - uint16(snd.NXT - snd.UNA), in 16 bits
freeWindowSpace(s) == (s.WND - ((s.NXT - s.UNA) % SeqMod)) % WndMod

\* One round of trySendData up to the send; it spins while the window has no room.
trySendData(h) ==
    LET s == snd[h]
        n == Smaller(Smaller(freeWindowSpace(s), MAX_TCP_PAYLOAD), Len(s.buf))
        data == SubSeq(s.buf, 1, n) IN
    /\ h \notin crashed
    /\ repl[h].pc = "send" /\ s.buf # <<>>
    /\ s.WND > 0 /\ freeWindowSpace(s) > 0
    /\ snd' = [snd EXCEPT ![h].buf = SubSeq(@, n + 1, Len(@))]
    /\ Send(h, AckOf(s, rcv[h], Free(rcv[h].buf), data))
    /\ repl' = [repl EXCEPT ![h] = [@ EXCEPT !.pc = "arm", !.seg = data]]
    /\ UNCHANGED <<state, SeqNum, rcv, iface, rtx, conn, accept, history>>

\* Mutant: the timer is not started.
startTimer_Not(h) ==
    /\ h \notin crashed
    /\ repl[h].pc = "arm"
    /\ repl' = [repl EXCEPT ![h].pc = "track"]
    /\ UNCHANGED <<sockets, iface, rtx, conn, accept, net, history>>

\* ... the check that starts the timer, which does not hold the list's lock
startTimer(h) ==
    /\ h \notin crashed
    /\ repl[h].pc = "arm"
    /\ snd' = [snd EXCEPT ![h].timer = @ \/ snd[h].inFlight = {}]
    /\ repl' = [repl EXCEPT ![h].pc = "track"]
    /\ UNCHANGED <<state, SeqNum, rcv, iface, rtx, conn, accept, net, history>>

\* ... and the append to inFlightPackets, with the update of snd.NXT
trackPacket(h) ==
    LET s == snd[h]
        data == repl[h].seg IN
    /\ h \notin crashed
    /\ repl[h].pc = "track"
    /\ snd' = [snd EXCEPT ![h] =
                 [Tracked(s, Packet({"ACK"}, s.NXT, Len(data), 0, data))
                    EXCEPT !.NXT = Plus(s.NXT, Len(data))]]
    /\ repl' = [repl EXCEPT ![h] = [@ EXCEPT !.pc = "send", !.seg = <<>>]]
    /\ UNCHANGED <<state, SeqNum, rcv, iface, rtx, conn, accept, net, history>>

\* Mutant: the byte of the probe stays in snd.buf.
startProbing_Peek(h) ==
    /\ h \notin crashed
    /\ repl[h].pc = "send" /\ snd[h].buf # <<>> /\ snd[h].WND = 0
    /\ repl' = [repl EXCEPT ![h] = [@ EXCEPT !.pc = "zwp", !.seg = SubSeq(snd[h].buf, 1, 1)]]
    /\ UNCHANGED <<sockets, iface, rtx, conn, accept, net, history>>

\* sendZeroWindowProbe takes one byte off snd.buf ...
startProbing(h) ==
    /\ h \notin crashed
    /\ repl[h].pc = "send" /\ snd[h].buf # <<>> /\ snd[h].WND = 0
    /\ repl' = [repl EXCEPT ![h] = [@ EXCEPT !.pc = "zwp", !.seg = SubSeq(snd[h].buf, 1, 1)]]
    /\ snd' = [snd EXCEPT ![h].buf = Tail(@)]
    /\ UNCHANGED <<state, SeqNum, rcv, iface, rtx, conn, accept, net, history>>

\* The sleep of ZWP_PROBE_INTERVAL after a probe is over; there is none before the first.
Slept(h) == IF repl[h].n = 0 THEN UNCHANGED faults ELSE Elapses

\* ... sends it, once a ZWP_PROBE_INTERVAL, while the window stays closed ...
sendZeroWindowProbe(h) ==
    /\ h \notin crashed
    /\ repl[h].pc = "zwp" /\ Slept(h)
    /\ snd[h].WND = 0 /\ repl[h].n < ZWP_RETRIES
    /\ Send(h, AckOf(snd[h], rcv[h], Free(rcv[h].buf), repl[h].seg))
    /\ repl' = [repl EXCEPT ![h].n = @ + 1]
    /\ UNCHANGED <<sockets, iface, rtx, conn, accept, resets, crashed, failed, written, delivered>>

\* ... and counts it as sent when the window has opened, or fails VWrite: the
\* rest of the data is dropped and what is in snd.buf stays there.
probingEnds(h) ==
    /\ h \notin crashed
    /\ repl[h].pc = "zwp" /\ Slept(h)
    /\ \/ /\ repl[h].n >= ZWP_RETRIES
          /\ repl' = [repl EXCEPT ![h] = Idle]
          /\ failed' = failed \cup {h}
          /\ UNCHANGED snd
       \/ /\ repl[h].n < ZWP_RETRIES /\ snd[h].WND # 0
          /\ UNCHANGED failed
          /\ snd' = [snd EXCEPT ![h].NXT = Plus(@, 1)]
          /\ repl' = [repl EXCEPT ![h] = [@ EXCEPT !.pc = "send", !.seg = <<>>, !.n = 0]]
    /\ UNCHANGED <<state, SeqNum, rcv, iface, rtx, conn, accept, net, resets, crashed, written, delivered>>

\* VRead checks the state, then blocks until rcv.buf has something.
VRead(h) ==
    /\ AppIdle(h)
    /\ state[h] \in FinWait \cup {"ESTABLISHED"}
    /\ \E n \in ReadSizes[h] : repl' = [repl EXCEPT ![h] = [@ EXCEPT !.pc = "read", !.n = n]]
    /\ UNCHANGED <<sockets, iface, rtx, conn, accept, net, history>>

\* No window update is sent.
VReadReturn(h) ==
    LET buf == rcv[h].buf
        n == Smaller(repl[h].n, Len(buf))
        rest == SubSeq(buf, n + 1, Len(buf)) IN
    /\ h \notin crashed
    /\ repl[h].pc = "read" /\ buf # <<>>
    /\ rcv' = [rcv EXCEPT ![h] = [@ EXCEPT !.buf = rest, !.WND = Free(rest)]]
    /\ delivered' = [delivered EXCEPT ![h] = @ \o SubSeq(buf, 1, n)]
    /\ repl' = [repl EXCEPT ![h] = Idle]
    /\ UNCHANGED <<state, SeqNum, snd, iface, rtx, conn, accept, net, faults, resets, crashed, failed, written>>

\* VClose up to the send of the FIN: the state is still the old one.
sendFIN(h, s) ==
    /\ state[h] \in Open
    /\ snd' = [snd EXCEPT ![h] = [Tracked(s, Packet({"FIN"}, SeqNum[h], 0, 0, <<>>))
                                    EXCEPT !.timer = @ \/ s.inFlight = {}]]
    /\ Send(h, Segment({"FIN"}, SeqNum[h], rcv[h].NXT, rcv[h].WND, <<>>))

VClose(h) ==
    /\ AppIdle(h) /\ h \in Closers
    /\ sendFIN(h, snd[h])
    /\ repl' = [repl EXCEPT ![h].pc = "close"]
    /\ UNCHANGED <<state, SeqNum, rcv, iface, rtx, conn, accept, history>>

\* Mutant: the state is written without looking at it again.
CloseState_Blind(st) == IF st = "CLOSE_WAIT" THEN "LAST_ACK" ELSE "FIN_WAIT_1"

\* The entry is looked up a second time.  When it has been deleted the client
\* dereferences nil; the server finds the listening entry, which is left alone.
CloseState(st) == CASE st = "ESTABLISHED" -> "FIN_WAIT_1"
                    [] st = "CLOSE_WAIT" -> "LAST_ACK"
                    [] OTHER -> st
NilEntry(h) == h = Client /\ state[h] = "CLOSED"
closeEnds(h) ==
    /\ state' = [state EXCEPT ![h] = CloseState(@)]
    /\ crashed' = IF NilEntry(h) THEN crashed \cup {h} ELSE crashed

VCloseReturn(h) ==
    /\ h \notin crashed
    /\ repl[h].pc = "close"
    /\ closeEnds(h)
    /\ repl' = [repl EXCEPT ![h] = Idle]
    /\ UNCHANGED <<SeqNum, snd, rcv, iface, rtx, conn, accept, net, faults, resets, failed, written, delivered>>

\* The rst command: the socket itself is left as it is.  One per host.
sendRST(h) ==
    /\ AppIdle(h) /\ h \in Resetters \ resets
    /\ state[h] \notin {"NONE", "CLOSED"}
    /\ Send(h, Segment({"RST"}, snd[h].NXT, rcv[h].NXT, 0, <<>>))
    /\ resets' = resets \cup {h}
    /\ UNCHANGED <<sockets, threads, accept, faults, crashed, failed, written, delivered>>

-----------------------------------------------------------------------------
(* Retransmission *)

\* The packets getFirstUnackedPacket may return: the first of the list not below UNA.
FirstUnacked(s) ==
    {p \in s.inFlight : /\ p.seq >= s.UNA
                        /\ \A q \in s.inFlight : q.seq >= s.UNA => p.at <= q.at}

\* The RTO timer of h has expired.
Expired(h) == h \notin crashed /\ snd[h].timer /\ rtx[h].pc = "idle" /\ Elapses

\* Mutant: retransmissions without a limit.
retransmitPacket_NoLimit(h) ==
    /\ Expired(h)
    /\ \E p \in FirstUnacked(snd[h]) :
          /\ Send(h, Segment(p.flags, p.seq, rcv[h].NXT, p.wnd, p.data))
          /\ rtx' = [rtx EXCEPT ![h] = RtxAt("relist", p)]
    /\ snd' = [snd EXCEPT ![h].timer = FALSE]
    /\ UNCHANGED <<state, SeqNum, rcv, repl, iface, conn, accept, resets, crashed, failed, written, delivered>>

\* retransmitPacket, up to the send
retransmitPacket(h) ==
    /\ Expired(h)
    /\ snd[h].retransmissions <= RTO_MAX_RETRIES
    /\ \E p \in FirstUnacked(snd[h]) :
          /\ Send(h, Segment(p.flags, p.seq, rcv[h].NXT, p.wnd, p.data))
          /\ rtx' = [rtx EXCEPT ![h] = RtxAt("relist", p)]
    /\ snd' = [snd EXCEPT ![h].timer = FALSE]
    /\ UNCHANGED <<state, SeqNum, rcv, repl, iface, conn, accept, resets, crashed, failed, written, delivered>>

\* retransmitPacket, from the rebuilding of the list: every packet with this
\* sequence number goes, a copy without its Length comes last.
relistPacket(h) ==
    LET p == rtx[h].pkt
        others == {q \in snd[h].inFlight : q.seq # p.seq} IN
    /\ h \notin crashed
    /\ rtx[h].pc = "relist"
    /\ snd' = [snd EXCEPT ![h] =
                 [Tracked([snd[h] EXCEPT !.inFlight = others, !.place = IF others = {} THEN 0 ELSE @],
                          [p EXCEPT !.len = 0])
                    EXCEPT !.retransmissions = @ + 1, !.timer = TRUE]]
    /\ rtx' = [rtx EXCEPT ![h] = RtxIdle]
    /\ UNCHANGED <<state, SeqNum, rcv, repl, iface, conn, accept, net, history>>

\* Mutant: the timer is started again although there is nothing to retransmit.
nothingToRetransmit_Rearm(h) ==
    /\ Expired(h)
    /\ FirstUnacked(snd[h]) = {}
    /\ UNCHANGED <<sockets, threads, accept, net, resets, crashed, failed, written, delivered>>

\* Nothing to retransmit: the timer stays off.
nothingToRetransmit(h) ==
    /\ Expired(h)
    /\ FirstUnacked(snd[h]) = {}
    /\ snd' = [snd EXCEPT ![h].timer = FALSE]
    /\ UNCHANGED <<state, SeqNum, rcv, threads, accept, net, resets, crashed, failed, written, delivered>>

\* "max retransmissions reached": manageRetransmissions calls VClose, which
\* sends a FIN, fails in a state that is not open, or dereferences nil.
giveUp(h) ==
    /\ Expired(h)
    /\ FirstUnacked(snd[h]) # {} /\ snd[h].retransmissions > RTO_MAX_RETRIES
    /\ \/ /\ sendFIN(h, [snd[h] EXCEPT !.timer = FALSE])
          /\ rtx' = [rtx EXCEPT ![h].pc = "close"]
          /\ UNCHANGED crashed
       \/ /\ state[h] \notin Open
          /\ snd' = [snd EXCEPT ![h].timer = FALSE]
          /\ crashed' = IF NilEntry(h) THEN crashed \cup {h} ELSE crashed
          /\ UNCHANGED <<net, rtx>>
    /\ UNCHANGED <<state, SeqNum, rcv, repl, iface, conn, accept, resets, failed, written, delivered>>

giveUpReturn(h) ==
    /\ h \notin crashed
    /\ rtx[h].pc = "close"
    /\ closeEnds(h)
    /\ rtx' = [rtx EXCEPT ![h] = RtxIdle]
    /\ UNCHANGED <<SeqNum, snd, rcv, repl, iface, conn, accept, net, faults, resets, failed, written, delivered>>

-----------------------------------------------------------------------------
(* The specification *)

Init ==
    /\ state = [h \in Hosts |-> "NONE"]
    /\ SeqNum = [h \in Hosts |-> 0]
    /\ snd = [h \in Hosts |-> NewSND(0, 0)]
    /\ rcv = [h \in Hosts |-> NewRCV(0, 0)]
    /\ repl = [h \in Hosts |-> Idle]
    /\ iface = [h \in Hosts |-> IfaceIdle]
    /\ rtx = [h \in Hosts |-> RtxIdle]
    /\ conn = [pc |-> "idle", established |-> FALSE]
    /\ acceptQueue = 0 /\ accepted = 0
    /\ net = [h \in Hosts |-> <<>>]
    /\ faults = 0 /\ resets = {} /\ crashed = {} /\ failed = {}
    /\ written = [h \in Hosts |-> 0]
    /\ delivered = [h \in Hosts |-> <<>>]

\* What the program does by itself: the steps that fairness is assumed of
Sending(h) == VWriteLoop(h) \/ trySendData(h) \/ startTimer(h) \/ trackPacket(h)
Probing(h) == startProbing(h) \/ sendZeroWindowProbe(h) \/ probingEnds(h)
Retransmitting(h) ==
    retransmitPacket(h) \/ relistPacket(h) \/ nothingToRetransmit(h) \/ giveUp(h) \/ giveUpReturn(h)
Receiving(h) == HandlePacket(h) \/ rcvBufWrite(h) \/ processInOrderData(h)
Connecting == VConnectReturn \/ HandshakeTimeout \/ VAccept

\* What the applications do
Application(h) == VWrite(h) \/ VRead(h) \/ VClose(h) \/ sendRST(h)

Next ==
    \/ VConnect \/ Connecting
    \/ \E h \in Hosts :
          \/ Application(h) \/ VReadReturn(h) \/ VCloseReturn(h)
          \/ Sending(h) \/ Probing(h) \/ Retransmitting(h) \/ Receiving(h)
          \/ TimeWaitExpires(h) \/ Fault(h)

Spec == Init /\ [][Next]_vars

\* The goroutines and the timers go on running; the network and the
\* applications owe nothing, except that an application which has started a
\* VRead or a VClose has its goroutine scheduled.
Fairness ==
    /\ WF_vars(Connecting)
    /\ \A h \in Hosts :
          /\ WF_vars(Sending(h)) /\ WF_vars(Probing(h)) /\ WF_vars(Retransmitting(h))
          /\ WF_vars(Receiving(h)) /\ WF_vars(VReadReturn(h)) /\ WF_vars(VCloseReturn(h))
          /\ WF_vars(TimeWaitExpires(h))

FairSpec == Spec /\ Fairness

-----------------------------------------------------------------------------
(* Properties *)

\* Every variable has its type: the numbers keep their width, the buffers hold
\* bytes, a goroutine is at one of its program points.
TypeOK ==
    /\ state \in [Hosts -> States]
    /\ SeqNum \in [Hosts -> Seqs]
    /\ snd \in [Hosts -> SND]
    /\ rcv \in [Hosts -> RCV]
    /\ repl \in [Hosts -> REPL]
    /\ iface \in [Hosts -> IFACE]
    /\ rtx \in [Hosts -> RTX]
    /\ conn \in [pc : {"idle", "waiting", "ok", "timeout"}, established : BOOLEAN]
    /\ acceptQueue \in Nat /\ accepted \in Nat
    /\ net \in [Hosts -> Seq(Segments)]
    /\ faults \in Nat /\ resets \subseteq Hosts /\ crashed \subseteq Hosts /\ failed \subseteq Hosts
    /\ written \in [Hosts -> Nat]
    /\ delivered \in [Hosts -> Bytes]

\* Everything h has taken in: read by its application, or waiting in rcv.buf.
Received(h) == delivered[h] \o rcv[h].buf

\* The connection implements a byte stream in each direction: what VRead returns
\* at one end is a prefix of what was passed to VWrite at the other, with nothing
\* lost in the middle, repeated, reordered or invented by retransmissions, early
\* data, zero window probes or the teardown, until a VWrite fails.
Stream == INSTANCE ByteStream WITH sent <- written, received <- delivered
ByteStreamSpec == Stream!Spec

\* The same of the bytes that still wait in rcv.buf.
StreamPrefix ==
    \A h \in Hosts : Peer(h) \notin failed =>
       /\ Len(Received(h)) <= written[Peer(h)]
       /\ \A k \in DOMAIN Received(h) : Received(h)[k] = k

\* h is open and has not sent a FIN yet.
NoFIN(h) == state[h] \in Open /\ repl[h].pc # "close" /\ rtx[h].pc # "close"

\* What snd.UNA says is acknowledged the peer has really received: until h
\* closes, no acknowledgement it accepts runs ahead of the peer's data, though
\* UNA, the in-flight list and the handshake's numbers are set by four handlers.
AckSound ==
    \A h \in Hosts :
       NoFIN(h) => (snd[h].UNA - snd[h].ISS) % SeqMod <= 1 + Len(Received(Peer(h)))

\* Neither ring buffer is ever overfilled, whatever the sender believes of the
\* window: the blocking Write of processInOrderData absorbs an overrun.
BufferBound ==
    \A h \in Hosts : Len(snd[h].buf) <= BUFFER_SIZE /\ Len(rcv[h].buf) <= BUFFER_SIZE

\* retransmitPacket's check lets a packet be sent again RTO_MAX_RETRIES + 1
\* times in a row, and never more: the check and the increment are two steps of
\* one goroutine, and other goroutines only reset the count.
RetryBound == \A h \in Hosts : snd[h].retransmissions <= RTO_MAX_RETRIES + 1

\* Once an end has left the handshake the two agree on the initial sequence
\* numbers, and the server leaves it only after the client.
HandshakeAgreement ==
    /\ state[Client] \notin {"NONE", "SYN_SENT", "CLOSED"} =>
          rcv[Client].IRS = snd[Server].ISS /\ rcv[Server].IRS = snd[Client].ISS
    /\ state[Server] \notin {"NONE", "SYN_RECEIVED", "CLOSED"} =>
          conn.established /\ rcv[Server].IRS = snd[Client].ISS

\* The connection is put into the accept queue once, when it is established,
\* however often the handshake's segments are repeated.
AcceptOnce ==
    /\ acceptQueue + accepted <= 1
    /\ state[Server] \in {"NONE", "SYN_RECEIVED"} => acceptQueue + accepted = 0
    /\ state[Server] \notin {"NONE", "SYN_RECEIVED", "CLOSED"} => acceptQueue + accepted = 1

\* An end waits in TIME_WAIT only when both ends have sent their FIN.
TimeWaitMeansBothClosed ==
    \A h \in Hosts : state[h] = "TIME_WAIT" => ~NoFIN(Peer(h)) /\ state[Peer(h)] # "SYN_RECEIVED"

\* The order in which a connection may go through its states.
Follows(a, b) ==
    \/ a = b
    \/ b = "CLOSED" /\ a # "NONE"
    \/ <<a, b>> \in {<<"NONE", "SYN_SENT">>, <<"NONE", "SYN_RECEIVED">>,
                     <<"SYN_SENT", "ESTABLISHED">>, <<"SYN_RECEIVED", "ESTABLISHED">>,
                     <<"ESTABLISHED", "FIN_WAIT_1">>, <<"FIN_WAIT_1", "FIN_WAIT_2">>,
                     <<"FIN_WAIT_2", "TIME_WAIT">>,
                     <<"ESTABLISHED", "CLOSE_WAIT">>, <<"CLOSE_WAIT", "LAST_ACK">>}

\* The table entry follows the state machine, although a handler, two VCloses
\* and two timers write it in turn; a connection that is deleted stays deleted.
Lifecycle == [][\A h \in Hosts : Follows(state[h], state'[h])]_vars

\* In ESTABLISHED the next sequence number expected is never taken back: bytes
\* once acknowledged are not asked for again.
NoRetreat ==
    [][\A h \in Hosts :
          state[h] = "ESTABLISHED" /\ state'[h] = "ESTABLISHED" =>
             (rcv'[h].NXT - rcv[h].IRS) % SeqMod >= (rcv[h].NXT - rcv[h].IRS) % SeqMod]_vars

\* Bytes that VWrite has taken reach the peer: the retransmission timer makes up
\* for the faults the network may cause, unless somebody resets the connection.
Transfer ==
    \A h \in Hosts : written[h] = MaxBytes[h] ~> Len(Received(Peer(h))) = MaxBytes[h] \/ resets # {}

\* Retransmission ends: from some time on no RTO timer is running.
TimersEnd == <>[](\A h \in Hosts : snd[h].timer => h \in crashed)

\* A packet stays in inFlightPackets until it is acknowledged: in ESTABLISHED,
\* every byte that trySendData has sent and that is not acknowledged is in a
\* packet the RTO timer can find.
UnackedTracked ==
    \A h \in Hosts :
       state[h] = "ESTABLISHED" /\ NoFIN(h) /\ rtx[h].pc = "idle" =>
          \A q \in snd[h].UNA..(snd[h].NXT - 1) :
             q > snd[h].ISS => \E p \in snd[h].inFlight : q \in p.seq..(p.seq + Len(p.data) - 1)

\* sendZeroWindowProbe reads the byte from snd.buf to send it: a byte that snd.NXT
\* steps over after probing has been sent.
ProbeSent ==
    [][\A h \in Hosts : repl[h].pc = "zwp" /\ snd'[h].NXT # snd[h].NXT => repl[h].n > 0]_vars

\* VClose checks that the connection is in the right state: no goroutine
\* dereferences an entry that is no longer in the table.
NoPanic == crashed = {}

\* Both applications close: the client first, the server when it has seen the FIN.
CloseSpec ==
    FairSpec /\ \A h \in Hosts : WF_vars(VClose(h) /\ (h = Client \/ state[h] = "CLOSE_WAIT"))

\* Without faults, a connection that both sides close comes to an end at both.
CloseCompletes ==
    (\A h \in Hosts : state[h] = "ESTABLISHED") ~> (\A h \in Hosts : state[h] = "CLOSED")

=============================================================================
