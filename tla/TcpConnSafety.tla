---------------------------- MODULE TcpConnSafety ----------------------------
(***************************************************************************)
(* The state machine, the accept queue and the retransmission counter of   *)
(* one TCP connection, proved from the type invariant for every value of   *)
(* the constants.                                                          *)
(***************************************************************************)
EXTENDS TcpConnProofs

-----------------------------------------------------------------------------
(* The state machine *)

\* The step of one host, along an arrow of the state machine.
LEMMA Arrow ==
  ASSUME IInv, NEW h \in Hosts, NEW v, Follows(state[h], v), state' = [state EXCEPT ![h] = v]
  PROVE  \A k \in Hosts : Follows(state[k], state'[k])
  <1> SUFFICES ASSUME NEW k \in Hosts PROVE Follows(state[k], state'[k])
    OBVIOUS
  <1>1. CASE k = h
    BY <1>1 DEF IInv, TypeOK
  <1>2. CASE k # h
    BY <1>2 DEF IInv, TypeOK, Follows
  <1> QED BY <1>1, <1>2

\* What the closing ACK, VClose and the end of the data do is on an arrow.
LEMMA ClosingArrow ==
  ASSUME NEW st \in States
  PROVE  /\ Follows(st, ClosingState(st)) /\ Follows(st, CloseState(st)) /\ Follows(st, st)
  <1>1. Follows(st, ClosingState(st))
    BY DEF States, Follows, ClosingState
  <1>2. Follows(st, CloseState(st))
    BY DEF States, Follows, CloseState
  <1> QED BY <1>1, <1>2 DEF Follows

\* The interface goroutine only takes the state machine's transitions.
LEMMA ReceivingLifecycle ==
  ASSUME IInv, NEW h \in Hosts, Receiving(h)
  PROVE  \A k \in Hosts : Follows(state[k], state'[k])
  <1> DEFINE g == Head(net[h])
  <1>0. state[h] \in States
    BY DEF IInv, TypeOK
  <1>1. CASE h = Server /\ handleSYN(g)
    BY <1>1, Arrow DEF handleSYN, Follows
  <1>2. CASE handleSYNACK(h, g)
    BY <1>2, Arrow DEF handleSYNACK, Follows
  <1>3. CASE handleACK(h, g)
    BY <1>3, Arrow DEF handleACK, Follows
  <1>4. CASE handleEstablishedPacket(h, g)
    <2> DEFINE c == state[h] \in FinWait /\ "ACK" \in g.flags
               v == IF c THEN ClosingState(state[h]) ELSE state[h]
    <2>1. state' = [state EXCEPT ![h] = v]
      BY <1>4 DEF handleEstablishedPacket, AfterData
    <2>2. Follows(state[h], v)
      BY <1>0, ClosingArrow
    <2> HIDE DEF v
    <2> QED BY <2>1, <2>2, Arrow
  <1>5. CASE handleData(h, g) \/ ignore(h, g) \/ rcvBufWrite(h)
    BY <1>5 DEF handleData, ignore, rcvBufWrite, sockets, Follows
  <1>6. CASE handleFIN(h, g)
    <2> DEFINE v == IF state[h] = "ESTABLISHED" THEN "CLOSE_WAIT" ELSE "TIME_WAIT"
    <2>1. state' = [state EXCEPT ![h] = v]
      BY <1>6 DEF handleFIN
    <2>2. Follows(state[h], v)
      BY <1>6 DEF handleFIN, Follows
    <2> HIDE DEF v
    <2> QED BY <2>1, <2>2, Arrow
  <1>7. CASE handleClosingACK(h, g)
    BY <1>0, <1>7, ClosingArrow, Arrow DEF handleClosingACK
  <1>8. CASE handleRST(h, g)
    BY <1>8, Arrow DEF handleRST, Follows
  <1>9. CASE processInOrderData(h)
    <2>1. \/ state' = state
          \/ state' = [state EXCEPT ![h] = IF iface[h].closing THEN ClosingState(state[h])
                                                               ELSE state[h]]
      BY <1>9 DEF processInOrderData, AfterData
    <2> DEFINE v == IF iface[h].closing THEN ClosingState(state[h]) ELSE state[h]
    <2>2. Follows(state[h], v)
      BY <1>0, ClosingArrow
    <2>3. CASE state' = [state EXCEPT ![h] = v]
      <3> HIDE DEF v
      <3> QED BY <2>2, <2>3, Arrow
    <2>4. CASE state' = state
      BY <2>4 DEF Follows
    <2> QED BY <2>1, <2>3, <2>4
  <1> QED
    BY <1>1, <1>2, <1>3, <1>4, <1>5, <1>6, <1>7, <1>8, <1>9 DEF Receiving, HandlePacket

\* Every step takes each table entry along the state machine.
LEMMA NextLifecycle ==
  ASSUME IInv, Next PROVE \A k \in Hosts : Follows(state[k], state'[k])
  <1>1. CASE VConnect
    BY <1>1, Arrow DEF VConnect, Follows, Hosts
  <1>2. CASE Connecting
    <2> DEFINE v == IF state[Client] = "SYN_SENT" THEN "CLOSED" ELSE state[Client]
    <2>1. state' = state \/ state' = [state EXCEPT ![Client] = v]
      BY <1>2 DEF Connecting, VConnectReturn, HandshakeTimeout, VAccept, sockets
    <2>2. Follows(state[Client], v) /\ Client \in Hosts
      BY DEF Follows, Hosts
    <2>3. CASE state' = [state EXCEPT ![Client] = v]
      <3> HIDE DEF v
      <3> QED BY <2>2, <2>3, Arrow
    <2>4. CASE state' = state
      BY <2>4 DEF Follows
    <2> QED BY <2>1, <2>3, <2>4
  <1>3. ASSUME NEW h \in Hosts, Application(h) \/ VReadReturn(h) \/ Sending(h) \/ Probing(h) \/ Fault(h)
        PROVE  state' = state
    BY <1>3 DEF Application, VWrite, VRead, VClose, sendRST, VReadReturn, Fault,
                Sending, VWriteLoop, trySendData, startTimer, trackPacket,
                Probing, startProbing, sendZeroWindowProbe, probingEnds, sockets
  <1>4. ASSUME NEW h \in Hosts, VCloseReturn(h) \/ giveUpReturn(h)
        PROVE  \A k \in Hosts : Follows(state[k], state'[k])
    <2>1. state' = [state EXCEPT ![h] = CloseState(state[h])]
      BY <1>4 DEF VCloseReturn, giveUpReturn, closeEnds
    <2>2. Follows(state[h], CloseState(state[h]))
      BY ClosingArrow DEF IInv, TypeOK
    <2> QED BY <2>1, <2>2, Arrow
  <1>5. ASSUME NEW h \in Hosts, Retransmitting(h)
        PROVE  giveUpReturn(h) \/ state' = state
    BY <1>5 DEF Retransmitting, retransmitPacket, relistPacket, nothingToRetransmit, giveUp
  <1>6. ASSUME NEW h \in Hosts, Receiving(h) PROVE \A k \in Hosts : Follows(state[k], state'[k])
    BY <1>6, ReceivingLifecycle
  <1>7. ASSUME NEW h \in Hosts, TimeWaitExpires(h)
        PROVE  \A k \in Hosts : Follows(state[k], state'[k])
    BY <1>7, Arrow DEF TimeWaitExpires, Follows
  <1>8. state' = state => \A k \in Hosts : Follows(state[k], state'[k])
    BY DEF Follows
  <1> QED
    BY <1>1, <1>2, <1>3, <1>4, <1>5, <1>6, <1>7, <1>8 DEF Next

\* The table entry follows the state machine whichever goroutine writes it.
THEOREM FollowsLifecycle == Spec => Lifecycle
  <1>1. IInv /\ [Next]_vars => [\A h \in Hosts : Follows(state[h], state'[h])]_vars
    BY NextLifecycle
  <1> QED BY <1>1, Invariance, PTL DEF Spec, Lifecycle

-----------------------------------------------------------------------------
(* The accept queue.  AcceptOnce is inductive once it is known that the two   *)
(* ends open the connection in their own way.                                 *)

AInv ==
    /\ AcceptOnce
    /\ state[Server] # "SYN_SENT"
    /\ state[Client] # "SYN_RECEIVED"

Opening == {"SYN_SENT", "SYN_RECEIVED", "ESTABLISHED"}

\* A step that opens nothing and leaves the queue alone.
LEMMA AcceptFrame ==
  ASSUME IInv, AInv, Next, UNCHANGED accept,
         \A k \in Hosts : state'[k] = state[k] \/ state'[k] \notin Opening
  PROVE  AInv'
  <1>1. Client \in Hosts /\ Server \in Hosts
    BY DEF Hosts
  <1>2. Follows(state[Server], state'[Server])
    BY <1>1, NextLifecycle
  <1>3. state'[Server] # "SYN_SENT" /\ state'[Client] # "SYN_RECEIVED"
    BY <1>1 DEF AInv, Opening
  <1>4. AcceptOnce'
    BY <1>1, <1>2 DEF AInv, AcceptOnce, Opening, Follows, accept
  <1> QED BY <1>3, <1>4 DEF AInv

\* One host goes to v.
LEMMA StateStep ==
  ASSUME IInv, NEW h \in Hosts, NEW v, state' = [state EXCEPT ![h] = v],
         v = state[h] \/ v \notin Opening
  PROVE  \A k \in Hosts : state'[k] = state[k] \/ state'[k] \notin Opening
  BY DEF IInv, TypeOK

\* The interface goroutine preserves AInv: only handleACK fills the accept queue.
LEMMA ReceivingAccept == ASSUME IInv, AInv, Next, NEW h \in Hosts, Receiving(h) PROVE AInv'
  <1> DEFINE g == Head(net[h])
  <1>0. Client \in Hosts /\ Server \in Hosts /\ Client # Server /\ state[h] \in States
    BY ConstantsAssumption DEF Hosts, IInv, TypeOK
  <1>1. CASE h = Server /\ handleSYN(g)
    BY <1>0, <1>1 DEF handleSYN, AInv, AcceptOnce, accept, IInv, TypeOK
  <1>2. CASE handleSYNACK(h, g)
    <2>1. h = Client
      BY <1>2 DEF handleSYNACK, AInv, Hosts
    <2> QED BY <1>0, <1>2, <2>1 DEF handleSYNACK, AInv, AcceptOnce, accept, IInv, TypeOK
  <1>3. CASE handleACK(h, g)
    <2>1. h = Server
      BY <1>3 DEF handleACK, AInv, Hosts
    <2>2. acceptQueue + accepted = 0 /\ acceptQueue \in Nat /\ accepted \in Nat
      BY <1>3, <2>1 DEF handleACK, AInv, AcceptOnce, IInv, TypeOK
    <2>3. acceptQueue' + accepted' = 1
      BY <1>3, <2>2 DEF handleACK
    <2>4. state'[Server] = "ESTABLISHED" /\ state'[Client] = state[Client]
      BY <1>0, <1>3, <2>1 DEF handleACK, IInv, TypeOK
    <2> QED BY <2>3, <2>4 DEF AInv, AcceptOnce
  <1>4. CASE handleEstablishedPacket(h, g)
    <2> DEFINE c == state[h] \in FinWait /\ "ACK" \in g.flags
               v == IF c THEN ClosingState(state[h]) ELSE state[h]
    <2>1. state' = [state EXCEPT ![h] = v] /\ UNCHANGED accept
      BY <1>4 DEF handleEstablishedPacket, AfterData
    <2>2. v = state[h] \/ v \notin Opening
      BY DEF ClosingState, Opening
    <2> HIDE DEF v
    <2> QED BY <2>1, <2>2, StateStep, AcceptFrame
  <1>5. CASE handleData(h, g) \/ ignore(h, g) \/ rcvBufWrite(h)
    <2>1. state' = state /\ UNCHANGED accept
      BY <1>5 DEF handleData, ignore, rcvBufWrite, sockets
    <2> QED BY <2>1, AcceptFrame
  <1>6. CASE handleFIN(h, g)
    <2> DEFINE v == IF state[h] = "ESTABLISHED" THEN "CLOSE_WAIT" ELSE "TIME_WAIT"
    <2>1. state' = [state EXCEPT ![h] = v] /\ UNCHANGED accept
      BY <1>6 DEF handleFIN
    <2>2. v \notin Opening
      BY DEF Opening
    <2> HIDE DEF v
    <2> QED BY <2>1, <2>2, StateStep, AcceptFrame
  <1>7. CASE handleClosingACK(h, g)
    <2>1. state' = [state EXCEPT ![h] = ClosingState(state[h])] /\ UNCHANGED accept
      BY <1>7 DEF handleClosingACK
    <2>2. ClosingState(state[h]) = state[h] \/ ClosingState(state[h]) \notin Opening
      BY DEF ClosingState, Opening
    <2> QED BY <2>1, <2>2, StateStep, AcceptFrame
  <1>8. CASE handleRST(h, g)
    <2>1. state' = [state EXCEPT ![h] = "CLOSED"] /\ UNCHANGED accept
      BY <1>8 DEF handleRST
    <2> QED BY <2>1, StateStep, AcceptFrame DEF Opening
  <1>9. CASE processInOrderData(h)
    <2> DEFINE v == IF iface[h].closing THEN ClosingState(state[h]) ELSE state[h]
    <2>1. (state' = state \/ state' = [state EXCEPT ![h] = v]) /\ UNCHANGED accept
      BY <1>9 DEF processInOrderData, AfterData
    <2>2. v = state[h] \/ v \notin Opening
      BY DEF ClosingState, Opening
    <2>3. CASE state' = [state EXCEPT ![h] = v]
      <3> HIDE DEF v
      <3> QED BY <2>1, <2>2, <2>3, StateStep, AcceptFrame
    <2>4. CASE state' = state
      BY <2>1, <2>4, AcceptFrame
    <2> QED BY <2>1, <2>3, <2>4
  <1> QED
    BY <1>1, <1>2, <1>3, <1>4, <1>5, <1>6, <1>7, <1>8, <1>9 DEF Receiving, HandlePacket

\* Every step preserves AInv.
LEMMA NextAccept == ASSUME IInv, AInv, Next PROVE AInv'
  <1>0. Client \in Hosts /\ Server \in Hosts /\ Client # Server
    BY ConstantsAssumption DEF Hosts
  <1>1. CASE VConnect
    BY <1>0, <1>1 DEF VConnect, AInv, AcceptOnce, accept, IInv, TypeOK
  <1>2. CASE VConnectReturn
    <2>1. state' = state /\ UNCHANGED accept
      BY <1>2 DEF VConnectReturn, sockets
    <2> QED BY <2>1, AcceptFrame
  <1>3. CASE HandshakeTimeout
    <2> DEFINE v == IF state[Client] = "SYN_SENT" THEN "CLOSED" ELSE state[Client]
    <2>1. state' = [state EXCEPT ![Client] = v] /\ UNCHANGED accept
      BY <1>3 DEF HandshakeTimeout
    <2>2. v = state[Client] \/ v \notin Opening
      BY DEF Opening
    <2> HIDE DEF v
    <2> QED BY <1>0, <2>1, <2>2, StateStep, AcceptFrame
  <1>4. CASE VAccept
    BY <1>4 DEF VAccept, AInv, AcceptOnce, sockets, IInv, TypeOK
  <1>5. ASSUME NEW h \in Hosts, Application(h) \/ VReadReturn(h) \/ Sending(h) \/ Probing(h) \/ Fault(h)
        PROVE  AInv'
    <2>1. state' = state /\ UNCHANGED accept
      BY <1>5 DEF Application, VWrite, VRead, VClose, sendRST, VReadReturn, Fault,
                  Sending, VWriteLoop, trySendData, startTimer, trackPacket,
                  Probing, startProbing, sendZeroWindowProbe, probingEnds, sockets
    <2> QED BY <2>1, AcceptFrame
  <1>6. ASSUME NEW h \in Hosts, VCloseReturn(h) \/ giveUpReturn(h) PROVE AInv'
    <2>1. state' = [state EXCEPT ![h] = CloseState(state[h])] /\ UNCHANGED accept
      BY <1>6 DEF VCloseReturn, giveUpReturn, closeEnds
    <2>2. CloseState(state[h]) = state[h] \/ CloseState(state[h]) \notin Opening
      BY DEF CloseState, Opening
    <2> QED BY <2>1, <2>2, StateStep, AcceptFrame
  <1>7. ASSUME NEW h \in Hosts, Retransmitting(h) PROVE AInv'
    <2>1. giveUpReturn(h) \/ (state' = state /\ UNCHANGED accept)
      BY <1>7 DEF Retransmitting, retransmitPacket, relistPacket, nothingToRetransmit, giveUp
    <2> QED BY <1>6, <2>1, AcceptFrame
  <1>8. ASSUME NEW h \in Hosts, Receiving(h) PROVE AInv'
    BY <1>8, ReceivingAccept
  <1>9. ASSUME NEW h \in Hosts, TimeWaitExpires(h) PROVE AInv'
    <2>1. state' = [state EXCEPT ![h] = "CLOSED"] /\ UNCHANGED accept
      BY <1>9 DEF TimeWaitExpires
    <2> QED BY <2>1, StateStep, AcceptFrame DEF Opening
  <1> QED
    BY <1>1, <1>2, <1>3, <1>4, <1>5, <1>6, <1>7, <1>8, <1>9 DEF Next, Connecting

\* A connection is put into the accept queue once, when it is established.
THEOREM AcceptedOnce == Spec => []AcceptOnce
  <1>1. Init => AInv
    BY DEF Init, AInv, AcceptOnce, Hosts
  <1>2. IInv /\ AInv /\ [Next]_vars => AInv'
    <2> SUFFICES ASSUME IInv, AInv, [Next]_vars PROVE AInv'
      OBVIOUS
    <2>1. CASE Next
      BY <2>1, NextAccept
    <2>2. CASE UNCHANGED vars
      BY <2>2 DEF AInv, AcceptOnce, vars, sockets, accept
    <2> QED BY <2>1, <2>2
  <1>3. AInv => AcceptOnce
    BY DEF AInv
  <1> QED BY <1>1, <1>2, <1>3, Invariance, PTL DEF Spec

-----------------------------------------------------------------------------
(* The retransmission counter.  The check of retransmitPacket is one step and *)
(* the increment another: what the check found still holds at the increment.  *)

RInv ==
    \A h \in Hosts :
       /\ snd[h].retransmissions <= RTO_MAX_RETRIES + 1
       /\ rtx[h].pc = "relist" => snd[h].retransmissions <= RTO_MAX_RETRIES

\* s is t with the counter as it was, or set back.
Recounted(s, t) == s.retransmissions = t.retransmissions \/ s.retransmissions = 0

\* A step that never counts up, and leaves manageRetransmissions where it is.
LEMMA RetryFrame ==
  ASSUME IInv, RInv, NEW h \in Hosts, NEW s, snd' = [snd EXCEPT ![h] = s], rtx' = rtx,
         Recounted(s, snd[h])
  PROVE  RInv'
  <1>1. RTO_MAX_RETRIES \in Nat
    BY ConstantsAssumption
  <1> SUFFICES ASSUME NEW k \in Hosts
               PROVE  /\ snd'[k].retransmissions <= RTO_MAX_RETRIES + 1
                      /\ rtx'[k].pc = "relist" => snd'[k].retransmissions <= RTO_MAX_RETRIES
    BY DEF RInv
  <1>2. CASE k # h
    <2>1. snd'[k] = snd[k]
      BY <1>2 DEF IInv, TypeOK
    <2> QED BY <2>1 DEF RInv
  <1>3. CASE k = h
    <2>1. snd'[k] = s
      BY <1>3 DEF IInv, TypeOK
    <2>2. CASE s.retransmissions = 0
      BY <1>1, <2>1, <2>2
    <2>3. CASE s.retransmissions = snd[h].retransmissions
      BY <1>3, <2>1, <2>3 DEF RInv
    <2> QED BY <2>2, <2>3 DEF Recounted
  <1> QED BY <1>2, <1>3

\* A step that leaves snd and rtx alone preserves RInv.
LEMMA RetryUnchanged == ASSUME RInv, snd' = snd, rtx' = rtx PROVE RInv'
  BY DEF RInv

\* What the operators do to the counter.
LEMMA OperatorCounts ==
  ASSUME NEW s \in SND
  PROVE  /\ \A p : Tracked(s, p).retransmissions = s.retransmissions
         /\ \A a : cleanUpInFlightPackets(s, a).retransmissions = s.retransmissions
         /\ \A g \in Segments : Recounted(processACK(s, g), s)
         /\ \A g \in Segments : ClosingSND(s, g).retransmissions = s.retransmissions
  <1>1. \A p : Tracked(s, p).retransmissions = s.retransmissions
    BY DEF Tracked, SND
  <1>2. \A t \in SND : \A a : cleanUpInFlightPackets(t, a).retransmissions = t.retransmissions
    BY DEF cleanUpInFlightPackets, SND
  <1>3. ASSUME NEW g \in Segments PROVE Recounted(processACK(s, g), s)
    <2> DEFINE c == cleanUpInFlightPackets([s EXCEPT !.UNA = g.ack], g.ack)
               u == [c EXCEPT !.timer = c.inFlight # {}, !.retransmissions = 0]
    <2>1. [s EXCEPT !.UNA = g.ack] \in SND /\ g.ack \in Seqs
      BY DEF SND, Segments
    <2>2. c \in SND
      BY <2>1, CleanUpType
    <2> HIDE DEF c
    <2>3. u.retransmissions = 0
      BY <2>2 DEF SND
    <2>4. processACK(s, g) = u \/ processACK(s, g) = s
      BY DEF processACK, c
    <2> HIDE DEF u
    <2> QED BY <2>3, <2>4 DEF Recounted
  <1>4. ASSUME NEW g \in Segments PROVE ClosingSND(s, g).retransmissions = s.retransmissions
    <2> DEFINE c == cleanUpInFlightPackets(s, g.ack)
    <2>1. c \in SND /\ c.retransmissions = s.retransmissions
      BY <1>2, CleanUpType DEF Segments
    <2> HIDE DEF c
    <2>2. [c EXCEPT !.timer = FALSE].retransmissions = s.retransmissions
      BY <2>1 DEF SND
    <2> QED BY <2>2 DEF ClosingSND, c
  <1> QED BY <1>1, <1>2, <1>3, <1>4

\* The handling of an ACK keeps or resets the retransmission count.
LEMMA AfterDataCounts ==
  ASSUME IInv, RInv, NEW h \in Hosts, NEW s \in SND, s.retransmissions = snd[h].retransmissions,
         NEW r, NEW g \in Segments, NEW c \in BOOLEAN, AfterData(h, s, r, g, c), rtx' = rtx
  PROVE  RInv'
  <1> DEFINE p == processACK(s, g)
             u == IF c THEN ClosingSND(p, g) ELSE p
  <1>1. p \in SND /\ Recounted(p, s)
    BY ProcessACKType, OperatorCounts
  <1>2. snd' = [snd EXCEPT ![h] = u]
    BY DEF AfterData
  <1> HIDE DEF p
  <1>3. ClosingSND(p, g).retransmissions = p.retransmissions
    BY <1>1, OperatorCounts
  <1>4. Recounted(u, snd[h])
    BY <1>1, <1>3 DEF Recounted
  <1> HIDE DEF u
  <1> QED BY <1>2, <1>4, RetryFrame

\* The interface goroutine preserves RInv.
LEMMA ReceivingRetry == ASSUME IInv, RInv, NEW h \in Hosts, Receiving(h) PROVE RInv'
  <1> DEFINE g == Head(net[h])
  <1>0. snd[h] \in SND
    BY HostType
  <1>1. CASE h = Server /\ handleSYN(g)
    <2> DEFINE r == NewRCV(g.seq, Plus(g.seq, 1))
               t(isn) == Tracked(NewSND(isn, g.wnd), Packet({"SYN", "ACK"}, isn, 0, r.WND, <<>>))
    <2>1. PICK isn \in ISNs[Server] : snd' = [snd EXCEPT ![Server] = [t(isn) EXCEPT !.timer = TRUE]]
      BY <1>1 DEF handleSYN
    <2>2. isn \in Seqs /\ g.wnd \in Wnds
      BY <1>1, ConstantsAssumption, ReceivesType DEF handleSYN, Seqs, Hosts
    <2>3. NewSND(isn, g.wnd) \in SND /\ NewSND(isn, g.wnd).retransmissions = 0
      BY <2>2, NewSNDType DEF NewSND
    <2>4. [t(isn) EXCEPT !.timer = TRUE].retransmissions = 0
      BY <2>3 DEF Tracked, NewSND
    <2>5. rtx' = rtx
      BY <1>1 DEF handleSYN, threads
    <2> HIDE DEF t
    <2> QED BY <1>1, <2>1, <2>4, <2>5, RetryFrame DEF Recounted
  <1>2. CASE handleSYNACK(h, g)
    <2> DEFINE s == [snd[h] EXCEPT !.UNA = g.ack, !.NXT = g.ack, !.WND = g.wnd,
                                   !.timer = FALSE, !.inFlight = {}, !.place = 0]
    <2>1. snd' = [snd EXCEPT ![h] = s] /\ rtx' = rtx
      BY <1>2 DEF handleSYNACK
    <2>2. s.retransmissions = snd[h].retransmissions
      BY <1>0 DEF SND
    <2> HIDE DEF s
    <2> QED BY <2>1, <2>2, RetryFrame DEF Recounted
  <1>3. CASE handleACK(h, g)
    <2> DEFINE c == cleanUpInFlightPackets(snd[h], g.ack)
               s == [c EXCEPT !.timer = c.inFlight # {}]
    <2>1. snd' = [snd EXCEPT ![h] = s] /\ rtx' = rtx
      BY <1>3 DEF handleACK, threads
    <2>2. c \in SND /\ c.retransmissions = snd[h].retransmissions
      BY <1>0, <1>3, ReceivesType, CleanUpType, OperatorCounts DEF handleACK
    <2> HIDE DEF c
    <2>3. s.retransmissions = snd[h].retransmissions
      BY <2>2 DEF SND
    <2> HIDE DEF s
    <2> QED BY <2>1, <2>3, RetryFrame DEF Recounted
  <1>4. CASE handleEstablishedPacket(h, g)
    <2> DEFINE s == [snd[h] EXCEPT !.WND = g.wnd]
               r == IF g.data = <<>> THEN rcv[h]
                    ELSE [rcv[h] EXCEPT !.early = @ \cup {[seq |-> g.seq, data |-> g.data]}]
               c == state[h] \in FinWait /\ "ACK" \in g.flags
    <2>1. AfterData(h, s, r, g, c) /\ rtx' = rtx
      BY <1>4 DEF handleEstablishedPacket, threads
    <2>2. g \in Segments /\ g.wnd \in Wnds
      BY <1>4, ReceivesType DEF handleEstablishedPacket
    <2>3. s \in SND /\ s.retransmissions = snd[h].retransmissions
      BY <1>0, <2>2 DEF SND
    <2>4. c \in BOOLEAN
      OBVIOUS
    <2> HIDE DEF s, r, c, g
    <2> QED BY <2>1, <2>2, <2>3, <2>4, AfterDataCounts
  <1>5. CASE handleData(h, g)
    <2> DEFINE s == [snd[h] EXCEPT !.WND = g.wnd]
    <2>1. snd' = [snd EXCEPT ![h] = s] /\ rtx' = rtx
      BY <1>5 DEF handleData
    <2>2. s.retransmissions = snd[h].retransmissions
      BY <1>0 DEF SND
    <2> HIDE DEF s
    <2> QED BY <2>1, <2>2, RetryFrame DEF Recounted
  <1>6. CASE handleRST(h, g) \/ ignore(h, g) \/ rcvBufWrite(h)
    <2>1. snd' = snd /\ rtx' = rtx
      BY <1>6 DEF handleRST, ignore, rcvBufWrite, sockets, threads
    <2> QED BY <2>1, RetryUnchanged
  <1>7. CASE handleFIN(h, g)
    <2> DEFINE s == cleanUpInFlightPackets(snd[h], g.ack)
    <2>1. snd' = [snd EXCEPT ![h] = s] /\ rtx' = rtx
      BY <1>7 DEF handleFIN, threads
    <2>2. s.retransmissions = snd[h].retransmissions
      BY <1>0, OperatorCounts
    <2> HIDE DEF s
    <2> QED BY <2>1, <2>2, RetryFrame DEF Recounted
  <1>8. CASE handleClosingACK(h, g)
    <2> DEFINE s == ClosingSND(snd[h], g)
    <2>1. snd' = [snd EXCEPT ![h] = s] /\ rtx' = rtx
      BY <1>8 DEF handleClosingACK, threads
    <2>2. s.retransmissions = snd[h].retransmissions
      BY <1>0, <1>8, ReceivesType, OperatorCounts DEF handleClosingACK
    <2> HIDE DEF s
    <2> QED BY <2>1, <2>2, RetryFrame DEF Recounted
  <1>9. CASE processInOrderData(h)
    <2>1. rtx' = rtx
      BY <1>9 DEF processInOrderData
    <2>2. CASE snd' = snd
      BY <2>1, <2>2, RetryUnchanged
    <2>3. CASE \E r : AfterData(h, snd[h], r, iface[h].seg, iface[h].closing)
      <3>1. iface[h].seg \in Segments /\ iface[h].closing \in BOOLEAN
        BY DEF IInv, TypeOK, IFACE
      <3>2. PICK r : AfterData(h, snd[h], r, iface[h].seg, iface[h].closing)
        BY <2>3
      <3> QED BY <1>0, <2>1, <3>1, <3>2, AfterDataCounts
    <2> QED BY <1>9, <2>2, <2>3 DEF processInOrderData
  <1> QED
    BY <1>1, <1>2, <1>3, <1>4, <1>5, <1>6, <1>7, <1>8, <1>9 DEF Receiving, HandlePacket

\* The application's steps.
LEMMA SendingRetry ==
  ASSUME IInv, RInv, NEW h \in Hosts, Sending(h) \/ Probing(h) \/ VWrite(h) PROVE RInv'
  <1>0. snd[h] \in SND
    BY HostType
  <1>1. rtx' = rtx
    BY DEF Sending, VWriteLoop, trySendData, startTimer, trackPacket,
           Probing, startProbing, sendZeroWindowProbe, probingEnds, VWrite
  <1>2. ASSUME NEW b, snd' = [snd EXCEPT ![h] = [snd[h] EXCEPT !.buf = b]] PROVE RInv'
    <2> DEFINE s == [snd[h] EXCEPT !.buf = b]
    <2>1. s.retransmissions = snd[h].retransmissions
      BY <1>0 DEF SND
    <2>2. snd' = [snd EXCEPT ![h] = s]
      BY <1>2
    <2> HIDE DEF s
    <2> QED BY <1>1, <2>1, <2>2, RetryFrame DEF Recounted
  <1>3. ASSUME NEW d, TryWrite(h, d) PROVE RInv'
    <2> DEFINE b == snd[h].buf \o SubSeq(d, 1, Smaller(Len(d), Free(snd[h].buf)))
    <2>1. snd' = [snd EXCEPT ![h] = [snd[h] EXCEPT !.buf = b]]
      BY <1>3 DEF TryWrite
    <2> HIDE DEF b
    <2> QED BY <1>2, <2>1
  <1>4. CASE snd' = snd
    BY <1>1, <1>4, RetryUnchanged
  <1>5. CASE VWrite(h) \/ VWriteLoop(h)
    BY <1>3, <1>4, <1>5 DEF VWrite, VWriteLoop
  <1>6. CASE trySendData(h)
    <2> DEFINE n == Smaller(Smaller(freeWindowSpace(snd[h]), MAX_TCP_PAYLOAD), Len(snd[h].buf))
               b == SubSeq(snd[h].buf, n + 1, Len(snd[h].buf))
    <2>1. snd' = [snd EXCEPT ![h] = [snd[h] EXCEPT !.buf = b]]
      BY <1>6 DEF trySendData
    <2> HIDE DEF b
    <2> QED BY <1>2, <2>1
  <1>7. CASE startTimer(h)
    <2> DEFINE s == [snd[h] EXCEPT !.timer = @ \/ snd[h].inFlight = {}]
    <2>1. snd' = [snd EXCEPT ![h] = s]
      BY <1>7 DEF startTimer
    <2>2. s.retransmissions = snd[h].retransmissions
      BY <1>0 DEF SND
    <2> HIDE DEF s
    <2> QED BY <1>1, <2>1, <2>2, RetryFrame DEF Recounted
  <1>8. CASE trackPacket(h)
    <2> DEFINE data == repl[h].seg
               t == Tracked(snd[h], Packet({"ACK"}, snd[h].NXT, Len(data), 0, data))
               s == [t EXCEPT !.NXT = Plus(snd[h].NXT, Len(data))]
    <2>1. snd' = [snd EXCEPT ![h] = s]
      BY <1>8 DEF trackPacket
    <2>2. s.retransmissions = snd[h].retransmissions
      BY <1>0 DEF SND, Tracked
    <2> HIDE DEF s
    <2> QED BY <1>1, <2>1, <2>2, RetryFrame DEF Recounted
  <1>9. CASE startProbing(h)
    BY <1>2, <1>9 DEF startProbing
  <1>10. CASE probingEnds(h)
    <2>1. CASE snd' = [snd EXCEPT ![h].NXT = Plus(@, 1)]
      <3> DEFINE s == [snd[h] EXCEPT !.NXT = Plus(@, 1)]
      <3>1. snd' = [snd EXCEPT ![h] = s]
        BY <2>1
      <3>2. s.retransmissions = snd[h].retransmissions
        BY <1>0 DEF SND
      <3> HIDE DEF s
      <3> QED BY <1>1, <3>1, <3>2, RetryFrame DEF Recounted
    <2> QED BY <1>4, <1>10, <2>1 DEF probingEnds
  <1>11. CASE sendZeroWindowProbe(h)
    BY <1>4, <1>11 DEF sendZeroWindowProbe, sockets
  <1> QED BY <1>5, <1>6, <1>7, <1>8, <1>9, <1>10, <1>11 DEF Sending, Probing

\* The FIN is tracked without touching the counter.
LEMMA FINCounts ==
  ASSUME IInv, NEW h \in Hosts, NEW s \in SND, s.retransmissions = snd[h].retransmissions,
         sendFIN(h, s)
  PROVE  \E u : snd' = [snd EXCEPT ![h] = u] /\ u.retransmissions = snd[h].retransmissions
  <1> DEFINE p == Packet({"FIN"}, SeqNum[h], 0, 0, <<>>)
             u == [Tracked(s, p) EXCEPT !.timer = @ \/ s.inFlight = {}]
  <1>1. snd' = [snd EXCEPT ![h] = u]
    BY DEF sendFIN
  <1>2. u.retransmissions = snd[h].retransmissions
    BY DEF SND, Tracked
  <1> HIDE DEF u
  <1> QED BY <1>1, <1>2

\* manageRetransmissions.
LEMMA RetransmittingRetry == ASSUME IInv, RInv, NEW h \in Hosts, Retransmitting(h) PROVE RInv'
  <1>0. snd[h] \in SND /\ RTO_MAX_RETRIES \in Nat
    BY HostType, ConstantsAssumption
  <1> DEFINE s == [snd[h] EXCEPT !.timer = FALSE]
  <1>1. s \in SND /\ s.retransmissions = snd[h].retransmissions
    BY <1>0 DEF SND
  <1>2. ASSUME NEW u, snd' = [snd EXCEPT ![h] = u], u.retransmissions = snd[h].retransmissions,
               NEW a, rtx' = [rtx EXCEPT ![h] = a],
               a.pc = "relist" => snd[h].retransmissions <= RTO_MAX_RETRIES
        PROVE  RInv'
    <2> SUFFICES ASSUME NEW k \in Hosts
                 PROVE  /\ snd'[k].retransmissions <= RTO_MAX_RETRIES + 1
                        /\ rtx'[k].pc = "relist" => snd'[k].retransmissions <= RTO_MAX_RETRIES
      BY DEF RInv
    <2>1. CASE k # h
      <3>1. snd'[k] = snd[k] /\ rtx'[k] = rtx[k]
        BY <1>2, <2>1 DEF IInv, TypeOK
      <3> QED BY <3>1 DEF RInv
    <2>2. CASE k = h
      <3>1. snd'[k] = u /\ rtx'[k] = a
        BY <1>2, <2>2 DEF IInv, TypeOK
      <3> QED BY <1>2, <2>2, <3>1 DEF RInv
    <2> QED BY <2>1, <2>2
  <1>3. CASE retransmitPacket(h)
    <2>1. PICK p : rtx' = [rtx EXCEPT ![h] = RtxAt("relist", p)]
      BY <1>3 DEF retransmitPacket
    <2>2. snd' = [snd EXCEPT ![h] = s] /\ snd[h].retransmissions <= RTO_MAX_RETRIES
      BY <1>3 DEF retransmitPacket
    <2> HIDE DEF s
    <2> QED BY <1>1, <1>2, <2>1, <2>2
  <1>4. CASE relistPacket(h)
    <2> DEFINE p == rtx[h].pkt
               others == {q \in snd[h].inFlight : q.seq # p.seq}
               v == [snd[h] EXCEPT !.inFlight = others, !.place = IF others = {} THEN 0 ELSE @]
               t == Tracked(v, [p EXCEPT !.len = 0])
               u == [t EXCEPT !.retransmissions = @ + 1, !.timer = TRUE]
    <2>1. snd' = [snd EXCEPT ![h] = u] /\ rtx' = [rtx EXCEPT ![h] = RtxIdle]
      BY <1>4 DEF relistPacket
    <2>2. u.retransmissions = snd[h].retransmissions + 1
      <3>1. v.retransmissions = snd[h].retransmissions /\ DOMAIN v = DOMAIN snd[h]
        BY <1>0 DEF SND
      <3> HIDE DEF v
      <3>2. "retransmissions" \in DOMAIN v /\ "timer" \in DOMAIN v
        BY <1>0, <3>1 DEF SND
      <3>3. t.retransmissions = v.retransmissions /\ "retransmissions" \in DOMAIN t
        BY <3>2 DEF Tracked
      <3> HIDE DEF t
      <3> QED BY <3>1, <3>3
    <2>3. snd[h].retransmissions <= RTO_MAX_RETRIES /\ snd[h].retransmissions \in Nat
      BY <1>0, <1>4 DEF relistPacket, RInv, SND
    <2> HIDE DEF u
    <2>4. u.retransmissions <= RTO_MAX_RETRIES + 1
      BY <1>0, <2>2, <2>3
    <2> SUFFICES ASSUME NEW k \in Hosts
                 PROVE  /\ snd'[k].retransmissions <= RTO_MAX_RETRIES + 1
                        /\ rtx'[k].pc = "relist" => snd'[k].retransmissions <= RTO_MAX_RETRIES
      BY DEF RInv
    <2>5. CASE k # h
      <3>1. snd'[k] = snd[k] /\ rtx'[k] = rtx[k]
        BY <2>1, <2>5 DEF IInv, TypeOK
      <3> QED BY <3>1 DEF RInv
    <2>6. CASE k = h
      <3>1. snd'[k] = u /\ rtx'[k] = RtxIdle
        BY <2>1, <2>6 DEF IInv, TypeOK
      <3> QED BY <2>4, <3>1 DEF RtxIdle, RtxAt
    <2> QED BY <2>5, <2>6
  <1>5. CASE nothingToRetransmit(h)
    <2>1. snd' = [snd EXCEPT ![h] = s] /\ rtx' = rtx
      BY <1>5 DEF nothingToRetransmit, threads
    <2> HIDE DEF s
    <2> QED BY <1>1, <2>1, RetryFrame DEF Recounted
  <1>6. CASE giveUp(h)
    <2>1. CASE sendFIN(h, s) /\ rtx' = [rtx EXCEPT ![h].pc = "close"]
      <3> DEFINE a == [rtx[h] EXCEPT !.pc = "close"]
      <3>1. rtx' = [rtx EXCEPT ![h] = a]
        BY <2>1
      <3>2. a.pc = "close"
        BY HostType DEF RTX
      <3> HIDE DEF s, a
      <3>3. PICK u : snd' = [snd EXCEPT ![h] = u] /\ u.retransmissions = snd[h].retransmissions
        BY <1>1, <2>1, FINCounts
      <3> QED BY <1>2, <3>1, <3>2, <3>3
    <2>2. CASE snd' = [snd EXCEPT ![h] = s] /\ rtx' = rtx
      <3> HIDE DEF s
      <3> QED BY <1>1, <2>2, RetryFrame DEF Recounted
    <2> QED BY <1>6, <2>1, <2>2 DEF giveUp
  <1>7. CASE giveUpReturn(h)
    BY <1>7 DEF giveUpReturn, RInv, IInv, TypeOK, RtxIdle, RtxAt
  <1> QED BY <1>3, <1>4, <1>5, <1>6, <1>7 DEF Retransmitting

\* Every step preserves RInv.
LEMMA NextRetry == ASSUME IInv, RInv, [Next]_vars PROVE RInv'
  <1>1. CASE VConnect
    <2> DEFINE t(isn) == Tracked(NewSND(isn, BUFFER_SIZE), Packet({"SYN"}, isn, 0, 0, <<>>))
    <2>1. PICK isn \in ISNs[Client] : snd' = [snd EXCEPT ![Client] = [t(isn) EXCEPT !.timer = TRUE]]
      BY <1>1 DEF VConnect
    <2>2. [t(isn) EXCEPT !.timer = TRUE].retransmissions = 0
      BY DEF Tracked, NewSND
    <2>3. rtx' = rtx /\ Client \in Hosts
      BY <1>1 DEF VConnect, Hosts
    <2> HIDE DEF t
    <2> QED BY <2>1, <2>2, <2>3, RetryFrame DEF Recounted
  <1>2. CASE Connecting
    <2>1. snd' = snd /\ rtx' = rtx
      BY <1>2 DEF Connecting, VConnectReturn, HandshakeTimeout, VAccept, sockets, threads
    <2> QED BY <2>1, RetryUnchanged
  <1>3. ASSUME NEW h \in Hosts, VWrite(h) \/ Sending(h) \/ Probing(h) PROVE RInv'
    BY <1>3, SendingRetry
  <1>4. ASSUME NEW h \in Hosts, VClose(h) PROVE RInv'
    <2>1. PICK u : snd' = [snd EXCEPT ![h] = u] /\ u.retransmissions = snd[h].retransmissions
      BY <1>4, HostType, FINCounts DEF VClose
    <2>2. rtx' = rtx
      BY <1>4 DEF VClose
    <2> QED BY <2>1, <2>2, RetryFrame DEF Recounted
  <1>5. ASSUME NEW h \in Hosts, VRead(h) \/ sendRST(h) \/ VReadReturn(h) \/ VCloseReturn(h)
                                \/ TimeWaitExpires(h) \/ Fault(h)
        PROVE  RInv'
    <2>1. snd' = snd /\ rtx' = rtx
      BY <1>5 DEF VRead, sendRST, VReadReturn, VCloseReturn, TimeWaitExpires, Fault, sockets, threads
    <2> QED BY <2>1, RetryUnchanged
  <1>6. ASSUME NEW h \in Hosts, Retransmitting(h) PROVE RInv'
    BY <1>6, RetransmittingRetry
  <1>7. ASSUME NEW h \in Hosts, Receiving(h) PROVE RInv'
    BY <1>7, ReceivingRetry
  <1>8. CASE UNCHANGED vars
    BY <1>8, RetryUnchanged DEF vars, sockets, threads
  <1> QED
    BY <1>1, <1>2, <1>3, <1>4, <1>5, <1>6, <1>7, <1>8 DEF Next, Application

\* A packet is sent again at most RTO_MAX_RETRIES + 1 times in a row.
THEOREM RetriesBounded == Spec => []RetryBound
  <1>1. Init => RInv
    <2>1. RTO_MAX_RETRIES \in Nat
      BY ConstantsAssumption
    <2> QED BY <2>1 DEF Init, RInv, NewSND, RtxIdle, RtxAt
  <1>2. IInv /\ RInv /\ [Next]_vars => RInv'
    BY NextRetry
  <1>3. RInv => RetryBound
    BY DEF RInv, RetryBound
  <1> QED BY <1>1, <1>2, <1>3, Invariance, PTL DEF Spec
=============================================================================
