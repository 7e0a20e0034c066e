--------------------------------- MODULE Rto ---------------------------------
(***************************************************************************)
(* The retransmission timeout of a socket of pkg/tcpstack: what            *)
(* trySendData, cleanUpInFlightPackets and retransmitPacket do to the      *)
(* sending times of the packets in flight and to the estimator of          *)
(* computeRTO.  TcpConn leaves all durations out; here there is nothing    *)
(* else.  Times are in milliseconds.                                       *)
(***************************************************************************)
EXTENDS Integers, TLAPS

MIN_RTO == 1000
MSL == 4000
MAX_RTO == 60000    \* the literal of retransmitPacket

VARIABLES
    packets,        \* snd.inFlightPackets: sequence numbers and sending times
    SRTT, RTTVAR, calculatedRTO,
    now

vars == <<packets, SRTT, RTTVAR, calculatedRTO, now>>

-----------------------------------------------------------------------------
\* trySendData: snd.NXT is beyond every packet in flight.  (Left out: two VCloses at
\* the same time, which list two FINs with one number.)
Sent(seq) ==
    /\ \A q \in packets : q.seq # seq
    /\ packets' = packets \cup {[seq |-> seq, timeSent |-> now]}
    /\ UNCHANGED <<SRTT, RTTVAR, calculatedRTO, now>>

\* The loop of computeRTO: the packet's timeSent comes in as timeReceived, and is
\* compared with the timeSent of a packet in flight with the same number.
RTT(p) == {p.timeSent - q.timeSent : q \in {x \in packets : x.seq = p.seq}}

Distance(a, b) == IF a < b THEN b - a ELSE a - b
Clamp(d) == IF d < MIN_RTO THEN MIN_RTO ELSE IF d > MSL THEN MSL ELSE d

computeRTO(rtt) ==
    /\ SRTT' = IF SRTT = 0 THEN rtt ELSE (7 * SRTT + rtt) \div 8
    /\ RTTVAR' = IF SRTT = 0 THEN rtt \div 2 ELSE (3 * RTTVAR + Distance(SRTT, rtt)) \div 4
    /\ calculatedRTO' = Clamp(SRTT' + 4 * RTTVAR')

\* cleanUpInFlightPackets finds that packet p is acknowledged.
Acked(p) ==
    /\ \E rtt \in RTT(p) : computeRTO(rtt)
    /\ packets' = packets \ {p}
    /\ UNCHANGED now

\* retransmitPacket: the packet is listed with a new time, and the RTO doubled.
Retransmitted(p) ==
    /\ packets' = {q \in packets : q.seq # p.seq} \cup {[seq |-> p.seq, timeSent |-> now]}
    /\ calculatedRTO' = IF 2 * calculatedRTO > MAX_RTO THEN MAX_RTO ELSE 2 * calculatedRTO
    /\ UNCHANGED <<SRTT, RTTVAR, now>>

Tick == now' \in Nat /\ now' > now /\ UNCHANGED <<packets, SRTT, RTTVAR, calculatedRTO>>

Init == packets = {} /\ SRTT = 0 /\ RTTVAR = 0 /\ calculatedRTO = MIN_RTO /\ now = 0

Next ==
    \/ \E seq \in Nat : Sent(seq)
    \/ \E p \in packets : Acked(p) \/ Retransmitted(p)
    \/ Tick

Spec == Init /\ [][Next]_vars

-----------------------------------------------------------------------------
(* Properties *)

\* However many retransmissions and acknowledgements there are, the timer runs
\* between one second and one minute.
RtoBounded == calculatedRTO \in MIN_RTO..MAX_RTO

\* The estimator never measures anything: any acknowledgement sets the timeout
\* back to MIN_RTO, however long the round trip took.
NeverAdapts == [][\A p \in packets : Acked(p) => calculatedRTO' = MIN_RTO]_vars

-----------------------------------------------------------------------------
(* Proofs *)

\* No two packets in flight have the same number, so that computeRTO compares a
\* packet's time with itself, and the estimator stays where it began.
IInv ==
    /\ packets \subseteq [seq : Nat, timeSent : Nat] /\ now \in Nat
    /\ \A p, q \in packets : p.seq = q.seq => p = q
    /\ SRTT = 0 /\ RTTVAR = 0
    /\ RtoBounded

\* What computeRTO finds for a packet in flight is a round trip of 0.
LEMMA ZeroRTT == ASSUME IInv, NEW p \in packets PROVE RTT(p) = {0}
  <1>1. p.timeSent \in Nat  BY DEF IInv
  <1>2. {x \in packets : x.seq = p.seq} = {p}  BY DEF IInv
  <1>. QED  BY <1>1, <1>2 DEF RTT

\* An acknowledgement leaves the estimator at 0 and the timeout at MIN_RTO.
LEMMA AckedResets ==
    ASSUME IInv, NEW p \in packets, Acked(p)
    PROVE  SRTT' = 0 /\ RTTVAR' = 0 /\ calculatedRTO' = MIN_RTO
  <1>1. computeRTO(0)  BY ZeroRTT DEF Acked
  <1>. QED  BY <1>1 DEF computeRTO, IInv, Clamp, MIN_RTO, MSL

\* IInv is inductive.
LEMMA Inductive == IInv /\ [Next]_vars => IInv'
  <1>. SUFFICES ASSUME IInv, [Next]_vars PROVE IInv'  OBVIOUS
  <1>1. ASSUME NEW seq \in Nat, Sent(seq) PROVE IInv'
    BY <1>1 DEF IInv, Sent, RtoBounded
  <1>2. ASSUME NEW p \in packets, Acked(p) PROVE IInv'
    <2>1. packets' \subseteq packets /\ now' = now  BY <1>2 DEF Acked
    <2>2. SRTT' = 0 /\ RTTVAR' = 0 /\ RtoBounded'
      BY <1>2, AckedResets DEF RtoBounded, MIN_RTO, MAX_RTO
    <2>. QED  BY <2>1, <2>2 DEF IInv
  <1>3. ASSUME NEW p \in packets, Retransmitted(p) PROVE IInv'
    <2>1. RtoBounded'
      <3>1. calculatedRTO \in Int /\ 1000 <= calculatedRTO /\ calculatedRTO <= 60000
        BY DEF IInv, RtoBounded, MIN_RTO, MAX_RTO
      <3>2. calculatedRTO' = IF 2 * calculatedRTO > 60000 THEN 60000 ELSE 2 * calculatedRTO
        BY <1>3 DEF Retransmitted, MAX_RTO
      <3>. QED  BY <3>1, <3>2 DEF RtoBounded, MIN_RTO, MAX_RTO
    <2>2. SRTT' = 0 /\ RTTVAR' = 0 /\ now' = now  BY <1>3 DEF IInv, Retransmitted
    <2>3. packets' \subseteq [seq : Nat, timeSent : Nat]  BY <1>3 DEF IInv, Retransmitted
    <2>4. \A x, y \in packets' : x.seq = y.seq => x = y  BY <1>3 DEF IInv, Retransmitted
    <2>. QED  BY <2>1, <2>2, <2>3, <2>4 DEF IInv
  <1>4. CASE Tick  BY <1>4 DEF IInv, Tick, RtoBounded
  <1>5. CASE UNCHANGED vars  BY <1>5 DEF IInv, vars, RtoBounded
  <1>. QED  BY <1>1, <1>2, <1>3, <1>4, <1>5 DEF Next

\* IInv holds initially.
LEMMA Initial == Init => IInv
  BY DEF Init, IInv, RtoBounded, MIN_RTO, MAX_RTO

\* Every step keeps the timeout between MIN_RTO and a minute.
THEOREM TimeoutBounded == Spec => []RtoBounded
  <1>1. IInv => RtoBounded  BY DEF IInv
  <1>. QED  BY <1>1, Initial, Inductive, PTL DEF Spec

\* The timeout is MIN_RTO after every acknowledgement.
THEOREM TimeoutNeverAdapts == Spec => NeverAdapts
  <1>1. IInv /\ [Next]_vars => [\A p \in packets : Acked(p) => calculatedRTO' = MIN_RTO]_vars
    BY AckedResets
  <1>. QED  BY <1>1, Initial, Inductive, PTL DEF Spec, NeverAdapts
=============================================================================
