----------------------------- MODULE TcpConnStream -----------------------------
(***************************************************************************)
(* The bytes of one TCP connection, proved for every value of the          *)
(* constants: every payload in transit, tracked, kept early or half        *)
(* written has its place in the stream of its sender, so that what a host  *)
(* receives is a prefix of what its peer has written, and the connection   *)
(* implements a byte stream in each direction.                             *)
(***************************************************************************)
EXTENDS TcpConnAcks

\* A host writes less than the numbers can tell apart: 2^32 - 2 bytes.
NoWrap == \A h \in Hosts : MaxBytes[h] + 1 < SeqMod

-----------------------------------------------------------------------------
(* Parts of a stream.  The byte at position i of a stream is the number i. *)

\* s is what a stream has after position d.
From(d, s) == \A i \in DOMAIN s : s[i] = d + i

\* Bytes are sequences of numbers, with a length.
LEMMA BytesType ==
  /\ \A b \in Bytes : b \in Seq(Nat) /\ Len(b) \in Nat /\ DOMAIN b = 1..Len(b)
  /\ <<>> \in Bytes /\ Len(<<>>) = 0 /\ \A d : From(d, <<>>)
  /\ \A b \in Bytes : Len(b) = 0 => b = <<>>
  <1>1. \A b \in Bytes : b \in Seq(Nat) /\ Len(b) \in Nat /\ DOMAIN b = 1..Len(b)
    BY DEF Bytes
  <1>2. <<>> \in Bytes /\ Len(<<>>) = 0 /\ \A d : From(d, <<>>)
    BY DEF Bytes, From
  <1>3. \A b \in Bytes : Len(b) = 0 => b = <<>>
    BY EmptySeq DEF Bytes
  <1> QED BY <1>1, <1>2, <1>3

\* The two parts of what is cut.
LEMMA FromCut ==
  ASSUME NEW b \in Bytes, NEW n \in 0..Len(b), NEW d \in Nat, From(d, b)
  PROVE  From(d, SubSeq(b, 1, n)) /\ From(d + n, SubSeq(b, n + 1, Len(b)))
  <1>0. b \in Seq(Nat) /\ Len(b) \in Nat /\ n \in Nat /\ n <= Len(b) /\ \A i \in 1..Len(b) : b[i] = d + i
    BY BytesType DEF From
  <1>1. /\ DOMAIN SubSeq(b, 1, n) = 1..n
        /\ \A i \in 1..n : SubSeq(b, 1, n)[i] = b[i]
    BY <1>0
  <1>2. /\ DOMAIN SubSeq(b, n + 1, Len(b)) = 1..(Len(b) - n)
        /\ \A i \in 1..(Len(b) - n) : SubSeq(b, n + 1, Len(b))[i] = b[n + i]
    BY <1>0
  <1>3. From(d, SubSeq(b, 1, n))
    BY <1>0, <1>1 DEF From
  <1>4. ASSUME NEW i \in 1..(Len(b) - n) PROVE SubSeq(b, n + 1, Len(b))[i] = (d + n) + i
    <2>1. n + i \in 1..Len(b) /\ d + (n + i) = (d + n) + i
      BY <1>0
    <2> QED BY <1>0, <1>2, <2>1
  <1> QED BY <1>2, <1>3, <1>4 DEF From

\* What is joined.
LEMMA FromJoin ==
  ASSUME NEW a \in Bytes, NEW b \in Bytes, NEW d \in Nat, From(d, a), From(d + Len(a), b)
  PROVE  From(d, a \o b)
  <1>0. /\ a \in Seq(Nat) /\ Len(a) \in Nat /\ b \in Seq(Nat) /\ Len(b) \in Nat
        /\ \A i \in 1..Len(a) : a[i] = d + i
        /\ \A i \in 1..Len(b) : b[i] = (d + Len(a)) + i
    BY BytesType DEF From
  <1>1. DOMAIN (a \o b) = 1..(Len(a) + Len(b))
    BY <1>0
  <1>2. ASSUME NEW i \in 1..(Len(a) + Len(b)) PROVE (a \o b)[i] = d + i
    <2>1. CASE i <= Len(a)
      BY <1>0, <2>1
    <2>2. CASE i > Len(a)
      <3>1. i - Len(a) \in 1..Len(b) /\ (d + Len(a)) + (i - Len(a)) = d + i
        BY <1>0, <2>2
      <3>2. (a \o b)[i] = b[i - Len(a)]
        BY <1>0, <2>2
      <3> QED BY <1>0, <3>1, <3>2
    <2> QED BY <1>0, <2>1, <2>2
  <1> QED BY <1>1, <1>2 DEF From

-----------------------------------------------------------------------------
(* What a sender has not sent yet *)

\* The payload that trySendData has taken, snd.buf and the data that VWrite still
\* holds follow each other from the place that snd.NXT counts to.
Placed(iss, nxt, seg, buf, data, w, ok) ==
    \E d \in 0..w :
       /\ nxt = Plus(iss, 1 + d)
       /\ d + Len(seg) + Len(buf) + Len(data) <= w
       /\ ok => /\ d + Len(seg) + Len(buf) + Len(data) = w
                /\ From(d, seg) /\ From(d + Len(seg), buf) /\ From(d + Len(seg) + Len(buf), data)

\* More is written.
LEMMA PlacedMore ==
  ASSUME NEW i, NEW n, NEW buf \in Bytes, NEW data \in Bytes, NEW w \in Nat, NEW ok,
         Placed(i, n, <<>>, buf, <<>>, w, ok), From(w, data)
  PROVE  Placed(i, n, <<>>, buf, data, w + Len(data), ok)
  <1>1. PICK d \in 0..w :
           /\ n = Plus(i, 1 + d)
           /\ d + Len(<<>>) + Len(buf) + Len(<<>>) <= w
           /\ ok => /\ d + Len(<<>>) + Len(buf) + Len(<<>>) = w
                    /\ From(d, <<>>) /\ From(d + Len(<<>>), buf)
    BY DEF Placed
  <1>2. Len(<<>>) = 0 /\ Len(buf) \in Nat /\ Len(data) \in Nat
    BY BytesType
  <1>3. /\ d \in 0..(w + Len(data)) /\ d + Len(<<>>) + Len(buf) + Len(data) <= w + Len(data)
        /\ ok => /\ d + Len(<<>>) + Len(buf) + Len(data) = w + Len(data)
                 /\ d + Len(<<>>) + Len(buf) = w
    BY <1>1, <1>2
  <1>4. ok => From(d, <<>>) /\ From(d + Len(<<>>), buf) /\ From(d + Len(<<>>) + Len(buf), data)
    BY <1>1, <1>3
  <1> QED BY <1>1, <1>3, <1>4 DEF Placed

\* Data go into snd.buf.
LEMMA PlacedShift ==
  ASSUME NEW i, NEW n, NEW seg \in Bytes, NEW buf \in Bytes, NEW data \in Bytes, NEW w \in Nat, NEW ok,
         Placed(i, n, seg, buf, data, w, ok), NEW m \in 0..Len(data)
  PROVE  Placed(i, n, seg, buf \o SubSeq(data, 1, m), SubSeq(data, m + 1, Len(data)), w, ok)
  <1> DEFINE a == SubSeq(data, 1, m)
             b == SubSeq(data, m + 1, Len(data))
             c == buf \o a
  <1>1. PICK d \in 0..w :
           /\ n = Plus(i, 1 + d)
           /\ d + Len(seg) + Len(buf) + Len(data) <= w
           /\ ok => /\ d + Len(seg) + Len(buf) + Len(data) = w
                    /\ From(d, seg) /\ From(d + Len(seg), buf) /\ From(d + Len(seg) + Len(buf), data)
    BY DEF Placed
  <1>2. /\ Len(seg) \in Nat /\ Len(buf) \in Nat /\ Len(data) \in Nat
        /\ a \in Bytes /\ b \in Bytes /\ Len(a) = m /\ Len(b) = Len(data) - m
    BY BytesType, Cut
  <1>3. ok => From(d + Len(seg) + Len(buf), a) /\ From(d + Len(seg) + Len(buf) + m, b)
    <2>1. d + Len(seg) + Len(buf) \in Nat
      BY <1>2
    <2> QED BY <1>1, <2>1, FromCut
  <1> HIDE DEF a, b
  <1>4. c \in Bytes /\ Len(c) = Len(buf) + m
    BY <1>2, Join
  <1>5. ok => From(d + Len(seg), c)
    <2>1. d + Len(seg) \in Nat
      BY <1>2
    <2> QED BY <1>1, <1>2, <1>3, <2>1, FromJoin
  <1> HIDE DEF c
  <1>6. d + Len(seg) + Len(c) + Len(b) = d + Len(seg) + Len(buf) + Len(data)
    BY <1>2, <1>4
  <1>7. d + Len(seg) + Len(c) = d + Len(seg) + Len(buf) + m
    BY <1>2, <1>4
  <1> QED BY <1>1, <1>3, <1>5, <1>6, <1>7 DEF Placed, a, b, c

\* A payload is taken from snd.buf.
LEMMA PlacedTake ==
  ASSUME NEW i, NEW n, NEW buf \in Bytes, NEW data \in Bytes, NEW w \in Nat, NEW ok,
         Placed(i, n, <<>>, buf, data, w, ok), NEW m \in 0..Len(buf)
  PROVE  Placed(i, n, SubSeq(buf, 1, m), SubSeq(buf, m + 1, Len(buf)), data, w, ok)
  <1> DEFINE a == SubSeq(buf, 1, m)
             b == SubSeq(buf, m + 1, Len(buf))
  <1>1. PICK d \in 0..w :
           /\ n = Plus(i, 1 + d)
           /\ d + Len(<<>>) + Len(buf) + Len(data) <= w
           /\ ok => /\ d + Len(<<>>) + Len(buf) + Len(data) = w
                    /\ From(d + Len(<<>>), buf) /\ From(d + Len(<<>>) + Len(buf), data)
    BY DEF Placed
  <1>2. /\ Len(<<>>) = 0 /\ Len(buf) \in Nat /\ Len(data) \in Nat
        /\ a \in Bytes /\ b \in Bytes /\ Len(a) = m /\ Len(b) = Len(buf) - m
    BY BytesType, Cut
  <1>3. d + Len(<<>>) = d /\ d \in Nat
    BY <1>2
  <1>4. ok => From(d, a) /\ From(d + m, b)
    BY <1>1, <1>3, FromCut
  <1> HIDE DEF a, b
  <1>5. /\ d + Len(a) + Len(b) + Len(data) = d + Len(<<>>) + Len(buf) + Len(data)
        /\ d + Len(a) = d + m /\ d + Len(a) + Len(b) = d + Len(<<>>) + Len(buf)
    BY <1>2
  <1> QED BY <1>1, <1>4, <1>5 DEF Placed, a, b

\* snd.NXT counts what was sent.
LEMMA PlacedCount ==
  ASSUME NEW i \in Seqs, NEW n, NEW seg \in Bytes, NEW buf \in Bytes, NEW data \in Bytes, NEW w \in Nat,
         NEW ok, Placed(i, n, seg, buf, data, w, ok)
  PROVE  Placed(i, Plus(n, Len(seg)), <<>>, buf, data, w, ok)
  <1>1. PICK d \in 0..w :
           /\ n = Plus(i, 1 + d)
           /\ d + Len(seg) + Len(buf) + Len(data) <= w
           /\ ok => /\ d + Len(seg) + Len(buf) + Len(data) = w
                    /\ From(d + Len(seg), buf) /\ From(d + Len(seg) + Len(buf), data)
    BY DEF Placed
  <1>2. Len(<<>>) = 0 /\ Len(seg) \in Nat /\ Len(buf) \in Nat /\ Len(data) \in Nat /\ \A x : From(x, <<>>)
    BY BytesType
  <1> DEFINE e == d + Len(seg)
  <1>3. /\ e \in 0..w /\ 1 + d \in Nat /\ (1 + d) + Len(seg) = 1 + e
        /\ e + Len(<<>>) = e
    BY <1>1, <1>2
  <1>4. Plus(n, Len(seg)) = Plus(i, 1 + e)
    BY <1>1, <1>2, <1>3, PlusPlus
  <1> HIDE DEF e
  <1> QED BY <1>1, <1>2, <1>3, <1>4 DEF Placed, e

\* The rest of a write that has failed is dropped.
LEMMA PlacedDrop ==
  ASSUME NEW i, NEW n, NEW seg \in Bytes, NEW buf \in Bytes, NEW data \in Bytes, NEW w \in Nat, NEW ok,
         Placed(i, n, seg, buf, data, w, ok)
  PROVE  Placed(i, n, <<>>, buf, <<>>, w, FALSE)
  <1>1. PICK d \in 0..w : n = Plus(i, 1 + d) /\ d + Len(seg) + Len(buf) + Len(data) <= w
    BY DEF Placed
  <1>2. Len(<<>>) = 0 /\ Len(seg) \in Nat /\ Len(buf) \in Nat /\ Len(data) \in Nat
    BY BytesType
  <1>3. d + Len(<<>>) + Len(buf) + Len(<<>>) <= w
    BY <1>1, <1>2
  <1> QED BY <1>1, <1>3 DEF Placed

-----------------------------------------------------------------------------
(* The invariant: every payload has its place in the stream of its sender *)

\* What the local variables of the application goroutine hold, and how much it
\* may write.
Shape(h) ==
    /\ repl[h].pc \in {"idle", "read", "close"} => repl[h].data = <<>>
    /\ repl[h].pc \in {"idle", "read", "close", "send"} => repl[h].seg = <<>>
    /\ repl[h].pc = "zwp" => Len(repl[h].seg) = 1
    /\ repl[h].pc = "read" => repl[h].n > 0
    /\ written[h] <= MaxBytes[h]

\* What h has written and not sent follows what it has sent.
Unsent(h) ==
    Placed(snd[h].ISS, snd[h].NXT, repl[h].seg, snd[h].buf, repl[h].data, written[h], h \notin failed)

Queue(h) == Shape(h) /\ Unsent(h)

\* The payload of x is where its sequence number says.
InPlace(h, x) ==
    \E d \in 0..written[h] :
       /\ x.seq = Plus(snd[h].ISS, 1 + d)
       /\ d + Len(x.data) <= written[h]
       /\ h \notin failed => From(d, x.data)

\* What the peer of h is writing into its rcv.buf is what comes next.
Ahead(h) ==
    LET n == Len(Received(Peer(h))) IN
    iface[Peer(h)].pc = "write" =>
       /\ n + Len(iface[Peer(h)].rest) <= written[h]
       /\ h \notin failed => From(n, iface[Peer(h)].rest)

\* The payloads of h on their way: in transit, in h's list, kept early by the
\* peer, or being written into its rcv.buf.
InTransit(h) ==
    /\ \A x \in Sent(h) \cup rcv[Peer(h)].early : x.data # <<>> => InPlace(h, x)
    /\ Ahead(h)

\* What the peer of h has received is the beginning of what h has written.
Arrived(h) ==
    /\ Len(Received(Peer(h))) <= written[h]
    /\ h \notin failed => From(0, Received(Peer(h)))

SInv == CInv /\ \A h \in Hosts : Queue(h) /\ InTransit(h) /\ Arrived(h)

-----------------------------------------------------------------------------
(* Steps of the sender *)

\* The types of what h has written.
LEMMA SenderType ==
  ASSUME SInv, NEW h \in Hosts
  PROVE  /\ snd \in [Hosts -> SND] /\ repl \in [Hosts -> REPL]
         /\ snd[h] \in SND /\ repl[h] \in REPL /\ snd[h].buf \in Bytes /\ snd[h].ISS \in Seqs
         /\ repl[h].seg \in Bytes /\ repl[h].data \in Bytes /\ written[h] \in Nat
         /\ written \in [Hosts -> Nat] /\ Shape(h) /\ Unsent(h) /\ IInv
  BY Owned, HostType DEF SInv, CInv, HInv, Queue, SND

\* Nothing that is to be sent has changed.
Unmoved(h) ==
    /\ snd'[h].ISS = snd[h].ISS /\ snd'[h].NXT = snd[h].NXT /\ snd'[h].buf = snd[h].buf
    /\ repl'[h].seg = repl[h].seg /\ repl'[h].data = repl[h].data
    /\ written'[h] = written[h] /\ (h \in failed' <=> h \in failed)

\* Then only the goroutine's place can have changed.
LEMMA QueueUnmoved ==
  ASSUME SInv, NEW h \in Hosts, Unmoved(h),
         \/ repl'[h].pc = repl[h].pc /\ repl'[h].n = repl[h].n
         \/ repl[h].pc = "idle" /\ repl'[h].pc = "read" /\ repl'[h].n > 0
         \/ repl[h].pc = "idle" /\ repl'[h].pc = "close"
         \/ repl[h].pc = "zwp" /\ repl'[h].pc = "zwp"
         \/ repl[h].pc = "arm" /\ repl'[h].pc = "track"
  PROVE  Queue(h)'
  <1>1. Unsent(h)'
    <2>1. (h \notin failed)' = (h \notin failed)
      BY DEF Unmoved
    <2> QED BY <2>1, SenderType DEF Unsent, Unmoved
  <1>2. Shape(h)'
    BY SenderType DEF Shape, Unmoved
  <1> QED BY <1>1, <1>2 DEF Queue

\* An application that has nothing to write, on a new connection or not.
LEMMA QueueEmpty ==
  ASSUME SInv, NEW h \in Hosts, repl[h].pc = "idle", repl' = repl, written[h] = 0, written'[h] = 0,
         snd'[h].NXT = Plus(snd'[h].ISS, 1), snd'[h].buf = <<>>
  PROVE  Queue(h)'
  <1>1. repl[h].seg = <<>> /\ repl[h].data = <<>> /\ Shape(h)'
    BY SenderType DEF Shape
  <1>2. /\ 0 \in 0..0 /\ 1 + 0 = 1 /\ 0 + Len(<<>>) + Len(<<>>) + Len(<<>>) = 0
        /\ \A d : From(d, <<>>)
    BY BytesType
  <1>3. \A i, ok : Placed(i, Plus(i, 1), <<>>, <<>>, <<>>, 0, ok)
    BY <1>2 DEF Placed
  <1>4. Unsent(h)'
    BY <1>1, <1>3 DEF Unsent
  <1> QED BY <1>1, <1>4 DEF Queue

\* A connection that has written nothing has nothing in snd.buf.
LEMMA NothingBuffered ==
  ASSUME SInv, NEW h \in Hosts, written[h] = 0 PROVE snd[h].buf = <<>>
  <1>1. PICK d \in 0..written[h] :
           d + Len(repl[h].seg) + Len(snd[h].buf) + Len(repl[h].data) <= written[h]
    BY SenderType DEF Unsent, Placed
  <1>2. /\ Len(repl[h].seg) \in Nat /\ Len(snd[h].buf) \in Nat /\ Len(repl[h].data) \in Nat
    BY SenderType, BytesType
  <1>3. \A d1, a, b, c \in Nat : d1 + a + b + c <= 0 => b = 0
    OBVIOUS
  <1>4. d \in Nat /\ written[h] = 0
    BY SenderType
  <1>5. Len(snd[h].buf) = 0
    BY <1>1, <1>2, <1>3, <1>4
  <1> QED BY <1>5, SenderType, BytesType

\* Opening the connection.
LEMMA OpeningQueue ==
  ASSUME SInv, NEW h \in Hosts, Step(h), (h = Client /\ VConnect) \/ Shakes(h) PROVE Queue(h)'
  <1> DEFINE g == Head(net[h])
  <1>0. state[h] \in {"NONE", "SYN_SENT"} /\ repl' = repl /\ written' = written
    BY DEF VConnect, Shakes, handleSYN, handleSYNACK, threads, history
  <1>1. repl[h].pc = "idle" /\ written[h] = 0
    BY <1>0, OpensSilent DEF SInv, CInv, Silent
  <1>2. CASE h = Client /\ VConnect
    <2>1. PICK isn \in ISNs[h] : VConnect!3!(isn)
      BY <1>2 DEF VConnect
    <2>2. snd'[h].NXT = Plus(snd'[h].ISS, 1) /\ snd'[h].buf = <<>>
      BY <1>2, <2>1, SenderType DEF Tracked, NewSND
    <2> QED BY <1>0, <1>1, <2>2, QueueEmpty
  <1>3. CASE h = Server /\ handleSYN(g)
    <2>1. snd'[h].NXT = Plus(snd'[h].ISS, 1) /\ snd'[h].buf = <<>>
      BY <1>3, SenderType DEF handleSYN, Tracked, NewSND
    <2> QED BY <1>0, <1>1, <2>1, QueueEmpty
  <1>4. CASE handleSYNACK(h, g)
    <2>1. /\ snd'[h].NXT = g.ack /\ snd'[h].ISS = snd[h].ISS /\ snd'[h].buf = snd[h].buf
          /\ state[h] = "SYN_SENT" /\ Receives(h, g) /\ "ACK" \in g.flags
      BY <1>4, SenderType DEF handleSYNACK, SND
    <2>2. g \in Wire(Peer(h))
      BY <2>1, SenderType, HeadWire
    <2>3. BeforeFIN(h)
      BY <2>1 DEF BeforeFIN, Young, SInv, CInv, HInv, Closing
    <2>4. PICK j \in 0..Len(Received(Peer(h))) : g.ack = Plus(snd[h].ISS, 1 + j)
      BY <2>1, <2>2, <2>3 DEF SInv, CInv, AcksInv, Acks
    <2>5. Len(Received(Peer(h))) <= 0 /\ Len(Received(Peer(h))) \in Nat
      BY <1>1, PeerIsHost, ReceivedGrows DEF SInv, CInv, Arrived
    <2>6. 1 + j = 1
      BY <2>5
    <2> QED BY <1>0, <1>1, <2>1, <2>4, <2>6, NothingBuffered, QueueEmpty
  <1> QED BY <1>2, <1>3, <1>4 DEF Shakes

\* The other handlers, and the rest of the interface goroutine.
LEMMA ReceivingQueue == ASSUME SInv, NEW h \in Hosts, Step(h), Receiving(h) PROVE Queue(h)'
  <1>1. CASE Shakes(h)
    BY <1>1, OpeningQueue
  <1>2. CASE ~Shakes(h)
    <2>1. Kept(snd'[h], snd[h])
      BY <1>2, ReceivingReceives DEF InterfaceStep, SInv, CInv
    <2>2. repl' = repl /\ written' = written /\ failed' = failed
      BY DEF Receiving, HandlePacket, handleSYN, handleSYNACK, handleACK, handleEstablishedPacket,
             handleData, handleFIN, handleClosingACK, handleRST, ignore, rcvBufWrite,
             processInOrderData, threads, history
    <2> QED BY <2>1, <2>2, QueueUnmoved DEF Kept, Unmoved
  <1> QED BY <1>1, <1>2

\* TryWrite passes data on to snd.buf, and keeps the rest.
LEMMA TryWriteQueue ==
  ASSUME SInv, NEW h \in Hosts, NEW data \in Bytes, TryWrite(h, data), repl[h].seg = <<>>,
         NEW w \in Nat, NEW ok, Placed(snd[h].ISS, snd[h].NXT, <<>>, snd[h].buf, data, w, ok)
  PROVE  /\ repl'[h].pc = "send" /\ repl'[h].seg = <<>>
         /\ Placed(snd'[h].ISS, snd'[h].NXT, repl'[h].seg, snd'[h].buf, repl'[h].data, w, ok)
  <1> DEFINE n == Smaller(Len(data), Free(snd[h].buf))
             a == SubSeq(data, 1, n)
             b == SubSeq(data, n + 1, Len(data))
  <1>1. n \in 0..Len(data)
    <2>1. Len(data) \in Nat /\ Len(snd[h].buf) \in Nat /\ Len(snd[h].buf) <= BUFFER_SIZE /\ BUFFER_SIZE \in Nat
      BY BytesType, HostType, ConstantsAssumption DEF SInv, CInv, HInv
    <2> QED BY <2>1 DEF Smaller, Free
  <1>2. Placed(snd[h].ISS, snd[h].NXT, <<>>, snd[h].buf \o a, b, w, ok)
    BY <1>1, SenderType, NoBytes, PlacedShift
  <1>3. /\ snd' = [snd EXCEPT ![h].buf = @ \o a]
        /\ repl' = [repl EXCEPT ![h] = [Idle EXCEPT !.pc = "send", !.data = b]]
    BY DEF TryWrite
  <1> HIDE DEF a, b, n
  <1>4. snd'[h].ISS = snd[h].ISS /\ snd'[h].NXT = snd[h].NXT /\ snd'[h].buf = snd[h].buf \o a
    BY <1>3, SenderType DEF SND
  <1>5. repl'[h].pc = "send" /\ repl'[h].seg = <<>> /\ repl'[h].data = b
    BY <1>3, SenderType DEF Idle
  <1> QED BY <1>2, <1>4, <1>5

\* VWrite appends to the stream.
LEMMA VWriteQueue == ASSUME SInv, NEW h \in Hosts, VWrite(h) PROVE Queue(h)'
  <1> DEFINE data(n) == [k \in 1..n |-> written[h] + k]
  <1>1. PICK n \in WriteSizes[h] :
           /\ written[h] + n <= MaxBytes[h] /\ written' = [written EXCEPT ![h] = @ + n]
           /\ TryWrite(h, data(n))
    BY DEF VWrite
  <1>2. n \in Nat /\ repl[h].pc = "idle" /\ failed' = failed
    BY ConstantsAssumption DEF VWrite, AppIdle
  <1>3. repl[h].seg = <<>> /\ repl[h].data = <<>>
    BY <1>2, SenderType DEF Shape
  <1>4. data(n) \in Bytes /\ Len(data(n)) = n /\ From(written[h], data(n))
    <2>1. \A k \in 1..n : written[h] + k \in Nat
      BY <1>2, SenderType
    <2> QED BY <1>2, <2>1 DEF From, Bytes
  <1>5. Placed(snd[h].ISS, snd[h].NXT, <<>>, snd[h].buf, <<>>, written[h], h \notin failed)
    BY <1>3, SenderType DEF Unsent
  <1>6. written'[h] = written[h] + n /\ written'[h] \in Nat /\ written'[h] <= MaxBytes[h]
    BY <1>1, <1>2, SenderType
  <1> HIDE DEF data
  <1>7. Placed(snd[h].ISS, snd[h].NXT, <<>>, snd[h].buf, data(n), written'[h], h \notin failed)
    <2>1. snd[h].buf \in Bytes /\ written[h] \in Nat
      BY SenderType
    <2>2. Placed(snd[h].ISS, snd[h].NXT, <<>>, snd[h].buf, data(n), written[h] + Len(data(n)), h \notin failed)
      BY <1>4, <1>5, <2>1, PlacedMore
    <2> QED BY <1>4, <1>6, <2>2
  <1>8. /\ repl'[h].pc = "send" /\ repl'[h].seg = <<>>
        /\ Placed(snd'[h].ISS, snd'[h].NXT, repl'[h].seg, snd'[h].buf, repl'[h].data, written'[h], h \notin failed)
    BY <1>1, <1>3, <1>4, <1>6, <1>7, TryWriteQueue
  <1>9. Unsent(h)'
    BY <1>2, <1>8 DEF Unsent
  <1> QED BY <1>6, <1>8, <1>9 DEF Queue, Shape

\* The rest of the application.
LEMMA ApplicationQueue ==
  ASSUME SInv, NEW h \in Hosts, Application(h) \/ VReadReturn(h) \/ VCloseReturn(h) PROVE Queue(h)'
  <1>1. CASE VWrite(h)
    BY <1>1, VWriteQueue
  <1>2. CASE VRead(h)
    <2>1. PICK n \in ReadSizes[h] : repl' = [repl EXCEPT ![h] = [@ EXCEPT !.pc = "read", !.n = n]]
      BY <1>2 DEF VRead
    <2>2. /\ repl[h].pc = "idle" /\ repl'[h].pc = "read" /\ repl'[h].n = n
          /\ repl'[h].seg = repl[h].seg /\ repl'[h].data = repl[h].data
      BY <1>2, <2>1, SenderType DEF VRead, AppIdle, REPL
    <2>3. n > 0
      BY ConstantsAssumption
    <2> QED BY <1>2, <2>2, <2>3, QueueUnmoved DEF VRead, sockets, history, Unmoved
  <1>3. CASE VClose(h)
    <2>1. snd'[h].ISS = snd[h].ISS /\ snd'[h].NXT = snd[h].NXT /\ snd'[h].buf = snd[h].buf
      BY <1>3, SenderType, FINKeeps DEF VClose
    <2>2. /\ repl[h].pc = "idle" /\ repl'[h].pc = "close"
          /\ repl'[h].seg = repl[h].seg /\ repl'[h].data = repl[h].data
      BY <1>3, SenderType DEF VClose, AppIdle, REPL
    <2> QED BY <1>3, <2>1, <2>2, QueueUnmoved DEF VClose, history, Unmoved
  <1>4. CASE sendRST(h)
    BY <1>4, QueueUnmoved DEF sendRST, sockets, threads, Unmoved
  <1>5. CASE VReadReturn(h) \/ VCloseReturn(h)
    <2>1. /\ repl[h].pc \in {"read", "close"} /\ repl' = [repl EXCEPT ![h] = Idle] /\ snd' = snd
          /\ written' = written /\ failed' = failed
      BY <1>5 DEF VReadReturn, VCloseReturn
    <2>2. repl[h].seg = <<>> /\ repl[h].data = <<>>
      BY <2>1, SenderType DEF Shape
    <2>3. repl'[h].pc = "idle" /\ repl'[h].seg = <<>> /\ repl'[h].data = <<>>
      BY <2>1, SenderType DEF Idle
    <2>4. Unsent(h)'
      BY <2>1, <2>2, <2>3, SenderType DEF Unsent
    <2> QED BY <2>1, <2>3, <2>4, SenderType DEF Queue, Shape
  <1> QED BY <1>1, <1>2, <1>3, <1>4, <1>5 DEF Application

\* The loop of trySendData, and its probes of a closed window.
LEMMA SendingQueue == ASSUME SInv, NEW h \in Hosts, Sending(h) \/ Probing(h) PROVE Queue(h)'
  <1> DEFINE buf == snd[h].buf
             seg == repl[h].seg
             data == repl[h].data
  <1>0. /\ buf \in Bytes /\ seg \in Bytes /\ data \in Bytes /\ snd[h].ISS \in Seqs /\ written[h] \in Nat
        /\ Placed(snd[h].ISS, snd[h].NXT, seg, buf, data, written[h], h \notin failed)
        /\ repl[h].pc = "send" => seg = <<>>
        /\ repl[h].pc = "zwp" => Len(seg) = 1
        /\ written[h] <= MaxBytes[h]
    BY SenderType DEF Shape, Unsent
  <1> HIDE DEF buf, seg, data
  <1>q. ASSUME written' = written, failed' = failed, repl'[h].pc \notin {"read", "zwp"},
               repl'[h].pc = "idle" => repl'[h].seg = <<>> /\ repl'[h].data = <<>>,
               repl'[h].pc = "send" => repl'[h].seg = <<>>, repl'[h].pc # "close",
               Placed(snd'[h].ISS, snd'[h].NXT, repl'[h].seg, snd'[h].buf, repl'[h].data, written[h], h \notin failed)
        PROVE  Queue(h)'
    <2>1. Unsent(h)'
      BY <1>q DEF Unsent
    <2> QED BY <1>0, <1>q, <2>1 DEF Queue, Shape
  <1>1. CASE VWriteLoop(h)
    <2>1. repl[h].pc = "send" /\ seg = <<>> /\ written' = written /\ failed' = failed
      BY <1>0, <1>1 DEF VWriteLoop, history
    <2>2. CASE TryWrite(h, data)
      <3>1. /\ repl'[h].pc = "send" /\ repl'[h].seg = <<>>
            /\ Placed(snd'[h].ISS, snd'[h].NXT, repl'[h].seg, snd'[h].buf, repl'[h].data, written[h], h \notin failed)
        BY <1>0, <2>1, <2>2, TryWriteQueue DEF buf, seg
      <3> QED BY <1>q, <2>1, <3>1
    <2>3. CASE data = <<>> /\ repl' = [repl EXCEPT ![h] = Idle] /\ UNCHANGED snd
      <3>1. repl'[h].pc = "idle" /\ repl'[h].seg = <<>> /\ repl'[h].data = <<>>
        BY <2>3, SenderType DEF Idle
      <3> QED BY <1>0, <1>q, <2>1, <2>3, <3>1 DEF buf
    <2> QED BY <1>1, <2>2, <2>3 DEF VWriteLoop, data
  <1>2. CASE trySendData(h)
    <2> DEFINE n == Smaller(Smaller(freeWindowSpace(snd[h]), MAX_TCP_PAYLOAD), Len(buf))
               a == SubSeq(buf, 1, n)
               b == SubSeq(buf, n + 1, Len(buf))
    <2>1. /\ repl[h].pc = "send" /\ seg = <<>> /\ written' = written /\ failed' = failed
          /\ snd' = [snd EXCEPT ![h].buf = b]
          /\ repl' = [repl EXCEPT ![h] = [@ EXCEPT !.pc = "arm", !.seg = a]]
      BY <1>0, <1>2 DEF trySendData, history, buf
    <2>2. n \in 0..Len(buf)
      <3>1. freeWindowSpace(snd[h]) \in Nat /\ MAX_TCP_PAYLOAD \in Nat /\ Len(buf) \in Nat
        BY <1>0, SenderType, WindowType, BytesType, ConstantsAssumption DEF Wnds
      <3> QED BY <3>1 DEF Smaller
    <2>3. Placed(snd[h].ISS, snd[h].NXT, a, b, data, written[h], h \notin failed)
      BY <1>0, <2>1, <2>2, PlacedTake
    <2> HIDE DEF a, b
    <2>4. snd'[h].ISS = snd[h].ISS /\ snd'[h].NXT = snd[h].NXT /\ snd'[h].buf = b
      BY <2>1, SenderType DEF SND
    <2>5. repl'[h].pc = "arm" /\ repl'[h].seg = a /\ repl'[h].data = data
      BY <2>1, SenderType DEF REPL, data
    <2> QED BY <1>q, <2>1, <2>3, <2>4, <2>5
  <1>3. CASE startTimer(h)
    <2>1. snd'[h].ISS = snd[h].ISS /\ snd'[h].NXT = snd[h].NXT /\ snd'[h].buf = snd[h].buf
      BY <1>3, SenderType DEF startTimer, SND
    <2>2. /\ repl[h].pc = "arm" /\ repl'[h].pc = "track"
          /\ repl'[h].seg = repl[h].seg /\ repl'[h].data = repl[h].data
      BY <1>3, SenderType DEF startTimer, REPL
    <2> QED BY <1>3, <2>1, <2>2, QueueUnmoved DEF startTimer, history, Unmoved
  <1>4. CASE trackPacket(h)
    <2> DEFINE p == Packet({"ACK"}, snd[h].NXT, Len(seg), 0, seg)
               m == Plus(snd[h].NXT, Len(seg))
    <2>1. /\ snd' = [snd EXCEPT ![h] = [Tracked(snd[h], p) EXCEPT !.NXT = m]]
          /\ repl' = [repl EXCEPT ![h] = [@ EXCEPT !.pc = "send", !.seg = <<>>]]
          /\ written' = written /\ failed' = failed
      BY <1>4 DEF trackPacket, history, seg
    <2>2. Placed(snd[h].ISS, m, <<>>, buf, data, written[h], h \notin failed)
      BY <1>0, PlacedCount
    <2> HIDE DEF p, m
    <2>3. snd'[h].ISS = snd[h].ISS /\ snd'[h].NXT = m /\ snd'[h].buf = buf
      BY <2>1, SenderType DEF Tracked, SND, buf
    <2>4. repl'[h].pc = "send" /\ repl'[h].seg = <<>> /\ repl'[h].data = data
      BY <2>1, SenderType DEF REPL, data
    <2> QED BY <1>q, <2>1, <2>2, <2>3, <2>4
  <1>5. CASE startProbing(h)
    <2> DEFINE a == SubSeq(buf, 1, 1)
               b == SubSeq(buf, 1 + 1, Len(buf))
    <2>1. /\ repl[h].pc = "send" /\ seg = <<>> /\ buf # <<>> /\ written' = written /\ failed' = failed
          /\ snd' = [snd EXCEPT ![h].buf = Tail(buf)]
          /\ repl' = [repl EXCEPT ![h] = [@ EXCEPT !.pc = "zwp", !.seg = a]]
      BY <1>0, <1>5 DEF startProbing, history, buf
    <2>2. Tail(buf) = b /\ 1 \in 0..Len(buf) /\ Len(a) = 1
      <3>1. buf \in Seq(Nat) /\ Len(buf) \in Nat /\ Len(buf) # 0
        BY <1>0, <2>1, BytesType
      <3> QED BY <3>1
    <2>3. Placed(snd[h].ISS, snd[h].NXT, a, b, data, written[h], h \notin failed)
      BY <1>0, <2>1, <2>2, PlacedTake
    <2> HIDE DEF a, b
    <2>4. snd'[h].ISS = snd[h].ISS /\ snd'[h].NXT = snd[h].NXT /\ snd'[h].buf = b
      BY <2>1, <2>2, SenderType DEF SND
    <2>5. repl'[h].pc = "zwp" /\ repl'[h].seg = a /\ repl'[h].data = data
      BY <2>1, SenderType DEF REPL, data
    <2>6. Unsent(h)'
      BY <2>1, <2>3, <2>4, <2>5 DEF Unsent
    <2> QED BY <1>0, <2>1, <2>2, <2>5, <2>6 DEF Queue, Shape
  <1>6. CASE sendZeroWindowProbe(h)
    <2>1. /\ repl[h].pc = "zwp" /\ repl'[h].pc = "zwp"
          /\ repl'[h].seg = repl[h].seg /\ repl'[h].data = repl[h].data
      BY <1>6, SenderType DEF sendZeroWindowProbe, REPL
    <2> QED BY <1>6, <2>1, QueueUnmoved DEF sendZeroWindowProbe, sockets, Unmoved
  <1>7. CASE probingEnds(h)
    <2>1. repl[h].pc = "zwp" /\ Len(seg) = 1 /\ written' = written
      BY <1>0, <1>7 DEF probingEnds
    <2>2. CASE repl' = [repl EXCEPT ![h] = Idle] /\ failed' = failed \cup {h} /\ snd' = snd
      <3>1. repl'[h].pc = "idle" /\ repl'[h].seg = <<>> /\ repl'[h].data = <<>>
        BY <2>2, SenderType DEF Idle
      <3>2. Placed(snd[h].ISS, snd[h].NXT, <<>>, buf, <<>>, written[h], FALSE)
        BY <1>0, PlacedDrop
      <3>3. (h \notin failed') = FALSE
        BY <2>2
      <3>4. Unsent(h)'
        BY <2>1, <2>2, <3>1, <3>2, <3>3 DEF Unsent, buf
      <3> QED BY <1>0, <2>1, <3>1, <3>4 DEF Queue, Shape
    <2>3. CASE /\ failed' = failed /\ snd' = [snd EXCEPT ![h].NXT = Plus(@, 1)]
               /\ repl' = [repl EXCEPT ![h] = [@ EXCEPT !.pc = "send", !.seg = <<>>, !.n = 0]]
      <3>1. Placed(snd[h].ISS, Plus(snd[h].NXT, 1), <<>>, buf, data, written[h], h \notin failed)
        BY <1>0, <2>1, PlacedCount
      <3>2. snd'[h].ISS = snd[h].ISS /\ snd'[h].NXT = Plus(snd[h].NXT, 1) /\ snd'[h].buf = buf
        BY <2>3, SenderType DEF SND, buf
      <3>3. repl'[h].pc = "send" /\ repl'[h].seg = <<>> /\ repl'[h].data = data
        BY <2>3, SenderType DEF REPL, data
      <3> QED BY <1>q, <2>1, <2>3, <3>1, <3>2, <3>3
    <2> QED BY <1>7, <2>2, <2>3 DEF probingEnds
  <1> QED BY <1>1, <1>2, <1>3, <1>4, <1>5, <1>6, <1>7 DEF Sending, Probing

\* Every step.
LEMMA StepQueue == ASSUME SInv, NEW h \in Hosts, Step(h) PROVE \A k \in Hosts : Queue(k)'
  <1>1. ASSUME NEW k \in Hosts, k # h PROVE Queue(k)'
    <2>1. PeerSame(h)
      BY StepFacts DEF SInv, CInv
    <2>2. snd'[k] = snd[k] /\ repl'[k] = repl[k] /\ Unmoved(k)
      BY <1>1, <2>1 DEF PeerSame, Unmoved
    <2> QED BY <2>2, QueueUnmoved
  <1>2. Queue(h)'
    <2>1. CASE h = Client /\ VConnect
      BY <2>1, OpeningQueue
    <2>2. CASE VConnectReturn \/ HandshakeTimeout \/ VAccept \/ TimeWaitExpires(h) \/ Fault(h)
      <3>1. snd' = snd /\ repl' = repl /\ written' = written /\ failed' = failed
        BY <2>2 DEF VConnectReturn, HandshakeTimeout, VAccept, TimeWaitExpires, Fault, sockets, threads, history
      <3> QED BY <3>1, QueueUnmoved DEF Unmoved
    <2>3. CASE Application(h) \/ VReadReturn(h) \/ VCloseReturn(h)
      BY <2>3, ApplicationQueue
    <2>4. CASE Sending(h) \/ Probing(h)
      BY <2>4, SendingQueue
    <2>5. CASE Retransmitting(h)
      <3>1. repl' = repl /\ written' = written /\ failed' = failed
        BY <2>5 DEF Retransmitting, retransmitPacket, relistPacket, nothingToRetransmit, giveUp,
                    giveUpReturn, threads, history
      <3> QED BY <2>5, <3>1, SenderType, RetransmittingKeeps, QueueUnmoved DEF Unmoved
    <2>6. CASE Receiving(h)
      BY <2>6, ReceivingQueue
    <2> QED BY <2>1, <2>2, <2>3, <2>4, <2>5, <2>6 DEF Step
  <1> QED BY <1>1, <1>2

-----------------------------------------------------------------------------
(* Steps of the payloads on their way *)

\* The steps that add to what h has written, or fail one of its VWrites.
LEMMA StepWritten ==
  ASSUME SInv, NEW h \in Hosts, Step(h)
  PROVE  /\ written' = written \/ \E n \in Nat : written' = [written EXCEPT ![h] = @ + n]
         /\ failed' = failed \/ failed' = failed \cup {h}
  <1>1. CASE VWrite(h)
    <2>1. PICK n \in WriteSizes[h] : written' = [written EXCEPT ![h] = @ + n]
      BY <1>1 DEF VWrite
    <2>2. n \in Nat
      BY ConstantsAssumption
    <2> QED BY <1>1, <2>1, <2>2 DEF VWrite
  <1>2. CASE VConnect \/ VConnectReturn \/ HandshakeTimeout \/ VAccept \/ TimeWaitExpires(h) \/ Fault(h)
    BY <1>2 DEF VConnect, VConnectReturn, HandshakeTimeout, VAccept, TimeWaitExpires, Fault, history
  <1>3. CASE VRead(h) \/ VClose(h) \/ sendRST(h) \/ VReadReturn(h) \/ VCloseReturn(h)
    BY <1>3 DEF VRead, VClose, sendRST, VReadReturn, VCloseReturn, history
  <1>4. CASE Sending(h) \/ Probing(h)
    BY <1>4 DEF Sending, VWriteLoop, trySendData, startTimer, trackPacket, Probing, startProbing,
                sendZeroWindowProbe, probingEnds, history
  <1>5. CASE Retransmitting(h)
    BY <1>5 DEF Retransmitting, retransmitPacket, relistPacket, nothingToRetransmit, giveUp,
                giveUpReturn, history
  <1>6. CASE Receiving(h)
    BY <1>6 DEF Receiving, HandlePacket, handleSYN, handleSYNACK, handleACK, handleEstablishedPacket,
                handleData, handleFIN, handleClosingACK, handleRST, ignore, rcvBufWrite,
                processInOrderData, threads, history
  <1> QED BY <1>1, <1>2, <1>3, <1>4, <1>5, <1>6 DEF Step, Application

\* A stream only grows, and a host that has written keeps its initial number.
LEMMA StreamGrows ==
  ASSUME SInv, NEW h \in Hosts, Step(h), NEW k \in Hosts
  PROVE  /\ written[k] \in Nat /\ written'[k] \in Nat /\ written[k] <= written'[k]
         /\ k \in failed => k \in failed'
         /\ written[k] > 0 => snd'[k].ISS = snd[k].ISS
  <1>1. written \in [Hosts -> Nat] /\ written[k] \in Nat
    BY Owned DEF SInv, CInv, HInv
  <1>2. written'[k] \in Nat /\ written[k] <= written'[k] /\ (k \in failed => k \in failed')
    <2>1. CASE written' = written
      BY <1>1, <2>1, StepWritten
    <2>2. CASE \E n \in Nat : written' = [written EXCEPT ![h] = @ + n]
      <3>1. PICK n \in Nat : written' = [written EXCEPT ![h] = @ + n]
        BY <2>2
      <3>2. written'[k] = written[k] \/ written'[k] = written[k] + n
        BY <1>1, <3>1
      <3> QED BY <1>1, <3>2, StepWritten
    <2> QED BY <2>1, <2>2, StepWritten
  <1>3. ASSUME written[k] > 0 PROVE snd'[k].ISS = snd[k].ISS
    <2>1. CASE k # h
      BY <2>1, StepFacts DEF SInv, CInv, PeerSame
    <2>2. CASE k = h
      <3>1. state[h] # "NONE"
        BY <1>3, <2>2, OpensSilent DEF SInv, CInv, Silent
      <3> QED BY <2>2, <3>1, StepFacts DEF SInv, CInv, Local, NumbersSet
    <2> QED BY <2>1, <2>2
  <1> QED BY <1>1, <1>2, <1>3

\* A payload stays in its place.
LEMMA InPlaceStays ==
  ASSUME SInv, NEW h \in Hosts, Step(h), NEW k \in Hosts, NEW x, x.data \in Bytes, x.data # <<>>,
         InPlace(k, x)
  PROVE  InPlace(k, x)'
  <1>1. PICK d \in 0..written[k] :
           /\ x.seq = Plus(snd[k].ISS, 1 + d) /\ d + Len(x.data) <= written[k]
           /\ k \notin failed => From(d, x.data)
    BY DEF InPlace
  <1>2. Len(x.data) \in Nat /\ Len(x.data) # 0
    BY BytesType
  <1>3. /\ written[k] \in Nat /\ written'[k] \in Nat /\ written[k] <= written'[k]
        /\ k \in failed => k \in failed'
        /\ written[k] > 0 => snd'[k].ISS = snd[k].ISS
    BY StreamGrows
  <1>4. d \in 0..written'[k] /\ d + Len(x.data) <= written'[k] /\ written[k] > 0
    BY <1>1, <1>2, <1>3
  <1>5. x.seq = Plus(snd'[k].ISS, 1 + d) /\ (k \notin failed' => From(d, x.data))
    BY <1>1, <1>3, <1>4
  <1> QED BY <1>4, <1>5 DEF InPlace

\* What is in transit, or kept early, is bytes.
LEMMA TransitType ==
  ASSUME SInv, NEW h \in Hosts
  PROVE  /\ \A x \in Sent(h) : x.data \in Bytes
         /\ \A x \in rcv[h].early : x.data \in Bytes
  <1>1. \A x \in Wire(h) : x \in Segments
    BY PeerIsHost DEF SInv, CInv, HInv, IInv, TypeOK, Wire
  <1>2. \A x \in Listed(h) : x \in Packets
    BY HostType DEF SInv, CInv, HInv, Listed, SND
  <1>3. \A x \in rcv[h].early : x \in Early
    BY HostType DEF SInv, CInv, HInv, RCV
  <1> QED BY <1>1, <1>2, <1>3 DEF Sent, Segments, Packets, Early

\* What trySendData has taken has the place that snd.NXT counts to.
LEMMA TakenInPlace ==
  ASSUME NEW iss, NEW nxt, NEW seg \in Bytes, NEW buf \in Bytes, NEW data \in Bytes, NEW w \in Nat, NEW ok,
         Placed(iss, nxt, seg, buf, data, w, ok)
  PROVE  \E d \in 0..w : nxt = Plus(iss, 1 + d) /\ d + Len(seg) <= w /\ (ok => From(d, seg))
  <1>1. PICK d \in 0..w :
           /\ nxt = Plus(iss, 1 + d)
           /\ d + Len(seg) + Len(buf) + Len(data) <= w
           /\ ok => From(d, seg)
    BY DEF Placed
  <1>2. Len(seg) \in Nat /\ Len(buf) \in Nat /\ Len(data) \in Nat
    BY BytesType
  <1>3. d + Len(seg) <= w
    BY <1>1, <1>2
  <1> QED BY <1>1, <1>3

\* Whatever the sender sends or lists is in its place.
LEMMA StepSent ==
  ASSUME SInv, NEW h \in Hosts, Step(h), NEW x \in Sent(h)', x.data # <<>> PROVE InPlace(h, x)'
  <1>1. CASE Said(h, x)
    <2>1. PICK y \in Sent(h) : y.seq = x.seq /\ y.data = x.data
      BY <1>1 DEF Said
    <2>2. InPlace(h, y) /\ x.data \in Bytes
      BY <2>1, TransitType DEF SInv, InTransit
    <2>3. InPlace(h, x)
      BY <2>1, <2>2 DEF InPlace
    <2> QED BY <2>2, <2>3, InPlaceStays
  <1>2. CASE x.seq = snd'[h].NXT /\ x.data = repl'[h].seg
    <2>1. /\ repl'[h].seg \in Bytes /\ snd'[h].buf \in Bytes /\ repl'[h].data \in Bytes
          /\ written'[h] \in Nat
      <3>1. IInv'
        BY StepFacts DEF SInv, CInv
      <3> QED BY <3>1 DEF IInv, TypeOK, SND, REPL
    <2>2. Placed(snd'[h].ISS, snd'[h].NXT, repl'[h].seg, snd'[h].buf, repl'[h].data, written'[h], h \notin failed')
      BY StepQueue DEF Queue, Unsent
    <2>3. \E d \in 0..written'[h] : /\ snd'[h].NXT = Plus(snd'[h].ISS, 1 + d)
                                    /\ d + Len(repl'[h].seg) <= written'[h]
                                    /\ h \notin failed' => From(d, repl'[h].seg)
      BY <2>1, <2>2, TakenInPlace
    <2> QED BY <1>2, <2>3 DEF InPlace
  <1>3. CASE x.seq = snd[h].NXT /\ x.data = repl[h].seg
    <2>1. \E d \in 0..written[h] : /\ snd[h].NXT = Plus(snd[h].ISS, 1 + d)
                                   /\ d + Len(repl[h].seg) <= written[h]
                                   /\ h \notin failed => From(d, repl[h].seg)
      BY SenderType, TakenInPlace DEF Unsent
    <2>2. InPlace(h, x) /\ x.data \in Bytes
      BY <1>3, <2>1, SenderType DEF InPlace
    <2> QED BY <2>2, InPlaceStays
  <1>4. Said(h, x) \/ Fresh(h, x)
    BY SentStep DEF SInv, CInv
  <1> QED BY <1>1, <1>2, <1>3, <1>4 DEF Fresh

\* Whatever the receiver keeps early is in its place in the stream of its peer.
LEMMA StepEarly ==
  ASSUME SInv, NEW p \in Hosts, Step(p), NEW x \in rcv'[p].early, x.data # <<>>
  PROVE  InPlace(Peer(p), x)'
  <1>0. Peer(p) \in Hosts /\ Peer(Peer(p)) = p
    BY PeerIsHost, PeerOfPeer
  <1>1. CASE x \in rcv[p].early
    BY <1>0, <1>1, TransitType, InPlaceStays DEF SInv, InTransit
  <1>2. CASE x \notin rcv[p].early
    <2>1. ReceiverStep(p)
      BY StepReceives DEF SInv, CInv
    <2>2. KeepsEarly(p)
      BY <1>2, <2>1 DEF ReceiverStep, Waits, Opens, StartsWrite, WritesPart, WritesAll, TakesFIN
    <2>3. PICK g \in Wire(Peer(p)) : rcv'[p].early = rcv[p].early \cup {[seq |-> g.seq, data |-> g.data]}
      BY <2>2 DEF KeepsEarly
    <2>4. x.seq = g.seq /\ x.data = g.data /\ g \in Sent(Peer(p))
      BY <1>2, <2>3 DEF Sent
    <2>5. InPlace(Peer(p), g) /\ g.data \in Bytes
      BY <1>0, <2>4, TransitType DEF SInv, InTransit
    <2>6. InPlace(Peer(p), x)
      BY <2>4, <2>5 DEF InPlace
    <2> QED BY <1>0, <2>4, <2>5, <2>6, InPlaceStays
  <1> QED BY <1>1, <1>2

-----------------------------------------------------------------------------
(* Steps of the receiver *)

\* The next number expected, at a receiver that is taking data in and has no
\* part of a payload in rcv.buf.
LEMMA NextExpected ==
  ASSUME SInv, NEW p \in Hosts, state[p] \in Taking, Partial(p) = 0
  PROVE  rcv[p].NXT = Plus(snd[Peer(p)].ISS, 1 + Len(Received(p)))
  <1>1. Connected(p)
    <2>1. state[p] \notin {"NONE", "SYN_SENT", "CLOSED"}
      BY DEF Taking
    <2> QED BY <2>1, AtWork DEF SInv, CInv, HInv
  <1>2. rcv[p].NXT = Plus(rcv[p].IRS, 1 + Taken(p))
    BY <1>1 DEF SInv, CInv, NxtInv
  <1>3. rcv[p].IRS = snd[Peer(p)].ISS
    BY <1>1, ConstantsAssumption DEF SInv, CInv, HInv, Agreed, Hosts, Peer
  <1>4. Len(Received(p)) \in Nat
    <2>1. Received(p) \in Bytes
      BY Owned, HostType, Join DEF SInv, CInv, HInv, Received
    <2> QED BY <2>1, BytesType
  <1>5. Taken(p) = Len(Received(p))
    BY <1>4 DEF Taken
  <1> QED BY <1>2, <1>3, <1>5

\* There is one place for a number.
LEMMA OnePlace ==
  ASSUME NoWrap, SInv, NEW h \in Hosts, NEW x, x.data \in Bytes, x.data # <<>> => InPlace(h, x),
         NEW n \in Nat, n <= written[h], x.seq = Plus(snd[h].ISS, 1 + n)
  PROVE  n + Len(x.data) <= written[h] /\ (h \notin failed => From(n, x.data))
  <1>1. CASE x.data = <<>>
    <2>1. Len(<<>>) = 0 /\ From(n, <<>>) /\ n + 0 = n
      BY BytesType
    <2> QED BY <1>1, <2>1
  <1>2. CASE x.data # <<>>
    <2>1. PICK d \in 0..written[h] :
             /\ x.seq = Plus(snd[h].ISS, 1 + d) /\ d + Len(x.data) <= written[h]
             /\ h \notin failed => From(d, x.data)
      BY <1>2 DEF InPlace
    <2>2. /\ written[h] \in Nat /\ snd[h].ISS \in Seqs /\ written[h] <= MaxBytes[h]
          /\ MaxBytes[h] \in Nat /\ MaxBytes[h] + 1 < SeqMod /\ SeqMod \in Nat
      BY SenderType, ConstantsAssumption DEF Shape, NoWrap
    <2>3. 1 + d \in Seqs /\ 1 + n \in Seqs
      BY <2>1, <2>2 DEF Seqs
    <2>4. 1 + d = 1 + n
      BY <2>1, <2>2, <2>3, PlusInjective
    <2>5. d = n
      BY <2>1, <2>4
    <2> QED BY <2>1, <2>5
  <1> QED BY <1>1, <1>2

\* The receiver p goes on with the stream of its peer where it was.
LEMMA StepArrives ==
  ASSUME NoWrap, SInv, NEW p \in Hosts, Step(p) PROVE Arrived(Peer(p))' /\ Ahead(Peer(p))'
  <1> DEFINE h == Peer(p)
             ok == h \notin failed
             w == written[h]
             a == Received(p)
             b == Received(p)'
             r == iface[p].rest
             s == iface'[p].rest
  <1>0. h \in Hosts /\ h # p /\ Peer(h) = p
    BY PeerIsHost, PeerOfPeer
  <1>1. written'[h] = w /\ (h \notin failed' <=> ok) /\ snd'[h] = snd[h]
    BY <1>0, StepFacts DEF SInv, CInv, PeerSame
  <1>2. /\ a \in Bytes /\ b \in Bytes /\ Len(a) \in Nat /\ w \in Nat /\ Len(a) <= w /\ (ok => From(0, a))
        /\ iface[p].pc = "write" => Len(a) + Len(r) <= w /\ (ok => From(Len(a), r))
        /\ r \in Bytes /\ Len(r) \in Nat
    <2>1. Arrived(h) /\ Ahead(h)
      BY <1>0 DEF SInv, InTransit
    <2>2. r \in Bytes
      BY Owned DEF SInv, CInv, HInv
    <2> QED BY <1>0, <2>1, <2>2, BytesType, SenderType, ReceivedGrows DEF SInv, CInv, Arrived, Ahead
  <1>3. ReceiverStep(p)
    BY StepReceives DEF SInv, CInv
  <1>q. ASSUME Len(b) <= w, ok => From(0, b),
               iface'[p].pc = "write" => Len(b) + Len(s) <= w /\ (ok => From(Len(b), s))
        PROVE  Arrived(h)' /\ Ahead(h)'
    BY <1>0, <1>1, <1>q DEF Arrived, Ahead
  <1>4. CASE Waits(p) \/ KeepsEarly(p) \/ TakesFIN(p)
    <2>1. iface'[p] = iface[p] /\ b = a
      BY <1>4 DEF Waits, KeepsEarly, TakesFIN
    <2> QED BY <1>2, <1>q, <2>1
  <1>5. CASE Opens(p)
    <2>1. iface'[p].pc = "idle" /\ b = <<>>
      BY <1>5 DEF Opens
    <2>2. Len(<<>>) = 0 /\ From(0, <<>>)
      BY BytesType
    <2> QED BY <1>2, <1>q, <2>1, <2>2
  <1>6. CASE StartsWrite(p)
    <2>1. PICK g \in Wire(h) : g.data \in Bytes /\ g.data # <<>> /\ g.seq = rcv[p].NXT /\ s = g.data
      BY <1>6 DEF StartsWrite
    <2>2. Partial(p) = 0 /\ state[p] \in Taking /\ b = a
      BY <1>6 DEF StartsWrite, Partial
    <2>3. g.seq = Plus(snd[h].ISS, 1 + Len(a))
      BY <2>1, <2>2, NextExpected
    <2>4. InPlace(h, g)
      BY <1>0, <2>1 DEF SInv, InTransit, Sent
    <2>5. Len(a) + Len(s) <= w /\ (ok => From(Len(a), s))
      BY <1>0, <1>2, <2>1, <2>3, <2>4, OnePlace
    <2> QED BY <1>2, <1>q, <2>2, <2>5
  <1>7. CASE WritesPart(p)
    <2>1. PICK n \in 1..Len(r) : b = a \o SubSeq(r, 1, n) /\ s = SubSeq(r, n + 1, Len(r))
      BY <1>7 DEF WritesPart
    <2> DEFINE t == SubSeq(r, 1, n)
    <2>2. Len(a) + Len(r) <= w /\ (ok => From(Len(a), r))
      BY <1>2, <1>7 DEF WritesPart
    <2>3. n \in 0..Len(r)
      BY <1>2
    <2>4. t \in Bytes /\ Len(t) = n /\ Len(s) = Len(r) - n
      BY <1>2, <2>1, <2>3, Cut
    <2>5. Len(b) = Len(a) + n
      BY <1>2, <2>1, <2>4, Join
    <2>6. Len(b) <= w /\ Len(b) + Len(s) <= w
      <3>1. \A i, j, k, v \in Nat : j <= k /\ i + k <= v => i + j <= v /\ (i + j) + (k - j) <= v
        OBVIOUS
      <3>2. n \in Nat /\ n <= Len(r)
        BY <1>2, <2>3
      <3> HIDE DEF a, b, r, s, w
      <3> QED BY <1>2, <2>2, <2>4, <2>5, <3>1, <3>2
    <2>7. ASSUME ok PROVE From(0, b) /\ From(Len(b), s)
      <3>1. From(Len(a), t) /\ From(Len(a) + n, s)
        BY <1>2, <2>1, <2>2, <2>3, <2>7, FromCut
      <3>2. 0 + Len(a) = Len(a) /\ 0 \in Nat
        BY <1>2
      <3>3. From(0, a \o t)
        BY <1>2, <2>4, <2>7, <3>1, <3>2, FromJoin
      <3> QED BY <2>1, <2>5, <3>1, <3>3
    <2> QED BY <1>q, <2>6, <2>7
  <1>8. CASE WritesAll(p)
    <2>1. b = a \o r /\ Len(a) + Len(r) <= w /\ (ok => From(Len(a), r))
      BY <1>2, <1>8 DEF WritesAll
    <2>2. Len(b) = Len(a) + Len(r) /\ Len(b) \in Nat
      BY <1>2, <2>1, Join
    <2>3. Len(b) <= w
      BY <2>1, <2>2
    <2>4. ok => From(0, b)
      <3>1. 0 + Len(a) = Len(a) /\ 0 \in Nat
        BY <1>2
      <3> QED BY <1>2, <2>1, <3>1, FromJoin
    <2>5. ASSUME iface'[p].pc = "write" PROVE Len(b) + Len(s) <= w /\ (ok => From(Len(b), s))
      <3>1. PICK e \in rcv[p].early : e.seq = NewNXT(p) /\ e.data \in Bytes /\ s = e.data
        BY <1>8, <2>5 DEF WritesAll
      <3>2. rcv'[p].NXT = NewNXT(p) /\ rcv'[p].IRS = rcv[p].IRS /\ state'[p] = state[p]
        BY <1>8, <2>5 DEF WritesAll
      <3>3. iface[p].pc = "write" /\ state[p] \in Taking
        BY <1>8 DEF WritesAll, SInv, CInv, WritingInv
      <3>4. Partial(p)' = 0
        BY <1>8, WriteStep DEF SInv, CInv
      <3>5. Connected(p) /\ Connected(p)'
        BY <3>3, AtWork, StepFacts DEF SInv, CInv, HInv
      <3>6. rcv'[p].NXT = Plus(rcv'[p].IRS, 1 + Taken(p)')
        BY <3>2, <3>3, <3>5, StepNxt DEF SInv, CInv, NxtInv
      <3>7. rcv[p].IRS = snd[h].ISS
        BY <3>5, ConstantsAssumption DEF SInv, CInv, HInv, Agreed, Hosts, Peer
      <3>8. Taken(p)' = Len(b)
        BY <2>2, <3>4 DEF Taken
      <3>9. e.seq = Plus(snd[h].ISS, 1 + Len(b))
        BY <3>1, <3>2, <3>6, <3>7, <3>8
      <3>10. e.data # <<>> => InPlace(h, e)
        BY <1>0, <3>1 DEF SInv, InTransit
      <3>11. Len(b) + Len(e.data) <= w /\ (ok => From(Len(b), e.data))
        BY <1>0, <2>2, <2>3, <3>1, <3>9, <3>10, OnePlace
      <3> QED BY <3>1, <3>11
    <2> QED BY <1>q, <2>3, <2>4, <2>5
  <1> QED BY <1>3, <1>4, <1>5, <1>6, <1>7, <1>8 DEF ReceiverStep

\* The whole step.
LEMMA StepStream ==
  ASSUME NoWrap, SInv, NEW p \in Hosts, Step(p)
  PROVE  \A k \in Hosts : InTransit(k)' /\ Arrived(k)'
  <1>0. Peer(p) \in Hosts /\ Peer(p) # p /\ Peer(Peer(p)) = p
    BY PeerIsHost, PeerOfPeer
  <1>1. PeerSame(p)
    BY StepFacts DEF SInv, CInv
  <1>2. InTransit(Peer(p))' /\ Arrived(Peer(p))'
    <2>1. ASSUME NEW x \in Sent(Peer(p))', x.data # <<>> PROVE InPlace(Peer(p), x)'
      <3>1. x \in Sent(Peer(p))
        BY <1>0, SentStep DEF SInv, CInv
      <3> QED BY <1>0, <2>1, <3>1, TransitType, InPlaceStays DEF SInv, InTransit
    <2>2. \A x \in rcv'[p].early : x.data # <<>> => InPlace(Peer(p), x)'
      BY StepEarly
    <2> QED BY <1>0, <2>1, <2>2, StepArrives DEF InTransit
  <1>3. InTransit(p)' /\ Arrived(p)'
    <2>1. rcv'[Peer(p)] = rcv[Peer(p)] /\ iface'[Peer(p)] = iface[Peer(p)] /\ Received(Peer(p))' = Received(Peer(p))
      BY <1>0, <1>1 DEF PeerSame, Received
    <2>2. \A x \in Sent(p)' : x.data # <<>> => InPlace(p, x)'
      BY StepSent
    <2>3. ASSUME NEW x \in rcv[Peer(p)].early, x.data # <<>> PROVE InPlace(p, x)'
      BY <1>0, <2>3, TransitType, InPlaceStays DEF SInv, InTransit
    <2>4. /\ written[p] \in Nat /\ written'[p] \in Nat /\ written[p] <= written'[p]
          /\ p \in failed => p \in failed'
      BY StreamGrows
    <2>5. /\ Len(Received(Peer(p))) \in Nat /\ Len(iface[Peer(p)].rest) \in Nat
      BY <1>0, ReceivedGrows, Owned, BytesType DEF SInv, CInv, HInv
    <2>6. Ahead(p) /\ Arrived(p)
      BY DEF SInv, InTransit
    <2>7. Ahead(p)'
      BY <2>1, <2>4, <2>5, <2>6 DEF Ahead
    <2>8. Arrived(p)'
      BY <2>1, <2>4, <2>5, <2>6 DEF Arrived
    <2> QED BY <2>1, <2>2, <2>3, <2>7, <2>8 DEF InTransit
  <1> QED BY <1>2, <1>3, PeerOfPeer

-----------------------------------------------------------------------------
(* The invariant *)

\* It holds at the start: nothing has been written.
LEMMA InitStream == Init => SInv
  <1> SUFFICES ASSUME Init PROVE SInv
    OBVIOUS
  <1>1. CInv
    BY InitAcks
  <1>2. ASSUME NEW h \in Hosts
        PROVE  /\ net[h] = <<>> /\ iface[h].pc = "idle" /\ snd[h] = NewSND(0, 0)
               /\ rcv[h] = NewRCV(0, 0) /\ rtx[h] = RtxIdle /\ repl[h] = Idle
               /\ written[h] = 0 /\ delivered[h] = <<>> /\ MaxBytes[h] \in Nat
    BY ConstantsAssumption DEF Init, IfaceIdle
  <1>3. Len(<<>>) = 0 /\ <<>> \o <<>> = <<>> /\ (\A d : From(d, <<>>)) /\ 0 \in 0..0 /\ 1 + 0 = 1
    BY BytesType
  <1>4. ASSUME NEW h \in Hosts PROVE Queue(h)
    <2>1. /\ repl[h].pc = "idle" /\ repl[h].seg = <<>> /\ repl[h].data = <<>> /\ snd[h].buf = <<>>
          /\ snd[h].NXT = Plus(snd[h].ISS, 1) /\ written[h] = 0 /\ written[h] <= MaxBytes[h]
      BY <1>2 DEF Idle, NewSND
    <2>2. 0 + 0 = 0
      OBVIOUS
    <2>3. \A i, ok : Placed(i, Plus(i, 1), <<>>, <<>>, <<>>, 0, ok)
      BY <1>3, <2>2 DEF Placed
    <2> QED BY <2>1, <2>3 DEF Queue, Shape, Unsent
  <1>5. ASSUME NEW h \in Hosts PROVE InTransit(h) /\ Arrived(h)
    <2>1. Peer(h) \in Hosts
      BY PeerIsHost
    <2>2. Wire(h) = {} /\ Listed(h) = {RtxIdle.pkt} /\ RtxIdle.pkt.data = <<>> /\ rcv[Peer(h)].early = {}
      <3>1. net[Peer(h)] = <<>> /\ snd[h].inFlight = {} /\ rtx[h] = RtxIdle
        BY <1>2, <2>1 DEF NewSND
      <3>2. Wire(h) = {} /\ Listed(h) = {RtxIdle.pkt}
        BY <3>1 DEF Wire, Listed
      <3>3. RtxIdle.pkt.data = <<>> /\ rcv[Peer(h)].early = {}
        BY <1>2, <2>1 DEF RtxIdle, RtxAt, Packet, NewRCV
      <3> QED BY <3>2, <3>3
    <2>3. Received(Peer(h)) = <<>> /\ iface[Peer(h)].pc = "idle"
      BY <1>2, <1>3, <2>1 DEF Received, NewRCV
    <2>4. 0 <= written[h]
      BY <1>2
    <2> QED BY <1>3, <2>2, <2>3, <2>4 DEF InTransit, Ahead, Arrived, Sent
  <1> QED BY <1>1, <1>4, <1>5 DEF SInv

\* Every step of the program preserves it.
LEMMA NextStream == ASSUME NoWrap, SInv, [Next]_vars PROVE SInv'
  <1>1. CInv'
    BY NextAcks DEF SInv
  <1>2. CASE Next
    <2>1. PICK h \in Hosts : Step(h)
      BY <1>2, NextStep
    <2> QED BY <1>1, <2>1, StepQueue, StepStream DEF SInv
  <1>3. CASE UNCHANGED vars
    <2>1. UNCHANGED <<snd, rcv, repl, iface, rtx, net, written, delivered, failed>>
      BY <1>3 DEF vars, sockets, threads, history
    <2>2. \A h \in Hosts : Received(h)' = Received(h) /\ Sent(h)' = Sent(h)
      BY <2>1 DEF Received, Sent, Wire, Listed
    <2>3. \A h \in Hosts : Peer(h) \in Hosts
      BY PeerIsHost
    <2>4. \A h \in Hosts : Queue(h)'
      BY <2>1 DEF SInv, Queue, Shape, Unsent
    <2>5. \A h \in Hosts : \A x : InPlace(h, x) => InPlace(h, x)'
      BY <2>1 DEF InPlace
    <2>6. \A h \in Hosts : InTransit(h)' /\ Arrived(h)'
      BY <2>1, <2>2, <2>3, <2>5 DEF SInv, InTransit, Ahead, Arrived
    <2> QED BY <1>1, <2>4, <2>6 DEF SInv
  <1> QED BY <1>2, <1>3

\* The invariant holds throughout.
LEMMA StreamInvariant == ASSUME NoWrap PROVE Spec => []SInv
  <1>1. SInv /\ [Next]_vars => SInv'
    BY NextStream
  <1> QED BY InitStream, <1>1, PTL DEF Spec

-----------------------------------------------------------------------------
(* The theorems *)

\* What a host has received is a prefix of what its peer has written, byte for
\* byte, until a VWrite of the peer fails.
THEOREM PrefixReceived == ASSUME NoWrap PROVE Spec => []StreamPrefix
  <1>1. SInv => StreamPrefix
    <2> SUFFICES ASSUME SInv, NEW h \in Hosts, Peer(h) \notin failed
                 PROVE  /\ Len(Received(h)) <= written[Peer(h)]
                        /\ \A k \in DOMAIN Received(h) : Received(h)[k] = k
      BY DEF StreamPrefix
    <2>1. Peer(h) \in Hosts /\ Peer(Peer(h)) = h
      BY PeerIsHost, PeerOfPeer
    <2>2. Len(Received(h)) <= written[Peer(h)] /\ From(0, Received(h))
      BY <2>1 DEF SInv, Arrived
    <2>3. Received(h) \in Bytes
      BY Owned, HostType, Join DEF SInv, CInv, HInv, Received
    <2>4. \A k \in DOMAIN Received(h) : 0 + k = k
      BY <2>3, BytesType
    <2> QED BY <2>2, <2>4 DEF From
  <1> QED BY <1>1, StreamInvariant, PTL

\* VReadReturn is a read of the byte stream: a longer prefix.
LEMMA ReadsPrefix ==
  ASSUME SInv, SInv', NEW h \in Hosts, VReadReturn(h) PROVE Stream!Read(h)
  <1> DEFINE p == Peer(h)
             a == delivered[h]
             b == delivered'[h]
             c == rcv'[h].buf
  <1>0. p \in Hosts /\ Peer(p) = h
    BY PeerIsHost, PeerOfPeer
  <1>1. PICK n \in 0..Len(rcv[h].buf) :
           /\ repl[h].n > 0 => n > 0
           /\ delivered' = [delivered EXCEPT ![h] = @ \o SubSeq(rcv[h].buf, 1, n)]
           /\ rcv'[h].buf = SubSeq(rcv[h].buf, n + 1, Len(rcv[h].buf))
    BY ReadReceives DEF SInv, CInv, HInv
  <1>2. /\ delivered \in [Hosts -> Bytes] /\ a \in Bytes /\ rcv[h].buf \in Bytes
        /\ Len(a) \in Nat /\ Len(rcv[h].buf) \in Nat
    BY Owned, HostType, BytesType DEF SInv, CInv, HInv
  <1>3. n > 0 /\ written' = written /\ failed' = failed
    BY <1>1, SenderType DEF VReadReturn, Shape
  <1>4. b = a \o SubSeq(rcv[h].buf, 1, n)
    BY <1>1, <1>2
  <1>5. b \in Bytes /\ Len(b) = Len(a) + n /\ c \in Bytes
    BY <1>1, <1>2, <1>4, Cut, Join
  <1>6. Received(h)' = b \o c /\ Len(b \o c) = Len(b) + Len(c) /\ Len(b) \in Nat /\ Len(c) \in Nat
    BY <1>5, BytesType, Join DEF Received
  <1>7. Len(b \o c) <= written[p] /\ (p \notin failed => From(0, b \o c))
    BY <1>0, <1>3, <1>6 DEF SInv, Arrived
  <1>8. Len(b) \in (Len(a) + 1)..written[p]
    <2>1. written[p] \in Nat
      BY <1>0, SenderType
    <2> HIDE DEF a, b, c
    <2>2. n \in Nat
      BY <1>1, <1>2
    <2>3. Len(a) + 1 <= Len(b) /\ Len(b) <= written[p]
      BY <1>2, <1>3, <1>5, <1>6, <1>7, <2>1, <2>2
    <2> QED BY <1>2, <1>6, <2>1, <2>3
  <1>9. ASSUME p \notin failed PROVE b = Stream!Prefix(Len(b))
    <2>1. b \in Seq(Nat) /\ c \in Seq(Nat)
      BY <1>5 DEF Bytes
    <2> HIDE DEF b, c
    <2>2. \A k \in 1..Len(b) : b[k] = (b \o c)[k] /\ k \in DOMAIN (b \o c) /\ 0 + k = k
      BY <1>6, <2>1
    <2>3. \A k \in DOMAIN (b \o c) : (b \o c)[k] = 0 + k
      BY <1>7, <1>9 DEF From
    <2>5. \A k \in 1..Len(b) : b[k] = k
      BY <2>2, <2>3, Zenon
    <2>4. DOMAIN b = 1..Len(b) /\ b = [k \in DOMAIN b |-> b[k]]
      BY <2>1
    <2> QED BY <2>4, <2>5 DEF Stream!Prefix
  <1>10. delivered' = [delivered EXCEPT ![h] = b]
    BY <1>1, <1>2, <1>4
  <1> QED BY <1>3, <1>8, <1>9, <1>10 DEF Stream!Read

\* Every step of the program is a step of the byte stream, or none.
LEMMA StepRefines ==
  ASSUME SInv, SInv', NEW h \in Hosts, Step(h) PROVE [Stream!Next]_<<written, delivered, failed>>
  <1> DEFINE Stutters == UNCHANGED <<written, delivered, failed>>
  <1>1. CASE VWrite(h)
    <2>1. PICK n \in WriteSizes[h] : written' = [written EXCEPT ![h] = @ + n]
      BY <1>1 DEF VWrite
    <2>2. n \in Nat /\ n > 0 /\ written \in [Hosts -> Nat] /\ written[h] \in Nat
      BY ConstantsAssumption, SenderType
    <2>3. written'[h] = written[h] + n
      BY <2>1, <2>2
    <2>4. written'[h] > written[h] /\ written' = [written EXCEPT ![h] = written'[h]]
      BY <2>1, <2>2, <2>3
    <2>5. Stream!Write(h)
      BY <1>1, <2>4 DEF Stream!Write, VWrite
    <2> QED BY <2>5 DEF Stream!Next
  <1>2. CASE VReadReturn(h)
    BY <1>2, ReadsPrefix DEF Stream!Next
  <1>3. CASE VConnect \/ VConnectReturn \/ HandshakeTimeout \/ VAccept \/ TimeWaitExpires(h) \/ Fault(h)
    <2>1. Stutters
      BY <1>3 DEF VConnect, VConnectReturn, HandshakeTimeout, VAccept, TimeWaitExpires, Fault, history
    <2> QED BY <2>1
  <1>4. CASE VRead(h) \/ VClose(h) \/ sendRST(h) \/ VCloseReturn(h)
    <2>1. Stutters
      BY <1>4 DEF VRead, VClose, sendRST, VCloseReturn, history
    <2> QED BY <2>1
  <1>5. CASE Sending(h) \/ Probing(h)
    <2>1. Stutters \/ Stream!Fail(h)
      BY <1>5 DEF Sending, VWriteLoop, trySendData, startTimer, trackPacket, Probing, startProbing,
                  sendZeroWindowProbe, probingEnds, history, Stream!Fail
    <2> QED BY <2>1 DEF Stream!Next
  <1>6. CASE Retransmitting(h)
    <2>1. Stutters
      BY <1>6 DEF Retransmitting, retransmitPacket, relistPacket, nothingToRetransmit, giveUp,
                  giveUpReturn, history
    <2> QED BY <2>1
  <1>7. CASE Receiving(h)
    <2>1. Stutters
      BY <1>7 DEF Receiving, HandlePacket, handleSYN, handleSYNACK, handleACK, handleEstablishedPacket,
                  handleData, handleFIN, handleClosingACK, handleRST, ignore, rcvBufWrite,
                  processInOrderData, threads, history
    <2> QED BY <2>1
  <1> QED BY <1>1, <1>2, <1>3, <1>4, <1>5, <1>6, <1>7 DEF Step, Application

\* The connection implements a byte stream in each direction.
THEOREM ImplementsByteStream == ASSUME NoWrap PROVE Spec => ByteStreamSpec
  <1>1. Init => Stream!Init
    BY DEF Init, Stream!Init
  <1>2. SInv /\ SInv' /\ [Next]_vars => [Stream!Next]_<<written, delivered, failed>>
    <2> SUFFICES ASSUME SInv, SInv', [Next]_vars PROVE [Stream!Next]_<<written, delivered, failed>>
      OBVIOUS
    <2>1. CASE Next
      BY <2>1, NextStep, StepRefines
    <2>2. CASE UNCHANGED vars
      BY <2>2 DEF vars, history
    <2> QED BY <2>1, <2>2
  <1> QED BY <1>1, <1>2, StreamInvariant, PTL DEF Spec, Stream!Spec, ByteStreamSpec

\* While the connection stays open, what a receiver has taken in only grows.
LEMMA TakenGrows ==
  ASSUME SInv, NEW h \in Hosts, Step(h), NEW k \in Hosts, state[k] = "ESTABLISHED", state'[k] = "ESTABLISHED"
  PROVE  Taken(k) <= Taken(k)'
  <1>0. /\ Len(Received(k)) \in Nat /\ Len(Received(k)') \in Nat /\ Taken(k) \in Nat
        /\ Len(iface[k].rest) \in Nat /\ iface[k].len \in Nat
    <2>1. Len(Received(k)) \in Nat /\ Len(Received(k)') \in Nat
      BY ReceivedGrows DEF SInv, CInv
    <2> QED BY <2>1, TakenType, Owned, BytesType DEF SInv, CInv, HInv
  <1>1. CASE k # h
    <2>1. iface'[k] = iface[k] /\ Received(k)' = Received(k)
      BY <1>1, StepFacts DEF SInv, CInv, PeerSame, Received
    <2>2. Taken(k)' = Taken(k)
      BY <2>1 DEF Taken, Partial
    <2> QED BY <1>0, <2>2
  <1>2. CASE k = h
    <2>1. ReceiverStep(h)
      BY StepReceives DEF SInv, CInv
    <2>2. CASE Waits(h) \/ KeepsEarly(h)
      <3>1. iface'[k] = iface[k] /\ Received(k)' = Received(k)
        BY <1>2, <2>2 DEF Waits, KeepsEarly
      <3>2. Taken(k)' = Taken(k)
        BY <3>1 DEF Taken, Partial
      <3> QED BY <1>0, <3>2
    <2>3. CASE StartsWrite(h)
      <3>1. PICK g \in Wire(Peer(k)) : /\ g.data \in Bytes /\ iface'[k].pc = "write"
                                       /\ iface'[k].rest = g.data /\ iface'[k].len = Len(g.data)
        BY <1>2, <2>3 DEF StartsWrite
      <3>2. Partial(k)' = 0 /\ Partial(k) = 0 /\ Received(k)' = Received(k)
        <4>1. Len(g.data) - Len(g.data) = 0
          BY <3>1, BytesType
        <4> QED BY <1>2, <2>3, <3>1, <4>1 DEF StartsWrite, Partial
      <3> QED BY <1>0, <3>2 DEF Taken
    <2>4. CASE WritesPart(h)
      <3>1. iface[k].pc = "write"
        BY <1>2, <2>4 DEF WritesPart
      <3>2. PICK n \in 1..Len(iface[k].rest) : /\ Len(Received(k)') = Len(Received(k)) + n
                                               /\ Partial(k)' = Partial(k) + n
        BY <1>2, <2>4, WriteStep DEF SInv, CInv
      <3>3. Partial(k) \in Nat
        BY <3>1 DEF SInv, CInv, WritingInv
      <3>4. Taken(k)' = Len(Received(k)') - Partial(k)' /\ Taken(k) = Len(Received(k)) - Partial(k)
        BY DEF Taken
      <3> QED BY <1>0, <3>2, <3>3, <3>4
    <2>5. CASE WritesAll(h)
      <3>1. iface[k].pc = "write"
        BY <1>2, <2>5 DEF WritesAll
      <3>2. Len(Received(k)') = Len(Received(k)) + Len(iface[k].rest) /\ Partial(k)' = 0
        BY <1>2, <2>5, WriteStep DEF SInv, CInv
      <3>3. Partial(k) = iface[k].len - Len(iface[k].rest)
        BY <3>1 DEF Partial
      <3>4. Taken(k)' = Len(Received(k)') - Partial(k)' /\ Taken(k) = Len(Received(k)) - Partial(k)
        BY DEF Taken
      <3> QED BY <1>0, <3>2, <3>3, <3>4
    <2> QED BY <1>2, <2>1, <2>2, <2>3, <2>4, <2>5 DEF ReceiverStep, Opens, TakesFIN, Taking
  <1> QED BY <1>1, <1>2

\* What the next number expected at a receiver says that it has taken in.
LEMMA ExpectedDistance ==
  ASSUME NoWrap, SInv, NEW k \in Hosts, state[k] = "ESTABLISHED"
  PROVE  (rcv[k].NXT - rcv[k].IRS) % SeqMod = 1 + Taken(k)
  <1>1. Connected(k)
    BY AtWork DEF SInv, CInv, HInv
  <1>2. rcv[k].NXT = Plus(rcv[k].IRS, 1 + Taken(k))
    BY <1>1 DEF SInv, CInv, NxtInv, Taking
  <1>3. Taken(k) \in 0..Len(Received(k)) /\ Len(Received(k)) \in Nat
    <2>1. Received(k) \in Bytes
      BY Owned, HostType, Join DEF SInv, CInv, HInv, Received
    <2>2. Len(Received(k)) \in Nat
      BY <2>1, BytesType
    <2>3. Partial(k) \in 0..Len(Received(k))
      BY <2>2 DEF SInv, CInv, WritingInv, Partial
    <2> QED BY <2>2, <2>3 DEF Taken
  <1>4. 1 + Taken(k) \in Seqs
    <2>1. Peer(k) \in Hosts /\ Peer(Peer(k)) = k
      BY PeerIsHost, PeerOfPeer
    <2>2. Len(Received(k)) <= written[Peer(k)]
      BY <2>1 DEF SInv, Arrived
    <2>3. written[Peer(k)] <= MaxBytes[Peer(k)] /\ written[Peer(k)] \in Nat
      BY <2>1, SenderType DEF Shape
    <2>4. MaxBytes[Peer(k)] \in Nat /\ MaxBytes[Peer(k)] + 1 < SeqMod /\ SeqMod \in Nat
      BY <2>1, ConstantsAssumption DEF NoWrap
    <2> QED BY <1>3, <2>2, <2>3, <2>4 DEF Seqs
  <1>5. rcv[k].IRS \in Seqs
    BY HostType DEF SInv, CInv, HInv, RCV
  <1> QED BY <1>2, <1>4, <1>5, Distance

\* In ESTABLISHED the next sequence number expected is never taken back, although a
\* payload is written in several steps and early data may follow it at once.
THEOREM NeverRetreats == ASSUME NoWrap PROVE Spec => NoRetreat
  <1> DEFINE Advances == \A h \in Hosts :
                            state[h] = "ESTABLISHED" /\ state'[h] = "ESTABLISHED" =>
                              (rcv'[h].NXT - rcv[h].IRS) % SeqMod >= (rcv[h].NXT - rcv[h].IRS) % SeqMod
             Counts == \A k \in Hosts : state[k] = "ESTABLISHED" =>
                            (rcv[k].NXT - rcv[k].IRS) % SeqMod = 1 + Taken(k)
  <1>0. SInv => Counts
    BY ExpectedDistance
  <1>a. SInv' => Counts'
    BY <1>0, PTL
  <1>1. ASSUME SInv, SInv', [Next]_vars PROVE [Advances]_vars
    <2>1. CASE UNCHANGED vars
      BY <2>1
    <2>2. ASSUME Next, NEW k \in Hosts, state[k] = "ESTABLISHED", state'[k] = "ESTABLISHED"
          PROVE  (rcv'[k].NXT - rcv[k].IRS) % SeqMod >= (rcv[k].NXT - rcv[k].IRS) % SeqMod
      <3>1. PICK h \in Hosts : Step(h)
        BY <2>2, NextStep
      <3>2. rcv'[k].IRS = rcv[k].IRS
        BY <1>1, <2>2, <3>1, StepFacts DEF SInv, CInv, PeerSame, Local, NumbersSet
      <3>3. (rcv[k].NXT - rcv[k].IRS) % SeqMod = 1 + Taken(k)
        BY <1>1, <2>2, ExpectedDistance
      <3>4. (rcv'[k].NXT - rcv'[k].IRS) % SeqMod = 1 + Taken(k)'
        BY <1>a, <1>1, <2>2
      <3>5. Taken(k) <= Taken(k)' /\ Taken(k) \in Int /\ Taken(k)' \in Int
        BY <1>1, <2>2, <3>1, TakenGrows, TakenType DEF SInv
      <3> QED BY <3>2, <3>3, <3>4, <3>5
    <2> QED BY <1>1, <2>1, <2>2
  <1> QED BY <1>1, StreamInvariant, PTL DEF Spec, NoRetreat
=============================================================================
