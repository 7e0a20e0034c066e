------------------------------ MODULE IpForward ------------------------------
(***************************************************************************)
(* The way of a packet through the routers of Rip: SendIP and              *)
(* ReceivePacket of pkg/ipstack over the forwarding tables as they are.    *)
(* A packet takes milliseconds and RIP's timers take seconds, so that a    *)
(* packet's fate is a function of the current state, with no variables of  *)
(* its own.  A destination is a host in one of the prefixes; the prefixes  *)
(* of a router's table are disjoint.                                       *)
(***************************************************************************)
EXTENDS Rip

CONSTANT TTL   \* 16

ASSUME TTLAssumption == TTL \in Nat

-----------------------------------------------------------------------------
(* Longest prefix match *)

\* What the loop of NextHop starts with: Bits() of the zero Prefix is -1.
ZeroEntry == [bits |-> -1, contains |-> FALSE]

Longer(e, best) == best.bits = 0 \/ e.bits > best.bits

\* The entry NextHop picks from a table; `contains' says that the entry's
\* prefix contains the destination.
BestMatch(entries) ==
    LET best[i \in 0..Len(entries)] ==
            IF i = 0 THEN ZeroEntry
            ELSE IF entries[i].contains /\ Longer(entries[i], best[i - 1])
                 THEN entries[i] ELSE best[i - 1]
    IN best[Len(entries)]

\* With disjoint prefixes at most one entry matches.
NextHop(r, p) == Lookup(r, p)

-----------------------------------------------------------------------------
(* One packet *)

\* Mutant: the last router's decrement is not allowed for.
ValidatePacket_Strict(t) == t > 1
\* The checksum was computed again after each decrement.
ValidatePacket(t) == t # 0

\* The interface of r is up, and so is the one that listens.
SendPacket(r, n) == <<r, n>> \notin down /\ <<n, r>> \notin down

\* ReceivePacket(p)[t][r]: a packet to a host of p that is at r with t hops left
\* arrives.  A directly connected network comes before the forwarding table.
ReceivePacket(p) ==
    LET arrives[t \in 0..(TTL + 1)] ==
            [r \in Routers |->
                /\ ValidatePacket(t)
                /\ IF p \in Local[r] THEN ValidatePacket(t - 1)
                   ELSE \E e \in NextHop(r, p) :
                           SendPacket(r, e.nextHop) /\ arrives[t - 1][e.nextHop]]
    IN arrives

\* The sender treats its own packet like one it has received, and decrements the
\* TTL as well ...
SendIP(r, p, ttl) == NextHop(r, p) # {} /\ ReceivePacket(p)[ttl][r]

\* ... which the send command makes up for.
Sends(r, p) == SendIP(r, p, TTL + 1)

-----------------------------------------------------------------------------
(* Properties *)

\* A packet from any router gets to any prefix that is less than INFINITY hops
\* away, again and again: after losses, link failures, restarts, and the expiry of
\* every route on its way, and not only in a loop until its TTL is used up.
Delivers ==
    \A r \in Routers : \A p \in Prefixes :
       Hops[r][p] < INFINITY => []<>(down # {} \/ Sends(r, p))
=============================================================================
