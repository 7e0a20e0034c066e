------------------------------ MODULE ByteStream ------------------------------
(***************************************************************************)
(* What a TCP connection promises its two applications, whatever happens   *)
(* on the way: each host writes a stream of bytes, and its peer reads ever *)
(* longer prefixes of that stream.  The byte at position i is the number i.*)
(* Once a write has failed nothing is promised of the bytes after it.      *)
(***************************************************************************)
EXTENDS Integers, Sequences

CONSTANTS Hosts, Peer(_)

VARIABLES sent,      \* sent[h]: how many bytes h has written
          received,  \* received[h]: the bytes h has read
          failed     \* hosts a write of which has failed

Prefix(n) == [k \in 1..n |-> k]

Init == sent = [h \in Hosts |-> 0] /\ received = [h \in Hosts |-> <<>>] /\ failed = {}

Write(h) ==
    /\ sent'[h] > sent[h]
    /\ sent' = [sent EXCEPT ![h] = sent'[h]]
    /\ UNCHANGED <<received, failed>>

Fail(h) == failed' = failed \cup {h} /\ UNCHANGED <<sent, received>>

Read(h) ==
    /\ Peer(h) \notin failed =>
          \E n \in (Len(received[h]) + 1)..sent[Peer(h)] : received'[h] = Prefix(n)
    /\ received' = [received EXCEPT ![h] = received'[h]]
    /\ UNCHANGED <<sent, failed>>

Next == \E h \in Hosts : Write(h) \/ Fail(h) \/ Read(h)

Spec == Init /\ [][Next]_<<sent, received, failed>>
=============================================================================
