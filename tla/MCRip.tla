-------------------------------- MODULE MCRip --------------------------------
(* Values of the constants of Rip and IpForward for model checking. *)
EXTENDS IpForward, TLC

CONSTANTS a, b, c, p   \* model values: three routers and a prefix of a's

MCRouters == {a, b, c}
MCPrefixes == {p}
MCLocal == [r \in MCRouters |-> IF r = a THEN {p} ELSE {}]

\* a - b - c
LineNeighbors == [r \in MCRouters |-> IF r = b THEN {a, c} ELSE {b}]
LineHops == [r \in MCRouters |-> [q \in {p} |-> IF r = a THEN 0 ELSE IF r = b THEN 1 ELSE 2]]

\* The triangle of nets/loop.json
RingNeighbors == [r \in MCRouters |-> MCRouters \ {r}]
RingHops == [r \in MCRouters |-> [q \in {p} |-> IF r = a THEN 0 ELSE 1]]

\* In the triangle b and c are interchangeable.
RingSymmetry == Permutations({b, c})

\* NextHop finds the longest prefix in whatever order a table holds its entries.
MCEntries == [bits : 0..2, contains : BOOLEAN]
ASSUME LongestPrefix ==
    \A n \in 0..3 : \A entries \in [1..n -> MCEntries] :
       LET matches == {entries[i] : i \in {j \in 1..n : entries[j].contains}} IN
       IF matches = {} THEN BestMatch(entries) = ZeroEntry
       ELSE BestMatch(entries) \in matches /\ \A e \in matches : e.bits <= BestMatch(entries).bits
=============================================================================
