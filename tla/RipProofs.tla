------------------------------ MODULE RipProofs ------------------------------
(***************************************************************************)
(* Proofs about Rip, for every network and every value of INFINITY.        *)
(*                                                                         *)
(* A cost travels from the table of one router, through an update and a    *)
(* datagram, into the goroutine and then the table of another.  IInv says  *)
(* of each of these places that the cost in it is no less than the         *)
(* distance of the router it belongs to: MetricSound, of tables alone, is  *)
(* not inductive.                                                          *)
(***************************************************************************)
EXTENDS Rip, TLAPS

FarRoutes(r) == {e \in Routes : e.metric >= Hops[r][e.dst]}
FarEntries(r) == {x \in RIPMessageEntries : x.cost >= Hops[r][x.dst]}
FarMessages(r) == [command : {"REQUEST", "RESPONSE"}, entries : SUBSET FarEntries(r)]
FarHandler(r, n) == [todo : SUBSET FarEntries(n), add : SUBSET FarRoutes(r),
                     changed : SUBSET FarEntries(r), told : SUBSET Routers]
FarUpdate(r) == [to : SUBSET Routers, entries : SUBSET FarEntries(r)]

Far ==
    \A r \in Routers :
       /\ table[r] \in SUBSET FarRoutes(r)
       /\ update[r] \in FarUpdate(r)
       /\ \A n \in Routers : /\ handler[r][n] \in FarHandler(r, n)
                             /\ net[r][n] \in Seq(FarMessages(n))

IInv == TypeOK /\ Far

-----------------------------------------------------------------------------
(* What the operators return *)

\* The far versions of the types are parts of the types.
LEMMA FarTypes ==
  ASSUME NEW r \in Routers, NEW n \in Routers
  PROVE  /\ FarRoutes(r) \subseteq Routes /\ FarEntries(r) \subseteq RIPMessageEntries
         /\ FarHandler(r, n) \subseteq HANDLER /\ FarUpdate(r) \subseteq UPDATE
         /\ FarMessages(r) \subseteq RIPMessages
  BY DEF FarRoutes, FarEntries, FarHandler, FarUpdate, FarMessages, HANDLER, UPDATE, RIPMessages

\* The idle goroutines hold no cost.
LEMMA IdleFar ==
  ASSUME NEW r \in Routers, NEW n \in Routers
  PROVE  HandlerIdle \in FarHandler(r, n) /\ UpdateIdle \in FarUpdate(r)
  BY DEF FarHandler, FarUpdate, HandlerIdle, UpdateIdle

\* The routes of a router's own interfaces are far enough: it is there.
LEMMA LocalFar == ASSUME NEW r \in Routers PROVE LocalRoutes(r) \in SUBSET FarRoutes(r)
  <1> SUFFICES ASSUME NEW p \in Local[r] PROVE Route(p, r, 0, "LOCAL", TRUE) \in FarRoutes(r)
    BY DEF LocalRoutes
  <1>1. p \in Prefixes /\ Hops[r][p] = 0 /\ 0 \in 0..(INFINITY - 1)
    BY RipAssumption
  <1> QED BY <1>1 DEF FarRoutes, Route, Routes

\* GetAllRIPEntries tells the metrics of the table.
LEMMA AllEntriesFar ==
  ASSUME NEW r \in Routers, table[r] \in SUBSET FarRoutes(r)
  PROVE  GetAllRIPEntries(r) \in SUBSET FarEntries(r)
  BY RipAssumption DEF GetAllRIPEntries, FarRoutes, FarEntries, Routes, RIPMessageEntries

\* Poison reverse only raises costs.
LEMMA PoisonFar ==
  ASSUME NEW r \in Routers, NEW S \in SUBSET FarEntries(r), NEW n
  PROVE  applyPoisonReverse(r, S, n) \in SUBSET FarEntries(r)
  <1> SUFFICES ASSUME NEW y \in applyPoisonReverse(r, S, n) PROVE y \in FarEntries(r)
    OBVIOUS
  <1>1. PICK x \in S : y = x \/ y = [x EXCEPT !.cost = INFINITY]
    BY DEF applyPoisonReverse
  <1>2. x \in FarEntries(r)
    OBVIOUS
  <1>3. [x EXCEPT !.cost = INFINITY] \in FarEntries(r)
    BY <1>2, RipAssumption DEF FarEntries, RIPMessageEntries
  <1> QED BY <1>1, <1>2, <1>3

\* A response with the costs of r is a message of r; so is a request.
LEMMA MessageFar ==
  ASSUME NEW r \in Routers, NEW S \in SUBSET FarEntries(r)
  PROVE  RipResponse(S) \in FarMessages(r) /\ RipRequest \in FarMessages(r)
  BY DEF RipResponse, RipRequest, FarMessages

-----------------------------------------------------------------------------
(* Writing one place of the state *)

\* The network, when one queue is changed.
LEMMA NetStep ==
  ASSUME IInv, NEW r \in Routers, NEW n \in Routers, NEW q \in Seq(FarMessages(n)),
         net' = [net EXCEPT ![r][n] = q]
  PROVE  /\ net' \in [Routers -> [Routers -> Seq(RIPMessages)]]
         /\ \A k, m \in Routers : net'[k][m] \in Seq(FarMessages(m))
  <1>1. q \in Seq(RIPMessages)
    BY FarTypes
  <1>2. net' \in [Routers -> [Routers -> Seq(RIPMessages)]]
    BY <1>1 DEF IInv, TypeOK
  <1>3. ASSUME NEW k \in Routers, NEW m \in Routers PROVE net'[k][m] \in Seq(FarMessages(m))
    BY DEF IInv, TypeOK, Far
  <1> QED BY <1>2, <1>3

\* Send, of a message of the sender.
LEMMA SendStep ==
  ASSUME IInv, NEW r \in Routers, NEW n \in Routers, NEW m \in FarMessages(r), Send(r, n, m)
  PROVE  /\ net' \in [Routers -> [Routers -> Seq(RIPMessages)]]
         /\ \A k, l \in Routers : net'[k][l] \in Seq(FarMessages(l))
  <1>1. CASE Dropped(r, n)
    BY <1>1 DEF Send, IInv, TypeOK, Far
  <1>2. CASE ~Dropped(r, n)
    <2>1. Append(net[n][r], m) \in Seq(FarMessages(r))
      BY DEF IInv, Far
    <2>2. net' = [net EXCEPT ![n][r] = Append(net[n][r], m)]
      BY <1>2 DEF Send, IInv, TypeOK
    <2> QED BY <2>1, <2>2, NetStep
  <1> QED BY <1>1, <1>2

\* One goroutine of an interface moves on.
LEMMA HandlerStep ==
  ASSUME IInv, NEW r \in Routers, NEW n \in Routers, NEW t \in FarHandler(r, n),
         handler' = [handler EXCEPT ![r][n] = t]
  PROVE  /\ handler' \in [Routers -> [Routers -> HANDLER]]
         /\ \A k, m \in Routers : handler'[k][m] \in FarHandler(k, m)
  <1>1. t \in HANDLER
    BY FarTypes
  <1>2. handler' \in [Routers -> [Routers -> HANDLER]]
    BY <1>1 DEF IInv, TypeOK
  <1>3. ASSUME NEW k \in Routers, NEW m \in Routers PROVE handler'[k][m] \in FarHandler(k, m)
    BY DEF IInv, TypeOK, Far
  <1> QED BY <1>2, <1>3

\* One table is changed.
LEMMA TableStep ==
  ASSUME IInv, NEW r \in Routers, NEW S \in SUBSET FarRoutes(r), table' = [table EXCEPT ![r] = S]
  PROVE  /\ table' \in [Routers -> SUBSET Routes]
         /\ \A k \in Routers : table'[k] \in SUBSET FarRoutes(k)
  <1>1. S \in SUBSET Routes
    BY FarTypes
  <1> QED BY <1>1 DEF IInv, TypeOK, Far

\* The step of a timer keeps the counter of faults a number.
LEMMA ElapsesType == ASSUME faults \in Nat, Elapses PROVE faults' \in Nat
  BY DEF Elapses

-----------------------------------------------------------------------------
(* The actions *)

\* The inductive invariant holds initially.
LEMMA InitIInv == Init => IInv
  <1> SUFFICES ASSUME Init PROVE IInv
    OBVIOUS
  <1>1. ASSUME NEW r \in Routers
        PROVE  table[r] \in SUBSET FarRoutes(r) /\ table[r] \in SUBSET Routes
    BY LocalFar, FarTypes DEF Init
  <1>2. ASSUME NEW r \in Routers, NEW n \in Routers
        PROVE  /\ handler[r][n] \in FarHandler(r, n) /\ handler[r][n] \in HANDLER
               /\ update[r] \in FarUpdate(r) /\ update[r] \in UPDATE
    BY IdleFar, FarTypes DEF Init
  <1>3. ASSUME NEW r \in Routers, NEW n \in Routers
        PROVE  net[r][n] \in Seq(FarMessages(n)) /\ net[r][n] \in Seq(RIPMessages)
    <2>1. RipRequest \in FarMessages(n) /\ RipRequest \in RIPMessages
      BY MessageFar, FarTypes
    <2>2. net[r][n] = <<RipRequest>> \/ net[r][n] = <<>>
      BY DEF Init
    <2>3. CASE net[r][n] = <<RipRequest>>
      BY <2>1, <2>3
    <2>4. CASE net[r][n] = <<>>
      BY <2>4
    <2> QED BY <2>2, <2>3, <2>4
  <1>4. TypeOK
    BY <1>1, <1>2, <1>3 DEF Init, TypeOK
  <1> QED BY <1>1, <1>2, <1>3, <1>4 DEF IInv, Far

\* Discard, RIPRequestHandler and RIPResponseHandler preserve the inductive
\* invariant: the costs in a datagram from n are far enough for n.
LEMMA ReadIInv ==
  ASSUME IInv, NEW r \in Routers, NEW n \in RipNeighbors[r],
         Discard(r, n) \/ RIPRequestHandler(r, n) \/ RIPResponseHandler(r, n)
  PROVE  IInv'
  <1>1. n \in Routers /\ n # r
    BY RipAssumption
  <1>2. net[r][n] # <<>> /\ net[r][n] \in Seq(FarMessages(n))
    BY <1>1 DEF IInv, Far, Discard, RIPRequestHandler, RIPResponseHandler, Read
  <1>3. Tail(net[r][n]) \in Seq(FarMessages(n)) /\ Head(net[r][n]) \in FarMessages(n)
    BY <1>2
  <1> DEFINE tail == [net EXCEPT ![r][n] = Tail(net[r][n])]
  <1>4. ASSUME net' = tail, UNCHANGED <<table, update, expired, environment>>,
               NEW t \in FarHandler(r, n), handler' = [handler EXCEPT ![r][n] = t]
        PROVE  IInv'
    <2>1. /\ net' \in [Routers -> [Routers -> Seq(RIPMessages)]]
          /\ \A k, m \in Routers : net'[k][m] \in Seq(FarMessages(m))
      BY <1>1, <1>3, <1>4, NetStep
    <2>2. /\ handler' \in [Routers -> [Routers -> HANDLER]]
          /\ \A k, m \in Routers : handler'[k][m] \in FarHandler(k, m)
      BY <1>1, <1>4, HandlerStep
    <2> QED BY <1>4, <2>1, <2>2 DEF IInv, TypeOK, Far, environment
  <1>5. CASE Discard(r, n)
    <2>1. net' = tail /\ handler' = [handler EXCEPT ![r][n] = handler[r][n]]
      BY <1>1, <1>5 DEF Discard, IInv, TypeOK
    <2>2. handler[r][n] \in FarHandler(r, n)
      BY <1>1 DEF IInv, Far
    <2> QED BY <1>4, <1>5, <2>1, <2>2 DEF Discard
  <1>6. CASE RIPResponseHandler(r, n)
    <2> DEFINE t == [handler[r][n] EXCEPT !.todo = Head(net[r][n]).entries]
    <2>1. net' = tail /\ handler' = [handler EXCEPT ![r][n] = t]
      BY <1>1, <1>6 DEF RIPResponseHandler, IInv, TypeOK
    <2>2. handler[r][n] \in FarHandler(r, n)
      BY <1>1 DEF IInv, Far
    <2>3. Head(net[r][n]).entries \in SUBSET FarEntries(n)
      BY <1>3 DEF FarMessages
    <2>4. t \in FarHandler(r, n)
      BY <2>2, <2>3 DEF FarHandler
    <2> QED BY <1>4, <1>6, <2>1, <2>4 DEF RIPResponseHandler
  <1>7. CASE RIPRequestHandler(r, n)
    <2> DEFINE q == IF Dropped(r, n) THEN net[n][r]
                    ELSE Append(net[n][r], RipResponse(GetAllRIPEntries(r)))
    <2>1. RipResponse(GetAllRIPEntries(r)) \in FarMessages(r)
      BY AllEntriesFar, MessageFar DEF IInv, Far
    <2>2. q \in Seq(FarMessages(r)) /\ q \in Seq(RIPMessages)
      BY <1>1, <2>1, FarTypes DEF IInv, Far
    <2>3. net' = [net EXCEPT ![r][n] = Tail(net[r][n]), ![n][r] = q]
      BY <1>1, <1>7 DEF RIPRequestHandler, IInv, TypeOK
    <2> HIDE DEF q
    <2>4. Tail(net[r][n]) \in Seq(RIPMessages)
      BY <1>1, <1>3, FarTypes
    <2>5. net' \in [Routers -> [Routers -> Seq(RIPMessages)]]
      BY <1>1, <2>2, <2>3, <2>4 DEF IInv, TypeOK
    <2>6. ASSUME NEW k \in Routers, NEW m \in Routers PROVE net'[k][m] \in Seq(FarMessages(m))
      BY <1>1, <1>3, <2>2, <2>3 DEF IInv, TypeOK, Far
    <2> QED BY <1>7, <2>5, <2>6 DEF RIPRequestHandler, IInv, TypeOK, Far, environment
  <1> QED BY <1>5, <1>6, <1>7

\* ProcessRIPEntry preserves the inductive invariant: the neighbour is one link away.
LEMMA ProcessIInv ==
  ASSUME IInv, NEW r \in Routers, NEW n \in RipNeighbors[r], ProcessRIPEntry(r, n)
  PROVE  IInv'
  <1>1. n \in Routers
    BY RipAssumption
  <1>2. handler[r][n] \in FarHandler(r, n)
    BY <1>1 DEF IInv, Far
  <1>3. PICK x \in handler[r][n].todo :
          handler' = [handler EXCEPT ![r][n] =
                        [handler[r][n] EXCEPT !.todo = @ \ {x},
                           !.add = IF Better(r, x) THEN {Route(x.dst, n, Cost(x), "RIP", FALSE)} ELSE {}]]
    BY DEF ProcessRIPEntry
  <1> DEFINE add == IF Better(r, x) THEN {Route(x.dst, n, Cost(x), "RIP", FALSE)} ELSE {}
             t == [handler[r][n] EXCEPT !.todo = @ \ {x}, !.add = add]
  <1>4. x \in RIPMessageEntries /\ x.cost >= Hops[n][x.dst]
    BY <1>2, <1>3 DEF FarHandler, FarEntries
  <1>5. Hops[r][x.dst] <= Hops[n][x.dst] + 1 /\ Hops[r][x.dst] \in Nat /\ Hops[n][x.dst] \in Nat
    BY <1>1, <1>4, RipAssumption DEF RIPMessageEntries
  <1>6. Better(r, x) => Cost(x) \in 0..(INFINITY - 1) /\ Cost(x) >= Hops[r][x.dst]
    BY <1>4, <1>5, RipAssumption DEF Better, Cost, RIPMessageEntries
  <1>7. add \in SUBSET FarRoutes(r)
    BY <1>1, <1>4, <1>6 DEF FarRoutes, Routes, Route, RIPMessageEntries
  <1> HIDE DEF add
  <1>8. t \in FarHandler(r, n)
    BY <1>2, <1>7 DEF FarHandler
  <1>9. /\ handler' \in [Routers -> [Routers -> HANDLER]]
        /\ \A k, m \in Routers : handler'[k][m] \in FarHandler(k, m)
    BY <1>1, <1>3, <1>8, HandlerStep DEF add
  <1> QED BY <1>9 DEF ProcessRIPEntry, IInv, TypeOK, Far, environment

\* AddRIPRoute preserves the inductive invariant.
LEMMA AddIInv ==
  ASSUME IInv, NEW r \in Routers, NEW n \in RipNeighbors[r], AddRIPRoute(r, n)
  PROVE  IInv'
  <1>1. n \in Routers
    BY RipAssumption
  <1>2. handler[r][n] \in FarHandler(r, n) /\ table[r] \in SUBSET FarRoutes(r)
    BY <1>1 DEF IInv, Far
  <1>3. PICK route \in handler[r][n].add :
          /\ AddRoute(r, route)
          /\ handler' = [handler EXCEPT ![r][n] =
                           [handler[r][n] EXCEPT !.add = {},
                              !.changed = @ \cup {[dst |-> route.dst, cost |-> route.metric]}]]
    BY DEF AddRIPRoute
  <1> DEFINE x == [dst |-> route.dst, cost |-> route.metric]
             t == [handler[r][n] EXCEPT !.add = {}, !.changed = @ \cup {x}]
             S == IF \E e \in Lookup(r, route.dst) : route.metric >= e.metric THEN table[r]
                  ELSE (table[r] \ Lookup(r, route.dst)) \cup {route}
  <1>4. route \in FarRoutes(r)
    BY <1>2, <1>3 DEF FarHandler
  <1>5. x \in FarEntries(r)
    BY <1>4, RipAssumption DEF FarRoutes, FarEntries, Routes, RIPMessageEntries
  <1> HIDE DEF x
  <1>6. t \in FarHandler(r, n)
    BY <1>2, <1>5 DEF FarHandler
  <1>7. /\ handler' \in [Routers -> [Routers -> HANDLER]]
        /\ \A k, m \in Routers : handler'[k][m] \in FarHandler(k, m)
    BY <1>1, <1>3, <1>6, HandlerStep DEF x
  <1>8. table' = [table EXCEPT ![r] = S]
    BY <1>3 DEF AddRoute, IInv, TypeOK
  <1>9. S \in SUBSET FarRoutes(r)
    BY <1>2, <1>4
  <1> HIDE DEF S
  <1>10. /\ table' \in [Routers -> SUBSET Routes]
         /\ \A k \in Routers : table'[k] \in SUBSET FarRoutes(k)
    BY <1>8, <1>9, TableStep
  <1> QED BY <1>7, <1>10 DEF AddRIPRoute, IInv, TypeOK, Far, environment

\* SendTriggeredUpdate preserves the inductive invariant.
LEMMA TriggeredIInv ==
  ASSUME IInv, NEW r \in Routers, NEW n \in RipNeighbors[r], SendTriggeredUpdate(r, n)
  PROVE  IInv'
  <1>1. n \in Routers
    BY RipAssumption
  <1> DEFINE t == handler[r][n]
  <1>2. t \in FarHandler(r, n)
    BY <1>1 DEF IInv, Far
  <1>3. PICK m \in RipNeighbors[r] \ t.told :
          /\ Send(r, m, RipResponse(applyPoisonReverse(r, t.changed, m)))
          /\ handler' = [handler EXCEPT ![r][n] =
                           IF t.told \cup {m} = RipNeighbors[r] THEN HandlerIdle
                           ELSE [t EXCEPT !.told = @ \cup {m}]]
    BY DEF SendTriggeredUpdate
  <1> DEFINE u == IF t.told \cup {m} = RipNeighbors[r] THEN HandlerIdle
                  ELSE [t EXCEPT !.told = @ \cup {m}]
  <1>4. m \in Routers
    BY RipAssumption
  <1>5. u \in FarHandler(r, n)
    BY <1>1, <1>2, <1>4, IdleFar DEF FarHandler
  <1>6. /\ handler' \in [Routers -> [Routers -> HANDLER]]
        /\ \A k, l \in Routers : handler'[k][l] \in FarHandler(k, l)
    <2> HIDE DEF u
    <2> QED BY <1>1, <1>3, <1>5, HandlerStep DEF u
  <1>7. t.changed \in SUBSET FarEntries(r)
    BY <1>2 DEF FarHandler
  <1>8. RipResponse(applyPoisonReverse(r, t.changed, m)) \in FarMessages(r)
    BY <1>7, PoisonFar, MessageFar
  <1>9. /\ net' \in [Routers -> [Routers -> Seq(RIPMessages)]]
        /\ \A k, l \in Routers : net'[k][l] \in Seq(FarMessages(l))
    BY <1>3, <1>4, <1>8, SendStep
  <1> QED BY <1>6, <1>9 DEF SendTriggeredUpdate, IInv, TypeOK, Far, environment

\* PeriodicUpdate and SendPeriodicUpdate preserve the inductive invariant.
LEMMA PeriodicIInv ==
  ASSUME IInv, NEW r \in Routers,
         (\E n \in RipNeighbors[r] : PeriodicUpdate(r, n)) \/ SendPeriodicUpdate(r)
  PROVE  IInv'
  <1>1. ASSUME NEW u \in FarUpdate(r), update' = [update EXCEPT ![r] = u]
        PROVE  update' \in [Routers -> UPDATE] /\ \A k \in Routers : update'[k] \in FarUpdate(k)
    <2>1. u \in UPDATE
      BY FarTypes
    <2> QED BY <1>1, <2>1 DEF IInv, TypeOK, Far
  <1>2. ASSUME NEW n \in RipNeighbors[r], PeriodicUpdate(r, n) PROVE IInv'
    <2>1. n \in Routers
      BY RipAssumption
    <2>2. [to |-> {n}, entries |-> GetAllRIPEntries(r)] \in FarUpdate(r)
      BY <2>1, AllEntriesFar DEF FarUpdate, IInv, Far
    <2>3. update' \in [Routers -> UPDATE] /\ \A k \in Routers : update'[k] \in FarUpdate(k)
      BY <1>1, <1>2, <2>2 DEF PeriodicUpdate
    <2>4. faults' \in Nat
      BY <1>2, ElapsesType DEF PeriodicUpdate, IInv, TypeOK
    <2> QED BY <1>2, <2>3, <2>4 DEF PeriodicUpdate, IInv, TypeOK, Far
  <1>3. CASE SendPeriodicUpdate(r)
    <2>1. update[r] \in FarUpdate(r)
      BY DEF IInv, Far
    <2>2. PICK n \in update[r].to :
            Send(r, n, RipResponse(applyPoisonReverse(r, update[r].entries, n)))
      BY <1>3 DEF SendPeriodicUpdate
    <2>3. n \in Routers /\ update[r].entries \in SUBSET FarEntries(r)
      BY <2>1, <2>2 DEF FarUpdate
    <2>4. RipResponse(applyPoisonReverse(r, update[r].entries, n)) \in FarMessages(r)
      BY <2>3, PoisonFar, MessageFar
    <2>5. /\ net' \in [Routers -> [Routers -> Seq(RIPMessages)]]
          /\ \A k, l \in Routers : net'[k][l] \in Seq(FarMessages(l))
      BY <2>2, <2>3, <2>4, SendStep
    <2>6. update' \in [Routers -> UPDATE] /\ \A k \in Routers : update'[k] \in FarUpdate(k)
      BY <1>1, <1>3, IdleFar DEF SendPeriodicUpdate
    <2> QED BY <1>3, <2>5, <2>6 DEF SendPeriodicUpdate, IInv, TypeOK, Far, environment
  <1> QED BY <1>2, <1>3

\* Ages, RIPTimeoutCheck and RemoveRoute preserve the inductive invariant.
LEMMA TimeoutIInv ==
  ASSUME IInv, NEW r \in Routers,
         (\E p \in Prefixes : Ages(r, p) \/ RIPTimeoutCheck(r, p)) \/ RemoveRoute(r)
  PROVE  IInv'
  <1>1. ASSUME NEW p \in Prefixes, Ages(r, p) PROVE IInv'
    <2>1. PICK e \in Lookup(r, p) :
            table' = [table EXCEPT ![r] = (@ \ {e}) \cup {[e EXCEPT !.old = TRUE]}]
      BY <1>1 DEF Ages
    <2> DEFINE S == (table[r] \ {e}) \cup {[e EXCEPT !.old = TRUE]}
    <2>2. e \in FarRoutes(r) /\ table[r] \in SUBSET FarRoutes(r)
      BY DEF Lookup, IInv, Far
    <2>3. [e EXCEPT !.old = TRUE] \in FarRoutes(r)
      BY <2>2 DEF FarRoutes, Routes
    <2>4. S \in SUBSET FarRoutes(r) /\ table' = [table EXCEPT ![r] = S]
      BY <2>1, <2>2, <2>3 DEF IInv, TypeOK
    <2> HIDE DEF S
    <2>5. /\ table' \in [Routers -> SUBSET Routes]
          /\ \A k \in Routers : table'[k] \in SUBSET FarRoutes(k)
      BY <2>4, TableStep
    <2>6. faults' \in Nat
      BY <1>1, ElapsesType DEF Ages, IInv, TypeOK
    <2> QED BY <1>1, <2>5, <2>6 DEF Ages, IInv, TypeOK, Far
  <1>2. ASSUME NEW p \in Prefixes, RIPTimeoutCheck(r, p) PROVE IInv'
    <2>1. faults' \in Nat
      BY <1>2, ElapsesType DEF RIPTimeoutCheck, IInv, TypeOK
    <2>2. expired' \in [Routers -> SUBSET Prefixes]
      BY <1>2 DEF RIPTimeoutCheck, IInv, TypeOK
    <2> QED BY <1>2, <2>1, <2>2 DEF RIPTimeoutCheck, IInv, TypeOK, Far
  <1>3. CASE RemoveRoute(r)
    <2>1. PICK p \in expired[r] : table' = [table EXCEPT ![r] = @ \ Lookup(r, p)]
      BY <1>3 DEF RemoveRoute
    <2> DEFINE S == table[r] \ Lookup(r, p)
    <2>2. S \in SUBSET FarRoutes(r) /\ table' = [table EXCEPT ![r] = S]
      BY <2>1 DEF IInv, TypeOK, Far
    <2> HIDE DEF S
    <2>3. /\ table' \in [Routers -> SUBSET Routes]
          /\ \A k \in Routers : table'[k] \in SUBSET FarRoutes(k)
      BY <2>2, TableStep
    <2>4. expired' \in [Routers -> SUBSET Prefixes]
      BY <1>3 DEF RemoveRoute, IInv, TypeOK
    <2> QED BY <1>3, <2>3, <2>4 DEF RemoveRoute, IInv, TypeOK, Far, environment
  <1> QED BY <1>1, <1>2, <1>3

\* Restart preserves the inductive invariant: what the router knew is forgotten,
\* what it told the others stays true.
LEMMA RestartIInv == ASSUME IInv, NEW r \in Routers, Restart(r) PROVE IInv'
  <1>1. /\ table' \in [Routers -> SUBSET Routes]
        /\ \A k \in Routers : table'[k] \in SUBSET FarRoutes(k)
    BY LocalFar, TableStep DEF Restart
  <1>2. ASSUME NEW k \in Routers, NEW m \in Routers
        PROVE  /\ handler'[k][m] \in FarHandler(k, m) /\ handler'[k][m] \in HANDLER
               /\ update'[k] \in FarUpdate(k) /\ update'[k] \in UPDATE
    BY IdleFar, FarTypes DEF Restart, IInv, TypeOK, Far
  <1>3. handler' \in [Routers -> [Routers -> HANDLER]] /\ update' \in [Routers -> UPDATE]
    <2>1. HandlerIdle \in HANDLER /\ UpdateIdle \in UPDATE
      BY IdleFar, FarTypes
    <2> QED BY <2>1 DEF Restart, IInv, TypeOK
  <1>4. ASSUME NEW k \in Routers, NEW m \in Routers
        PROVE  net'[k][m] \in Seq(FarMessages(m)) /\ net'[k][m] \in Seq(RIPMessages)
    <2>1. RipRequest \in FarMessages(m) /\ RipRequest \in RIPMessages
      BY MessageFar, FarTypes
    <2>2. net[k][m] \in Seq(FarMessages(m)) /\ net[k][m] \in Seq(RIPMessages)
      BY DEF IInv, TypeOK, Far
    <2>3. \/ net'[k][m] = <<>> \/ net'[k][m] = net[k][m]
          \/ net'[k][m] = Append(net[k][m], RipRequest)
      BY DEF Restart, Started
    <2>4. CASE net'[k][m] = <<>>
      BY <2>4
    <2>5. CASE net'[k][m] = net[k][m]
      BY <2>2, <2>5
    <2>6. CASE net'[k][m] = Append(net[k][m], RipRequest)
      BY <2>1, <2>2, <2>6
    <2> QED BY <2>3, <2>4, <2>5, <2>6
  <1>5. net' \in [Routers -> [Routers -> Seq(RIPMessages)]]
    BY <1>4 DEF Restart, Started
  <1>6. expired' \in [Routers -> SUBSET Prefixes] /\ down' \subseteq Routers \X Routers
    BY DEF Restart, IInv, TypeOK
  <1>7. faults' \in Nat /\ downs' \in Nat /\ restarts' \in Nat
    BY DEF Restart, IInv, TypeOK
  <1>8. TypeOK'
    BY <1>1, <1>3, <1>5, <1>6, <1>7 DEF TypeOK
  <1> QED BY <1>1, <1>2, <1>4, <1>8 DEF IInv, Far

\* Down, Up and Lose preserve the inductive invariant.
LEMMA LinkIInv ==
  ASSUME IInv, NEW r \in Routers, NEW n \in RipNeighbors[r], Down(r, n) \/ Up(r, n) \/ Lose(r, n)
  PROVE  IInv'
  <1>1. n \in Routers
    BY RipAssumption
  <1>2. CASE Down(r, n) \/ Up(r, n)
    <2>1. down' \subseteq Routers \X Routers
      BY <1>1, <1>2 DEF Down, Up, IInv, TypeOK
    <2>2. downs' \in Nat
      BY <1>2 DEF Down, Up, IInv, TypeOK
    <2>3. UNCHANGED <<table, handler, update, expired, net, faults, restarts>>
      BY <1>2 DEF Down, Up
    <2> QED BY <2>1, <2>2, <2>3 DEF IInv, TypeOK, Far
  <1>3. CASE Lose(r, n)
    <2>1. Tail(net[r][n]) \in Seq(FarMessages(n))
      BY <1>1, <1>3 DEF Lose, IInv, Far
    <2>2. net' = [net EXCEPT ![r][n] = Tail(net[r][n])]
      BY <1>1, <1>3 DEF Lose, IInv, TypeOK
    <2>3. /\ net' \in [Routers -> [Routers -> Seq(RIPMessages)]]
          /\ \A k, m \in Routers : net'[k][m] \in Seq(FarMessages(m))
      BY <1>1, <2>1, <2>2, NetStep
    <2>4. faults' \in Nat
      BY <1>3 DEF Lose, IInv, TypeOK
    <2>5. UNCHANGED <<table, handler, update, expired, down, downs, restarts>>
      BY <1>3 DEF Lose
    <2> QED BY <2>3, <2>4, <2>5 DEF IInv, TypeOK, Far
  <1> QED BY <1>2, <1>3

\* Every step preserves the inductive invariant.
LEMMA NextIInv == ASSUME IInv, [Next]_vars PROVE IInv'
  <1>1. CASE UNCHANGED vars
    BY <1>1 DEF vars, IInv, TypeOK, Far
  <1>2. ASSUME NEW r \in Routers, NEW n \in RipNeighbors[r], InterfaceListen(r, n) PROVE IInv'
    BY <1>2, ReadIInv, ProcessIInv, AddIInv, TriggeredIInv DEF InterfaceListen
  <1> QED BY <1>1, <1>2, PeriodicIInv, TimeoutIInv, RestartIInv, LinkIInv DEF Next

-----------------------------------------------------------------------------
(* The theorems about costs *)

\* Every variable of Rip keeps its type; no table holds a metric of INFINITY or more.
THEOREM RipTypeCorrect == Spec => []TypeOK
  <1>1. IInv => TypeOK
    BY DEF IInv
  <1> QED BY <1>1, InitIInv, NextIInv, PTL DEF Spec

\* No router believes a prefix nearer than it is, in any network, after any losses,
\* link failures, restarts and interleavings of the goroutines of ipstack.
THEOREM MetricsSound == Spec => []MetricSound
  <1>1. IInv => MetricSound
    BY DEF IInv, Far, FarRoutes, MetricSound
  <1> QED BY <1>1, InitIInv, NextIInv, PTL DEF Spec

-----------------------------------------------------------------------------
(***************************************************************************)
(* The routes of a table.  LocalKept needs to know that RIPTimeoutCheck,   *)
(* which removes a prefix some time after it has seen its route, never     *)
(* holds a local one.                                                      *)
(***************************************************************************)
LInv == OneRoute /\ LocalKept /\ \A r \in Routers : expired[r] \cap Local[r] = {}

\* What a step does to the table of r: nothing, or one of the five changes.
TableChange(r) ==
    \/ table'[r] = table[r]
    \/ \E route \in Routes :
          /\ \A e \in Lookup(r, route.dst) : ~(route.metric >= e.metric)
          /\ table'[r] = (table[r] \ Lookup(r, route.dst)) \cup {route}
    \/ \E e \in table[r] : ~e.old /\ table'[r] = (table[r] \ {e}) \cup {[e EXCEPT !.old = TRUE]}
    \/ \E p \in expired[r] : table'[r] = table[r] \ Lookup(r, p)
    \/ table'[r] = LocalRoutes(r)

\* Every step changes each table in one of these ways.
LEMMA TableChanges == ASSUME IInv, [Next]_vars, NEW k \in Routers PROVE TableChange(k)
  <1>1. CASE UNCHANGED table
    BY <1>1 DEF TableChange
  <1>2. ASSUME NEW r \in Routers, NEW n \in RipNeighbors[r], AddRIPRoute(r, n) PROVE TableChange(k)
    <2>1. PICK route \in handler[r][n].add : AddRoute(r, route)
      BY <1>2 DEF AddRIPRoute
    <2>2. route \in Routes
      BY <2>1, RipAssumption DEF IInv, TypeOK, HANDLER
    <2>3. table' = [table EXCEPT ![r] =
                IF \E e \in Lookup(r, route.dst) : route.metric >= e.metric THEN table[r]
                ELSE (table[r] \ Lookup(r, route.dst)) \cup {route}]
      BY <2>1 DEF AddRoute, IInv, TypeOK
    <2>4. CASE k = r /\ ~\E e \in Lookup(r, route.dst) : route.metric >= e.metric
      <3>1. table'[k] = (table[k] \ Lookup(k, route.dst)) \cup {route}
        BY <2>3, <2>4 DEF IInv, TypeOK
      <3> QED BY <2>2, <2>4, <3>1 DEF TableChange
    <2>5. CASE k # r \/ \E e \in Lookup(r, route.dst) : route.metric >= e.metric
      BY <2>3, <2>5 DEF TableChange, IInv, TypeOK
    <2> QED BY <2>4, <2>5
  <1>3. ASSUME NEW r \in Routers, NEW p \in Prefixes, Ages(r, p) PROVE TableChange(k)
    <2>1. PICK e \in Lookup(r, p) :
            ~e.old /\ table' = [table EXCEPT ![r] = (@ \ {e}) \cup {[e EXCEPT !.old = TRUE]}]
      BY <1>3 DEF Ages
    <2>2. e \in table[r]
      BY DEF Lookup
    <2>3. CASE k = r
      BY <2>1, <2>2, <2>3 DEF TableChange, IInv, TypeOK
    <2>4. CASE k # r
      BY <2>1, <2>4 DEF TableChange, IInv, TypeOK
    <2> QED BY <2>3, <2>4
  <1>4. ASSUME NEW r \in Routers, RemoveRoute(r) PROVE TableChange(k)
    <2>1. PICK p \in expired[r] : table' = [table EXCEPT ![r] = @ \ Lookup(r, p)]
      BY <1>4 DEF RemoveRoute
    <2>2. CASE k = r
      BY <2>1, <2>2 DEF TableChange, IInv, TypeOK
    <2>3. CASE k # r
      BY <2>1, <2>3 DEF TableChange, IInv, TypeOK
    <2> QED BY <2>2, <2>3
  <1>5. ASSUME NEW r \in Routers, Restart(r) PROVE TableChange(k)
    <2>1. CASE k = r
      BY <1>5, <2>1 DEF Restart, TableChange, IInv, TypeOK
    <2>2. CASE k # r
      BY <1>5, <2>2 DEF Restart, TableChange, IInv, TypeOK
    <2> QED BY <2>1, <2>2
  <1>6. ASSUME NEW r \in Routers, NEW n \in RipNeighbors[r],
               \/ Discard(r, n) \/ RIPRequestHandler(r, n) \/ RIPResponseHandler(r, n)
               \/ ProcessRIPEntry(r, n) \/ SendTriggeredUpdate(r, n)
               \/ PeriodicUpdate(r, n) \/ Down(r, n) \/ Up(r, n) \/ Lose(r, n)
        PROVE  UNCHANGED table
    BY <1>6 DEF Discard, RIPRequestHandler, RIPResponseHandler, ProcessRIPEntry, SendTriggeredUpdate,
                PeriodicUpdate, Down, Up, Lose
  <1>7. ASSUME NEW r \in Routers, NEW p \in Prefixes, RIPTimeoutCheck(r, p) PROVE UNCHANGED table
    BY <1>7 DEF RIPTimeoutCheck
  <1>8. ASSUME NEW r \in Routers, SendPeriodicUpdate(r) PROVE UNCHANGED table
    BY <1>8 DEF SendPeriodicUpdate
  <1>9. CASE UNCHANGED vars
    BY <1>1, <1>9 DEF vars
  <1> QED BY <1>1, <1>2, <1>3, <1>4, <1>5, <1>6, <1>7, <1>8, <1>9 DEF Next, InterfaceListen

\* RIPTimeoutCheck picks routes learnt by RIP only; no other step adds to expired.
LEMMA ExpiredLearnt == ASSUME IInv, LInv, [Next]_vars, NEW k \in Routers PROVE expired'[k] \cap Local[k] = {}
  <1>1. CASE UNCHANGED expired
    BY <1>1 DEF LInv
  <1>2. ASSUME NEW r \in Routers, NEW p \in Prefixes, RIPTimeoutCheck(r, p)
        PROVE  expired'[k] \cap Local[k] = {}
    <2>1. PICK e \in Lookup(r, p) : e.source = "RIP"
      BY <1>2 DEF RIPTimeoutCheck, TimedOut
    <2>2. p \notin Local[r]
      <3> SUFFICES ASSUME p \in Local[r] PROVE FALSE
        OBVIOUS
      <3>1. Lookup(r, p) = {Route(p, r, 0, "LOCAL", TRUE)}
        BY DEF LInv, LocalKept
      <3>2. e = Route(p, r, 0, "LOCAL", TRUE)
        BY <2>1, <3>1
      <3> QED BY <2>1, <3>2 DEF Route
    <2>3. expired' = [expired EXCEPT ![r] = {p}]
      BY <1>2 DEF RIPTimeoutCheck
    <2> QED BY <2>2, <2>3 DEF LInv, IInv, TypeOK
  <1>3. ASSUME NEW r \in Routers, RemoveRoute(r) \/ Restart(r) PROVE expired'[k] \cap Local[k] = {}
    <2>1. expired' = expired \/ expired' = [expired EXCEPT ![r] = {}]
      BY <1>3 DEF RemoveRoute, Restart
    <2> QED BY <2>1 DEF LInv, IInv, TypeOK
  <1>4. ASSUME NEW r \in Routers, NEW n \in RipNeighbors[r],
               InterfaceListen(r, n) \/ PeriodicUpdate(r, n) \/ Down(r, n) \/ Up(r, n) \/ Lose(r, n)
        PROVE  UNCHANGED expired
    BY <1>4 DEF InterfaceListen, Discard, RIPRequestHandler, RIPResponseHandler, ProcessRIPEntry,
                AddRIPRoute, SendTriggeredUpdate, PeriodicUpdate, Down, Up, Lose
  <1>5. ASSUME NEW r \in Routers, NEW p \in Prefixes, Ages(r, p) PROVE UNCHANGED expired
    BY <1>5 DEF Ages
  <1>6. ASSUME NEW r \in Routers, SendPeriodicUpdate(r) PROVE UNCHANGED expired
    BY <1>6 DEF SendPeriodicUpdate
  <1>7. CASE UNCHANGED vars
    BY <1>1, <1>7 DEF vars
  <1> QED BY <1>1, <1>2, <1>3, <1>4, <1>5, <1>6, <1>7 DEF Next

\* A router has one route for each of its interfaces' prefixes.
LEMMA LocalRoutesUnique ==
  ASSUME NEW r, NEW e \in LocalRoutes(r), NEW f \in LocalRoutes(r), e.dst = f.dst
  PROVE  e = f
  <1>1. PICK p \in Local[r] : e = Route(p, r, 0, "LOCAL", TRUE)
    BY DEF LocalRoutes
  <1>2. PICK q \in Local[r] : f = Route(q, r, 0, "LOCAL", TRUE)
    BY DEF LocalRoutes
  <1>3. e.dst = p /\ f.dst = q
    BY <1>1, <1>2 DEF Route
  <1> QED BY <1>1, <1>2, <1>3

\* One route for a prefix stays one route.
LEMMA OneRouteStep ==
  ASSUME IInv, LInv, NEW k \in Routers, TableChange(k), NEW e \in table'[k], NEW f \in table'[k],
         e.dst = f.dst
  PROVE  e = f
  <1>1. \A x, y \in table[k] : x.dst = y.dst => x = y
    BY DEF LInv, OneRoute
  <1>2. \A x \in table[k] : x \in Routes
    BY DEF IInv, TypeOK
  <1>3. CASE table'[k] \subseteq table[k]
    BY <1>1, <1>3
  <1>4. ASSUME NEW route \in Routes,
               table'[k] = (table[k] \ Lookup(k, route.dst)) \cup {route}
        PROVE  e = f
    BY <1>1, <1>4 DEF Lookup
  <1>5. ASSUME NEW x \in table[k], table'[k] = (table[k] \ {x}) \cup {[x EXCEPT !.old = TRUE]}
        PROVE  e = f
    <2>1. [x EXCEPT !.old = TRUE].dst = x.dst
      BY <1>2 DEF Routes
    <2> DEFINE y == [x EXCEPT !.old = TRUE]
    <2> HIDE DEF y
    <2>2. \A z \in table'[k] : z = y \/ (z \in table[k] /\ z # x)
      BY <1>5 DEF y
    <2>3. y.dst = x.dst
      BY <2>1 DEF y
    <2> QED BY <1>1, <2>2, <2>3
  <1>6. CASE table'[k] = LocalRoutes(k)
    <2>1. e \in LocalRoutes(k) /\ f \in LocalRoutes(k)
      BY <1>6
    <2> QED BY <2>1, LocalRoutesUnique
  <1> QED BY <1>3, <1>4, <1>5, <1>6 DEF TableChange

\* Local routes are neither replaced nor aged nor removed.
LEMMA LocalStep ==
  ASSUME IInv, LInv, NEW k \in Routers, TableChange(k), NEW p \in Local[k]
  PROVE  {e \in table'[k] : e.dst = p} = {Route(p, k, 0, "LOCAL", TRUE)}
  <1> DEFINE l == Route(p, k, 0, "LOCAL", TRUE)
  <1>1. {e \in table[k] : e.dst = p} = {l}
    BY DEF LInv, LocalKept, Lookup
  <1>2. l.dst = p /\ l.old /\ l.metric = 0
    BY DEF Route
  <1>3. \A x \in table[k] : x \in Routes
    BY DEF IInv, TypeOK
  <1>4. CASE table'[k] = LocalRoutes(k)
    BY <1>4 DEF LocalRoutes, Route
  <1> HIDE DEF l
  <1>5. CASE table'[k] = table[k]
    BY <1>1, <1>5 DEF l
  <1>6. ASSUME NEW route \in Routes,
               \A e \in Lookup(k, route.dst) : ~(route.metric >= e.metric),
               table'[k] = (table[k] \ Lookup(k, route.dst)) \cup {route}
        PROVE  {e \in table'[k] : e.dst = p} = {l}
    <2>1. route.metric >= 0
      BY RipAssumption DEF Routes
    <2>2. route.dst # p
      BY <1>1, <1>2, <1>6, <2>1 DEF Lookup
    <2> QED BY <1>1, <1>6, <2>2 DEF Lookup
  <1>7. ASSUME NEW x \in table[k], ~x.old,
               table'[k] = (table[k] \ {x}) \cup {[x EXCEPT !.old = TRUE]}
        PROVE  {e \in table'[k] : e.dst = p} = {l}
    <2> DEFINE y == [x EXCEPT !.old = TRUE]
    <2>1. y.dst = x.dst
      BY <1>3 DEF Routes
    <2> HIDE DEF y
    <2>2. x # l /\ x.dst # p
      BY <1>1, <1>2, <1>7
    <2> QED BY <1>1, <1>7, <2>1, <2>2 DEF y
  <1>8. ASSUME NEW q \in expired[k], table'[k] = table[k] \ Lookup(k, q)
        PROVE  {e \in table'[k] : e.dst = p} = {l}
    <2>1. q # p
      BY <1>8 DEF LInv
    <2> QED BY <1>1, <1>8, <2>1 DEF Lookup
  <1> QED BY <1>4, <1>5, <1>6, <1>7, <1>8 DEF TableChange, l

\* LInv holds initially.
LEMMA InitLInv == Init => LInv
  <1> SUFFICES ASSUME Init PROVE LInv
    OBVIOUS
  <1>1. \A r \in Routers : table[r] = LocalRoutes(r)
    BY DEF Init
  <1>2. OneRoute
    BY <1>1, LocalRoutesUnique DEF OneRoute
  <1>3. LocalKept
    BY <1>1 DEF LocalKept, Lookup, LocalRoutes, Route
  <1> QED BY <1>2, <1>3 DEF Init, LInv

\* Every step preserves LInv.
LEMMA NextLInv == ASSUME IInv, LInv, [Next]_vars PROVE LInv'
  <1>1. OneRoute'
    BY TableChanges, OneRouteStep DEF OneRoute
  <1>2. LocalKept'
    BY TableChanges, LocalStep DEF LocalKept, Lookup
  <1> QED BY <1>1, <1>2, ExpiredLearnt DEF LInv

-----------------------------------------------------------------------------
(* The theorems about routes *)

\* A table never holds two routes for a prefix.
THEOREM RoutesUnique == Spec => []OneRoute
  <1>1. LInv => OneRoute
    BY DEF LInv
  <1> QED BY <1>1, InitIInv, NextIInv, InitLInv, NextLInv, PTL DEF Spec

\* The routes of a router's own interfaces stay in its table as InitNode put them,
\* although RIPTimeoutCheck removes a prefix some time after it has looked at its route.
THEOREM LocalRoutesKept == Spec => []LocalKept
  <1>1. LInv => LocalKept
    BY DEF LInv
  <1> QED BY <1>1, InitIInv, NextIInv, InitLInv, NextLInv, PTL DEF Spec

\* A route in a table is replaced only by a route that is at least as good,
\* whatever interface goroutines add routes at the same time.
THEOREM BestRoutesKept == Spec => BestKept
  <1> DEFINE NeverWorse == \A r \in Routers : \A e \in table[r] : \A f \in table'[r] :
                          e.dst = f.dst => f.metric <= e.metric
  <1>1. ASSUME IInv, LInv, [Next]_vars PROVE NeverWorse
    <2> SUFFICES ASSUME NEW r \in Routers, NEW e \in table[r], NEW f \in table'[r], e.dst = f.dst
                 PROVE  f.metric <= e.metric
      OBVIOUS
    <2>1. \A x, y \in table[r] : x.dst = y.dst => x = y
      BY <1>1 DEF LInv, OneRoute
    <2>2. \A x \in table[r] : x \in Routes /\ x.metric \in Nat
      BY <1>1, RipAssumption DEF IInv, TypeOK, Routes
    <2>3. TableChange(r)
      BY <1>1, TableChanges
    <2>4. CASE table'[r] \subseteq table[r]
      BY <2>1, <2>2, <2>4
    <2>5. ASSUME NEW route \in Routes,
                 \A x \in Lookup(r, route.dst) : ~(route.metric >= x.metric),
                 table'[r] = (table[r] \ Lookup(r, route.dst)) \cup {route}
          PROVE  f.metric <= e.metric
      <3>1. CASE f = route
        <4>1. route.metric \in Nat
          BY RipAssumption DEF Routes
        <4>2. e \in Lookup(r, route.dst)
          BY <3>1 DEF Lookup
        <4> QED BY <2>2, <2>5, <3>1, <4>1, <4>2
      <3>2. CASE f \in table[r]
        BY <2>1, <2>2, <3>2
      <3> QED BY <2>5, <3>1, <3>2
    <2>6. ASSUME NEW x \in table[r], table'[r] = (table[r] \ {x}) \cup {[x EXCEPT !.old = TRUE]}
          PROVE  f.metric <= e.metric
      <3>1. [x EXCEPT !.old = TRUE].metric = x.metric /\ [x EXCEPT !.old = TRUE].dst = x.dst
        BY <2>2 DEF Routes
      <3>2. CASE f = [x EXCEPT !.old = TRUE]
        BY <2>1, <2>2, <3>1, <3>2
      <3>3. CASE f \in table[r]
        BY <2>1, <2>2, <3>3
      <3> QED BY <2>6, <3>2, <3>3
    <2>7. CASE table'[r] = LocalRoutes(r)
      <3>1. f.metric = 0
        BY <2>7 DEF LocalRoutes, Route
      <3> QED BY <2>2, <3>1
    <2> QED BY <2>3, <2>4, <2>5, <2>6, <2>7 DEF TableChange
  <1> QED BY <1>1, InitIInv, NextIInv, InitLInv, NextLInv, PTL DEF Spec, BestKept
=============================================================================
