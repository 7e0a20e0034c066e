--------------------------------- MODULE Rip ---------------------------------
(***************************************************************************)
(* RIP between the routers of pkg/ipstack.  Every router runs, over one    *)
(* forwarding table:                                                       *)
(*                                                                         *)
(*   InterfaceListen  one goroutine for each interface, which runs         *)
(*                    RIPHandler and ProcessRIPResponse                    *)
(*   PeriodicUpdate   one goroutine                                        *)
(*   RIPTimeoutCheck  one goroutine                                        *)
(*                                                                         *)
(* The table's mutex is held by a single Lookup, AddRoute or RemoveRoute,  *)
(* never across two of them, so each of these is a step of its own.        *)
(* A table is the set of the entries of ForwardingTable.Entries.           *)
(* Routers are named by themselves, as next hops too; each interface has   *)
(* one RIP neighbour.                                                      *)
(***************************************************************************)
EXTENDS Integers, Sequences, FiniteSets

CONSTANTS
    Routers, Prefixes,
    RipNeighbors,        \* RipNeighbors[r]: IPConfig.RipNeighbors of r
    Local,               \* Local[r]: the prefixes of the interfaces of r
    Hops,                \* Hops[r][p]: links from r to the nearest router with p in
                         \* Local, or INFINITY; only the properties mention it
    INFINITY,            \* 16
    QueueSize,           \* datagrams that the socket of an interface holds
    \* Bounds on what the environment does
    MaxFaults,           \* datagrams lost, and timers that expire while datagrams are
                         \* still being handled
    MaxDowns, MaxRestarts

ASSUME RipAssumption ==
    /\ INFINITY \in Nat \ {0}
    /\ RipNeighbors \in [Routers -> SUBSET Routers]
    /\ \A r \in Routers : r \notin RipNeighbors[r]
    /\ \A r, n \in Routers : n \in RipNeighbors[r] => r \in RipNeighbors[n]
    /\ Local \in [Routers -> SUBSET Prefixes]
    /\ Hops \in [Routers -> [Prefixes -> 0..INFINITY]]
    /\ \A r \in Routers : \A p \in Local[r] : Hops[r][p] = 0
    /\ \A r \in Routers : \A n \in RipNeighbors[r] : \A p \in Prefixes :
          Hops[r][p] <= Hops[n][p] + 1
    /\ QueueSize \in Nat \ {0}
    /\ MaxFaults \in Nat /\ MaxDowns \in Nat /\ MaxRestarts \in Nat

VARIABLES
    table,      \* table[r]: the forwarding table of r
    handler,    \* handler[r][n]: the goroutine of the interface of r towards n
    update,     \* update[r]: the goroutine of PeriodicUpdate
    expired,    \* expired[r]: the prefixes RIPTimeoutCheck is about to remove, at most one
    net,        \* net[r][n]: datagrams from n in the socket of r's interface towards n
    down,       \* the pairs <<r, n>> whose interface, of r towards n, is down
    faults, downs, restarts   \* how often the environment has interfered

vars == <<table, handler, update, expired, net, down, faults, downs, restarts>>
environment == <<down, faults, downs, restarts>>

-----------------------------------------------------------------------------
(* Values *)

\* ForwardingTableEntry; `old' says that LastUpdated lies more than the timeout back.
Routes == [dst : Prefixes, nextHop : Routers, metric : 0..(INFINITY - 1),
           source : {"LOCAL", "RIP"}, old : BOOLEAN]
Route(p, n, m, src, o) == [dst |-> p, nextHop |-> n, metric |-> m, source |-> src, old |-> o]

RIPMessageEntries == [dst : Prefixes, cost : 0..INFINITY]
RIPMessages == [command : {"REQUEST", "RESPONSE"}, entries : SUBSET RIPMessageEntries]
RipRequest == [command |-> "REQUEST", entries |-> {}]
RipResponse(entries) == [command |-> "RESPONSE", entries |-> entries]

\* ProcessRIPResponse: entries still to look at, the route it is about to add (at
\* most one), changedEntries, and the neighbours already sent them
HANDLER == [todo : SUBSET RIPMessageEntries, add : SUBSET Routes,
            changed : SUBSET RIPMessageEntries, told : SUBSET Routers]
HandlerIdle == [todo |-> {}, add |-> {}, changed |-> {}, told |-> {}]

\* PeriodicUpdate: the neighbour whose response is being built (at most one), and its entries
UPDATE == [to : SUBSET Routers, entries : SUBSET RIPMessageEntries]
UpdateIdle == [to |-> {}, entries |-> {}]

LocalRoutes(r) == {Route(p, r, 0, "LOCAL", TRUE) : p \in Local[r]}

-----------------------------------------------------------------------------
(* The forwarding table *)

Lookup(r, p) == {e \in table[r] : e.dst = p}

\* Mutant: the caller's lookup is trusted.
AddRoute_Blind(r, route) ==
    table' = [table EXCEPT ![r] = (@ \ Lookup(r, route.dst)) \cup {route}]

\* Mutant: a better route is appended to the table, the old one stays.
AddRoute_Append(r, route) ==
    table' = [table EXCEPT ![r] =
                IF \E e \in Lookup(r, route.dst) : route.metric >= e.metric THEN @
                ELSE @ \cup {route}]

\* Looks again under the write lock: replaces a worse route, keeps a route that
\* is as good, appends when there is none.
AddRoute(r, route) ==
    table' = [table EXCEPT ![r] =
                IF \E e \in Lookup(r, route.dst) : route.metric >= e.metric THEN @
                ELSE (@ \ Lookup(r, route.dst)) \cup {route}]

GetAllRIPEntries(r) == {[dst |-> e.dst, cost |-> e.metric] : e \in table[r]}

\* What n is told of `entries': a route through n itself is unreachable.  A route
\* that has left the table since `entries' was collected is told as it was.
applyPoisonReverse(r, entries, n) ==
    {IF \E e \in Lookup(r, x.dst) : e.nextHop = n THEN [x EXCEPT !.cost = INFINITY] ELSE x :
        x \in entries}

-----------------------------------------------------------------------------
(* Datagrams *)

\* SendIP fails on an interface that is down, and a full socket drops.
Dropped(r, n) == <<r, n>> \in down \/ Len(net[n][r]) >= QueueSize

Send(r, n, m) == net' = IF Dropped(r, n) THEN net ELSE [net EXCEPT ![n][r] = Append(@, m)]

\* InterfaceListen reads the next datagram, and drops it when the interface is down.
Read(r, n) ==
    /\ handler[r][n] = HandlerIdle
    /\ net[r][n] # <<>>

Discard(r, n) ==
    /\ Read(r, n) /\ <<r, n>> \in down
    /\ net' = [net EXCEPT ![r][n] = Tail(@)]
    /\ UNCHANGED <<table, handler, update, expired, environment>>

-----------------------------------------------------------------------------
(* Time *)

\* No goroutine has anything to do before the next tick.
Quiet ==
    \A r \in Routers :
       /\ update[r] = UpdateIdle /\ expired[r] = {}
       /\ \A n \in RipNeighbors[r] :
             handler[r][n] = HandlerIdle /\ (net[r][n] = <<>> \/ <<r, n>> \in down)

\* A ticker or a timeout, seconds long: every datagram has been handled by then,
\* except as many times as MaxFaults allows.
Elapses ==
    \/ Quiet /\ UNCHANGED faults
    \/ ~Quiet /\ faults < MaxFaults /\ faults' = faults + 1

-----------------------------------------------------------------------------
(* InterfaceListen: RIPHandler and ProcessRIPResponse *)

\* RIP_REQUEST: the answer is the whole table, without poison reverse.
RIPRequestHandler(r, n) ==
    /\ Read(r, n) /\ <<r, n>> \notin down
    /\ Head(net[r][n]).command = "REQUEST"
    /\ net' = [net EXCEPT ![r][n] = Tail(@),
                          ![n][r] = IF Dropped(r, n) THEN @
                                    ELSE Append(@, RipResponse(GetAllRIPEntries(r)))]
    /\ UNCHANGED <<table, handler, update, expired, environment>>

RIPResponseHandler(r, n) ==
    /\ Read(r, n) /\ <<r, n>> \notin down
    /\ Head(net[r][n]).command = "RESPONSE"
    /\ net' = [net EXCEPT ![r][n] = Tail(@)]
    /\ handler' = [handler EXCEPT ![r][n] = [@ EXCEPT !.todo = Head(net[r][n]).entries]]
    /\ UNCHANGED <<table, update, expired, environment>>

\* Mutant: the link itself costs nothing.
Cost_NoHop(x) == x.cost
Cost(x) == x.cost + 1

\* Mutant: infinity is a cost like any other.
Better_NoLimit(r, x) == \A e \in Lookup(r, x.dst) : Cost(x) < e.metric

\* x is worth a route: reachable, and better than the route there is.
Better(r, x) == Cost(x) < INFINITY /\ \A e \in Lookup(r, x.dst) : Cost(x) < e.metric

\* One entry of the response.  The entry Lookup returns is a copy: writing its
\* LastUpdated and Metric changes nothing.
ProcessRIPEntry(r, n) ==
    LET t == handler[r][n] IN
    /\ t.add = {}
    /\ \E x \in t.todo :
          handler' = [handler EXCEPT ![r][n] =
                        [t EXCEPT !.todo = @ \ {x},
                                  !.add = IF Better(r, x)
                                          THEN {Route(x.dst, n, Cost(x), "RIP", FALSE)} ELSE {}]]
    /\ UNCHANGED <<table, update, expired, net, environment>>

AddRIPRoute(r, n) ==
    LET t == handler[r][n] IN
    /\ \E route \in t.add :
          /\ AddRoute(r, route)
          /\ handler' = [handler EXCEPT ![r][n] =
                           [t EXCEPT !.add = {},
                                     !.changed = @ \cup {[dst |-> route.dst, cost |-> route.metric]}]]
    /\ UNCHANGED <<update, expired, net, environment>>

\* All entries processed: the changed ones go to one neighbour after the other.
SendTriggeredUpdate(r, n) ==
    LET t == handler[r][n] IN
    /\ t.todo = {} /\ t.add = {} /\ t.changed # {}
    /\ \E m \in RipNeighbors[r] \ t.told :
          /\ Send(r, m, RipResponse(applyPoisonReverse(r, t.changed, m)))
          /\ handler' = [handler EXCEPT ![r][n] =
                           IF t.told \cup {m} = RipNeighbors[r] THEN HandlerIdle
                           ELSE [t EXCEPT !.told = @ \cup {m}]]
    /\ UNCHANGED <<table, update, expired, environment>>

-----------------------------------------------------------------------------
(* PeriodicUpdate *)

\* The ticker fires, or the loop goes on with the next neighbour: the table is
\* read entry by entry without a lock ...
PeriodicUpdate(r, n) ==
    /\ update[r] = UpdateIdle /\ Elapses
    /\ update' = [update EXCEPT ![r] = [to |-> {n}, entries |-> GetAllRIPEntries(r)]]
    /\ UNCHANGED <<table, handler, expired, net, down, downs, restarts>>

\* ... and is looked up again for the poison reverse.
SendPeriodicUpdate(r) ==
    /\ \E n \in update[r].to :
          Send(r, n, RipResponse(applyPoisonReverse(r, update[r].entries, n)))
    /\ update' = [update EXCEPT ![r] = UpdateIdle]
    /\ UNCHANGED <<table, handler, expired, environment>>

-----------------------------------------------------------------------------
(* RIPTimeoutCheck *)

\* RipTimeoutThreshold passes.
Ages(r, p) ==
    /\ Elapses
    /\ \E e \in Lookup(r, p) :
          /\ ~e.old
          /\ table' = [table EXCEPT ![r] = (@ \ {e}) \cup {[e EXCEPT !.old = TRUE]}]
    /\ UNCHANGED <<handler, update, expired, net, down, downs, restarts>>

\* Mutant: the comparison with the threshold the wrong way round.
TimedOut_Young(e) == e.source = "RIP" /\ ~e.old
\* Mutant: local routes expire as well.
TimedOut_AnySource(e) == e.old
TimedOut(e) == e.source = "RIP" /\ e.old

RIPTimeoutCheck(r, p) ==
    /\ expired[r] = {} /\ Elapses
    /\ \E e \in Lookup(r, p) : TimedOut(e)
    /\ expired' = [expired EXCEPT ![r] = {p}]
    /\ UNCHANGED <<table, handler, update, net, down, downs, restarts>>

\* Whatever route the table has for the prefix by now.  The range loop goes on
\* over the old slice, in which the shift leaves a second copy of the last
\* entry: it may meet the same expired entry once more.
RemoveRoute(r) ==
    /\ \E p \in expired[r] : table' = [table EXCEPT ![r] = @ \ Lookup(r, p)]
    /\ expired' \in {expired, [expired EXCEPT ![r] = {}]}
    /\ UNCHANGED <<handler, update, net, environment>>

-----------------------------------------------------------------------------
(* The environment *)

\* The sockets of r after it has started, and the requests of SendRIPRequest
Started(r) ==
    [m \in Routers |-> [k \in Routers |->
        IF m = r THEN <<>>
        ELSE IF k = r /\ m \in RipNeighbors[r] /\ Len(net[m][k]) < QueueSize
             THEN Append(net[m][k], RipRequest)
             ELSE net[m][k]]]

\* The process of r ends and InitNode starts it again.
Restart(r) ==
    /\ restarts < MaxRestarts
    /\ restarts' = restarts + 1
    /\ table' = [table EXCEPT ![r] = LocalRoutes(r)]
    /\ handler' = [handler EXCEPT ![r] = [n \in Routers |-> HandlerIdle]]
    /\ update' = [update EXCEPT ![r] = UpdateIdle]
    /\ expired' = [expired EXCEPT ![r] = {}]
    /\ down' = down \ ({r} \X Routers)
    /\ net' = Started(r)
    /\ UNCHANGED <<faults, downs>>

\* The down and up commands
Down(r, n) ==
    /\ downs < MaxDowns /\ <<r, n>> \notin down
    /\ downs' = downs + 1
    /\ down' = down \cup {<<r, n>>}
    /\ UNCHANGED <<table, handler, update, expired, net, faults, restarts>>

Up(r, n) ==
    /\ <<r, n>> \in down
    /\ down' = down \ {<<r, n>>}
    /\ UNCHANGED <<table, handler, update, expired, net, faults, downs, restarts>>

Lose(r, n) ==
    /\ faults < MaxFaults /\ net[r][n] # <<>>
    /\ faults' = faults + 1
    /\ net' = [net EXCEPT ![r][n] = Tail(@)]
    /\ UNCHANGED <<table, handler, update, expired, down, downs, restarts>>

-----------------------------------------------------------------------------
(* The specification *)

\* Every router has started, and the requests are under way.
Init ==
    /\ table = [r \in Routers |-> LocalRoutes(r)]
    /\ handler = [r \in Routers |-> [n \in Routers |-> HandlerIdle]]
    /\ update = [r \in Routers |-> UpdateIdle]
    /\ expired = [r \in Routers |-> {}]
    /\ net = [r \in Routers |-> [n \in Routers |->
                IF n \in RipNeighbors[r] THEN <<RipRequest>> ELSE <<>>]]
    /\ down = {} /\ faults = 0 /\ downs = 0 /\ restarts = 0

InterfaceListen(r, n) ==
    \/ Discard(r, n) \/ RIPRequestHandler(r, n) \/ RIPResponseHandler(r, n)
    \/ ProcessRIPEntry(r, n) \/ AddRIPRoute(r, n) \/ SendTriggeredUpdate(r, n)

Next ==
    \E r \in Routers :
       \/ \E n \in RipNeighbors[r] :
             InterfaceListen(r, n) \/ PeriodicUpdate(r, n) \/ Down(r, n) \/ Up(r, n) \/ Lose(r, n)
       \/ \E p \in Prefixes : Ages(r, p) \/ RIPTimeoutCheck(r, p)
       \/ SendPeriodicUpdate(r) \/ RemoveRoute(r) \/ Restart(r)

Spec == Init /\ [][Next]_vars

\* What the goroutines do between two ticks
Working ==
    \E r \in Routers :
       SendPeriodicUpdate(r) \/ RemoveRoute(r) \/ \E n \in RipNeighbors[r] : InterfaceListen(r, n)

\* Some goroutine runs while there is work, the ticker of PeriodicUpdate ticks
\* for ever and comes to every neighbour, a route that stays long enough grows
\* old, and RIPTimeoutCheck comes to every route.  The last two are strong: the
\* clock goes on while the goroutines work, though Elapses waits for them.
Fairness ==
    /\ WF_vars(Working)
    /\ \A r \in Routers :
          /\ \A n \in RipNeighbors[r] : []<><<PeriodicUpdate(r, n)>>_vars
          /\ \A p \in Prefixes \ Local[r] : SF_vars(Ages(r, p)) /\ SF_vars(RIPTimeoutCheck(r, p))

FairSpec == Spec /\ Fairness

-----------------------------------------------------------------------------
(* Properties *)

\* Every variable has its type; a metric in a table is below INFINITY.
TypeOK ==
    /\ table \in [Routers -> SUBSET Routes]
    /\ handler \in [Routers -> [Routers -> HANDLER]]
    /\ update \in [Routers -> UPDATE]
    /\ expired \in [Routers -> SUBSET Prefixes]
    /\ net \in [Routers -> [Routers -> Seq(RIPMessages)]]
    /\ down \subseteq Routers \X Routers
    /\ faults \in Nat /\ downs \in Nat /\ restarts \in Nat

\* A table has one route for a prefix, though several goroutines look a prefix
\* up, find nothing and add it.
OneRoute == \A r \in Routers : \A e, f \in table[r] : e.dst = f.dst => e = f

\* No router ever believes that a prefix is nearer than it is, whatever is lost,
\* delayed, forgotten by a restart or told without poison reverse.
MetricSound == \A r \in Routers : \A e \in table[r] : e.metric >= Hops[r][e.dst]

\* The routes of the router's own interfaces are never replaced and never time
\* out, although their LastUpdated is zero: without them SendIP finds no
\* interface for a RIP neighbour.
LocalKept ==
    \A r \in Routers : \A p \in Local[r] : Lookup(r, p) = {Route(p, r, 0, "LOCAL", TRUE)}

\* A route is replaced only by a better one: the metric for a prefix that stays
\* in the table never grows, when two interface goroutines add routes to it at
\* the same time too.
BestKept ==
    [][\A r \in Routers : \A e \in table[r] : \A f \in table'[r] :
          e.dst = f.dst => f.metric <= e.metric]_vars

HasRoute(r, p) == \E e \in table[r] : e.dst = p

\* The interfaces of every router with prefix p are down.
Severed(p) ==
    \A r \in Routers : p \in Local[r] => \A n \in RipNeighbors[r] : <<r, n>> \in down

\* Routes to a prefix that is cut off for good disappear everywhere: the routers
\* left do not tell each other about it for ever.
Purges ==
    \A p \in Prefixes :
       <>[]Severed(p) => <>[](\A r \in Routers : HasRoute(r, p) => p \in Local[r])

\* "Update timestamp and cost": a response from the next hop of a route gives the
\* route the cost it says, and makes it young again.
Refreshed ==
    [][\A r, n \in Routers : \A x \in handler[r][n].todo \ handler'[r][n].todo :
          Cost(x) < INFINITY /\ restarts' = restarts =>
             \A e \in table[r] : e.dst = x.dst /\ e.nextHop = n /\ e.metric <= Cost(x) =>
                \A f \in table'[r] : f.dst = x.dst => f.metric = Cost(x) /\ ~f.old]_vars
=============================================================================
