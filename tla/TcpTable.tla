------------------------------ MODULE TcpTable ------------------------------
(***************************************************************************)
(* The socket table of one node of pkg/tcpstack, and the goroutines that   *)
(* share it.  ts.tcpTable is a Go slice: a length over a backing array     *)
(* that append replaces when it is full.  The mutex protects single calls  *)
(* of VInsertTableEntry, VDeleteTableEntry and VFindTableEntry; the        *)
(* pointer that the last one returns is used after the unlock, by          *)
(*                                                                         *)
(*   iface      the goroutine that runs HandlePacket                       *)
(*   closer     VClose, called from the command line                       *)
(*   timeWait   one goroutine for each connection in TIME_WAIT             *)
(*                                                                         *)
(* Segments carry no data here: of a peer only what takes the entry of a   *)
(* connection from state to state is left (TcpConn has the rest).          *)
(***************************************************************************)
EXTENDS Naturals, Sequences, FiniteSets

CONSTANTS
    Passive, Active,   \* connections that peers open to port p, and that VConnect opens
    Listener,          \* the socket that listens on p
    AcceptQueueSize    \* 10

VARIABLES
    arrays,      \* every backing array so far; the length of one is its capacity
    tcpTable,    \* ts.tcpTable
    acceptQueue, \* the connections in the channel of the listener
    iface, closer, timeWait,
    opened       \* connections opened so far; a port is not used twice

vars == <<arrays, tcpTable, acceptQueue, iface, closer, timeWait, opened>>

-----------------------------------------------------------------------------
(* The table *)

Conns == Passive \cup Active

\* TCPTableEntry: `socket' stands for SocketStruct, the addresses and the ports.
Entry(s, st) == [socket |-> s, state |-> st]

\* An element of a backing array beyond the length of every slice, never written
Zero == Entry("nil", "LISTEN")

\* The elements of the slice as it is now
Elements == [i \in 1..tcpTable.len |-> arrays[tcpTable.array][i]]
Sockets == {Elements[i].socket : i \in 1..tcpTable.len}

\* A *TCPTableEntry: an element of one of the arrays, in use or not
Pointer(i) == [array |-> tcpTable.array, index |-> i]
Deref(ptr) == arrays[ptr.array][ptr.index]
SetState(ptr, st) == arrays' = [arrays EXCEPT ![ptr.array][ptr.index].state = st]

\* append: in place while there is room, else into an array of twice the size.
Grown(e) ==
    [i \in 1..(IF tcpTable.len = 0 THEN 1 ELSE 2 * tcpTable.len) |->
        IF i <= tcpTable.len THEN Elements[i] ELSE IF i = tcpTable.len + 1 THEN e ELSE Zero]

VInsertTableEntry(e) ==
    LET n == tcpTable.len IN
    IF n < Len(arrays[tcpTable.array])
    THEN /\ arrays' = [arrays EXCEPT ![tcpTable.array][n + 1] = e]
         /\ tcpTable' = [tcpTable EXCEPT !.len = n + 1]
    ELSE /\ arrays' = Append(arrays, Grown(e))
         /\ tcpTable' = [array |-> Len(arrays) + 1, len |-> n + 1]

\* The elements after the one that equals e move down by one, and the last stays
\* where it was, beyond the new length.
VDeleteTableEntry(e) ==
    LET found == {i \in 1..tcpTable.len : Elements[i] = e} IN
    /\ arrays' = [arrays EXCEPT ![tcpTable.array] =
                    [i \in DOMAIN @ |->
                       IF i < tcpTable.len /\ \E j \in found : j <= i THEN @[i + 1] ELSE @[i]]]
    /\ tcpTable' = [tcpTable EXCEPT !.len = @ - Cardinality(found)]

\* The entry of the connection, or for lack of one the listener if it has its port.
VFindTableEntry(c) ==
    LET exact == {i \in 1..tcpTable.len : Elements[i].socket = c}
        listening == {i \in 1..tcpTable.len : c \in Passive /\ Elements[i].state = "LISTEN"}
    IN {Pointer(i) : i \in IF exact # {} THEN exact ELSE listening}

-----------------------------------------------------------------------------
(* HandlePacket *)

Nowhere == [array |-> 0, index |-> 0]
IfaceIdle == [pc |-> "idle", conn |-> Listener, flag |-> "", ptr |-> Nowhere, copy |-> Zero]

\* A segment arrives, and its entry is found.
HandlePacket(c, flag) ==
    /\ iface.pc = "idle"
    /\ flag = "SYN" => c \in Passive \ opened
    /\ flag # "SYN" => c \in opened
    /\ \E ptr \in VFindTableEntry(c) :
          iface' = [IfaceIdle EXCEPT !.pc = "handle", !.conn = c, !.flag = flag, !.ptr = ptr]
    /\ UNCHANGED <<arrays, tcpTable, acceptQueue, closer, timeWait, opened>>

Handles(flag, states) ==
    iface.pc = "handle" /\ iface.flag = flag /\ Deref(iface.ptr).state \in states

\* The new entry is inserted, which may move the one `entry' points to.
handleSYN ==
    /\ Handles("SYN", {"LISTEN"})
    /\ VInsertTableEntry(Entry(iface.conn, "SYN_RECEIVED"))
    /\ opened' = opened \cup {iface.conn}
    /\ iface' = IfaceIdle
    /\ UNCHANGED <<acceptQueue, closer, timeWait>>

handleSYNACK ==
    /\ Handles("SYNACK", {"SYN_SENT"})
    /\ SetState(iface.ptr, "ESTABLISHED")
    /\ iface' = IfaceIdle
    /\ UNCHANGED <<tcpTable, acceptQueue, closer, timeWait, opened>>

\* Established, then into the queue: the send blocks while the queue is full.
handleACK ==
    /\ Handles("ACK", {"SYN_RECEIVED"})
    /\ SetState(iface.ptr, "ESTABLISHED")
    /\ iface' = [iface EXCEPT !.pc = "accept"]
    /\ UNCHANGED <<tcpTable, acceptQueue, closer, timeWait, opened>>

queueAccept ==
    /\ iface.pc = "accept" /\ Len(acceptQueue) < AcceptQueueSize
    /\ acceptQueue' = Append(acceptQueue, Deref(iface.ptr).socket)
    /\ iface' = IfaceIdle
    /\ UNCHANGED <<arrays, tcpTable, closer, timeWait, opened>>

\* CLOSE_WAIT, or TIME_WAIT and a goroutine that keeps the pointer.
handleFIN ==
    /\ Handles("FIN", {"ESTABLISHED", "FIN_WAIT_2"})
    /\ IF Deref(iface.ptr).state = "ESTABLISHED"
       THEN SetState(iface.ptr, "CLOSE_WAIT") /\ UNCHANGED timeWait
       ELSE /\ SetState(iface.ptr, "TIME_WAIT")
            /\ timeWait' = timeWait \cup
                  {[conn |-> Deref(iface.ptr).socket, ptr |-> iface.ptr, pc |-> "sleeping", copy |-> Zero]}
    /\ iface' = IfaceIdle
    /\ UNCHANGED <<tcpTable, acceptQueue, closer, opened>>

\* Writing the state, and the copy *entry that VDeleteTableEntry looks for
closes(ptr) == SetState(ptr, "CLOSED")
CopyOf(ptr) == Entry(Deref(ptr).socket, "CLOSED")

handleClosingACK ==
    /\ Handles("ACK", {"FIN_WAIT_1", "LAST_ACK"})
    /\ IF Deref(iface.ptr).state = "FIN_WAIT_1"
       THEN SetState(iface.ptr, "FIN_WAIT_2") /\ iface' = IfaceIdle
       ELSE /\ closes(iface.ptr)
            /\ iface' = [iface EXCEPT !.pc = "delete", !.copy = CopyOf(iface.ptr)]
    /\ UNCHANGED <<tcpTable, acceptQueue, closer, timeWait, opened>>

handleRST ==
    /\ iface.pc = "handle" /\ iface.flag = "RST" /\ Deref(iface.ptr).state # "LISTEN"
    /\ closes(iface.ptr)
    /\ iface' = [iface EXCEPT !.pc = "delete", !.copy = CopyOf(iface.ptr)]
    /\ UNCHANGED <<tcpTable, acceptQueue, closer, timeWait, opened>>

handlerDeletes ==
    /\ iface.pc = "delete"
    /\ VDeleteTableEntry(iface.copy)
    /\ iface' = IfaceIdle
    /\ UNCHANGED <<acceptQueue, closer, timeWait, opened>>

\* No case of the switch
ignore ==
    /\ iface.pc = "handle"
    /\ ~ \/ Handles("SYN", {"LISTEN"}) \/ Handles("SYNACK", {"SYN_SENT"})
         \/ Handles("ACK", {"SYN_RECEIVED", "FIN_WAIT_1", "LAST_ACK"})
         \/ Handles("FIN", {"ESTABLISHED", "FIN_WAIT_2"})
         \/ iface.flag = "RST" /\ Deref(iface.ptr).state # "LISTEN"
    /\ iface' = IfaceIdle
    /\ UNCHANGED <<arrays, tcpTable, acceptQueue, closer, timeWait, opened>>

\* handleFIN's goroutine: 2 * MSL are over ...
TimeWaitExpires(t) ==
    /\ t.pc = "sleeping"
    /\ closes(t.ptr)
    /\ timeWait' = (timeWait \ {t}) \cup {[t EXCEPT !.pc = "delete", !.copy = CopyOf(t.ptr)]}
    /\ UNCHANGED <<tcpTable, acceptQueue, iface, closer, opened>>

\* ... and the entry is deleted.
TimeWaitDeletes(t) ==
    /\ t.pc = "delete"
    /\ VDeleteTableEntry(t.copy)
    /\ timeWait' = (timeWait \ {t}) \cup {[t EXCEPT !.pc = "done"]}
    /\ UNCHANGED <<acceptQueue, iface, closer, opened>>

-----------------------------------------------------------------------------
(* Commands *)

\* The a command: VListen, then VAccept takes connections from the queue.
VListen ==
    /\ Listener \notin Sockets
    /\ VInsertTableEntry(Entry(Listener, "LISTEN"))
    /\ UNCHANGED <<acceptQueue, iface, closer, timeWait, opened>>

VAccept ==
    /\ acceptQueue # <<>>
    /\ acceptQueue' = Tail(acceptQueue)
    /\ UNCHANGED <<arrays, tcpTable, iface, closer, timeWait, opened>>

\* The c command; allocatePort gives each connection a port of its own.
VConnect(c) ==
    /\ c \notin opened
    /\ VInsertTableEntry(Entry(c, "SYN_SENT"))
    /\ opened' = opened \cup {c}
    /\ UNCHANGED <<acceptQueue, iface, closer, timeWait>>

\* VConnect deletes the entry as it was inserted.
HandshakeTimeout(c) ==
    /\ Entry(c, "SYN_SENT") \in {Elements[i] : i \in 1..tcpTable.len}
    /\ VDeleteTableEntry(Entry(c, "SYN_SENT"))
    /\ UNCHANGED <<acceptQueue, iface, closer, timeWait, opened>>

\* The cl command: VClose looks the entry up and sends the FIN ...
CloserIdle == [pc |-> "idle", conn |-> Listener, ptr |-> Nowhere]
VClose(c) ==
    /\ closer.pc = "idle"
    /\ \E ptr \in VFindTableEntry(c) : Deref(ptr).state \in {"ESTABLISHED", "CLOSE_WAIT"}
    /\ closer' = [CloserIdle EXCEPT !.pc = "sent", !.conn = c]
    /\ UNCHANGED <<arrays, tcpTable, acceptQueue, iface, timeWait, opened>>

\* ... looks it up again ...
VCloseFinds ==
    /\ closer.pc = "sent"
    /\ \E ptr \in VFindTableEntry(closer.conn) : closer' = [closer EXCEPT !.pc = "found", !.ptr = ptr]
    /\ UNCHANGED <<arrays, tcpTable, acceptQueue, iface, timeWait, opened>>

\* ... and writes the new state.
CloseState == [ESTABLISHED |-> "FIN_WAIT_1", CLOSE_WAIT |-> "LAST_ACK"]
VCloseReturn ==
    /\ closer.pc = "found"
    /\ IF Deref(closer.ptr).state \in DOMAIN CloseState
       THEN SetState(closer.ptr, CloseState[Deref(closer.ptr).state]) ELSE UNCHANGED arrays
    /\ closer' = CloserIdle
    /\ UNCHANGED <<tcpTable, acceptQueue, iface, timeWait, opened>>

-----------------------------------------------------------------------------
(* The specification *)

\* InitTCPStack: an empty slice
Init ==
    /\ arrays = <<<<>>>> /\ tcpTable = [array |-> 1, len |-> 0]
    /\ acceptQueue = <<>> /\ iface = IfaceIdle /\ closer = CloserIdle
    /\ timeWait = {} /\ opened = {}

Next ==
    \/ \E c \in Conns, flag \in {"SYN", "SYNACK", "ACK", "FIN", "RST"} : HandlePacket(c, flag)
    \/ handleSYN \/ handleSYNACK \/ handleACK \/ queueAccept \/ handleFIN
    \/ handleClosingACK \/ handleRST \/ handlerDeletes \/ ignore
    \/ \E t \in timeWait : TimeWaitExpires(t) \/ TimeWaitDeletes(t)
    \/ VListen \/ VAccept
    \/ \E c \in Active : VConnect(c) \/ HandshakeTimeout(c)
    \/ (\E c \in Conns : VClose(c)) \/ VCloseFinds \/ VCloseReturn

Spec == Init /\ [][Next]_vars

-----------------------------------------------------------------------------
(* Properties *)

\* "After waiting for 2*MSL in TIME_WAIT: A goes to CLOSED": once its goroutine
\* has ended, a connection that was in TIME_WAIT is not in the table any more.
TimeWaitOver == \A t \in timeWait : t.pc = "done" => t.conn \notin Sockets
=============================================================================
