---------------------------- MODULE FileTransfer ----------------------------
(***************************************************************************)
(* The sf and rf commands of pkg/tcpstack on top of a connection: sendFile *)
(* at the client connects and runs VSendFile, receiveFile at the server    *)
(* listens, accepts and runs VReceiveFile, each in a goroutine of its own. *)
(* That goroutine is the `repl' of TcpConn, which makes the calls of       *)
(* VWrite, VRead and VClose; here it has no others.                        *)
(*                                                                         *)
(* The file has MaxBytes[Client] bytes, and the one at position i is i.    *)
(* What VReceiveFile has written to its file is delivered[Server]: a read  *)
(* is followed by the write of the same bytes, and nobody else reads.      *)
(***************************************************************************)
EXTENDS TcpConn

VARIABLES
    sf,     \* where sendFile and VSendFile are
    rf      \* where receiveFile and VReceiveFile are

files == <<sf, rf>>
fileVars == <<vars, files>>

\* "returned" is the return of nil, "error" that of an error.
SF == {"start", "connecting", "writing", "draining", "closing", "returned", "error"}
RF == {"accepting", "checking", "reading", "finishing", "closing", "returned", "error"}

FileSize == MaxBytes[Client]

-----------------------------------------------------------------------------
(* sendFile and VSendFile *)

\* No entry for the destination is in the table: connect.
sendFile ==
    /\ sf = "start" /\ VConnect
    /\ sf' = "connecting" /\ UNCHANGED rf

sendFileConnected ==
    /\ sf = "connecting" /\ conn.pc \in {"ok", "timeout"}
    /\ Client \notin crashed
    /\ sf' = IF conn.pc = "ok" THEN "writing" ELSE "error"
    /\ UNCHANGED <<vars, rf>>

\* The last VWrite, if any, has returned nil.
NextChunk == sf = "writing" /\ AppIdle(Client) /\ Client \notin failed

\* file.Read fills the buffer, or returns what is left of the file.
VSendFile ==
    /\ NextChunk /\ VWrite(Client)
    /\ written'[Client] = Smaller(written[Client] + BUFFER_SIZE, FileSize)
    /\ sf' = sf /\ UNCHANGED rf

\* VWrite returns an error: VSendFile does too, without closing the connection.
VSendFileFails ==
    /\ sf = "writing" /\ AppIdle(Client)
    /\ \/ Client \in failed
       \/ written[Client] < FileSize /\ state[Client] \notin Open
    /\ sf' = "error" /\ UNCHANGED <<vars, rf>>

\* file.Read returns io.EOF.
VSendFileEOF ==
    /\ NextChunk /\ written[Client] = FileSize
    /\ sf' = "draining" /\ UNCHANGED <<vars, rf>>

\* Mutant: the length of the list is not looked at.
Drained_Not == TRUE

\* The loop looks at the length of the in-flight list, without its lock.
Drained == snd[Client].inFlight = {}

\* What VClose does to a connection that is not open: an error, or a nil entry.
VCloseFails(h) ==
    /\ AppIdle(h) /\ state[h] \notin Open
    /\ crashed' = IF NilEntry(h) THEN crashed \cup {h} ELSE crashed
    /\ UNCHANGED <<sockets, threads, accept, net, faults, resets, failed, written, delivered>>

\* It spins until the list is empty, then closes.
VSendFileClose ==
    /\ sf = "draining" /\ Drained
    /\ \/ VClose(Client) /\ sf' = "closing"
       \/ VCloseFails(Client) /\ sf' = "error"
    /\ UNCHANGED rf

VSendFileReturn ==
    /\ sf = "closing" /\ VCloseReturn(Client)
    /\ sf' = "returned" /\ UNCHANGED rf

-----------------------------------------------------------------------------
(* receiveFile and VReceiveFile *)

receiveFile ==
    /\ rf = "accepting" /\ VAccept
    /\ rf' = "checking" /\ UNCHANGED sf

\* Mutant: only a deleted connection is at its end.
EndOfFile_Closed == state[Server] = "CLOSED"

\* The entry's state says that the sender's FIN has come.  Once the entry is
\* deleted VFindTableEntry returns the listener's, which is in another state.
EndOfFile == state[Server] = "CLOSE_WAIT"

\* The top of the loop: stop, or go on to VRead; it spins while rcv.buf is empty.
VReceiveFileCheck ==
    /\ rf = "checking" /\ AppIdle(Server)
    /\ \/ EndOfFile /\ rf' = "finishing"
       \/ ~EndOfFile /\ rcv[Server].buf # <<>> /\ rf' = "reading"
    /\ UNCHANGED <<vars, sf>>

\* VRead looks at the state again, then reads what rcv.buf has ...
VReceiveFileRead ==
    /\ rf = "reading" /\ VRead(Server)
    /\ rf' = rf /\ UNCHANGED sf

\* ... which VReceiveFile writes to the file.
VReceiveFileWrite ==
    /\ rf = "reading" /\ VReadReturn(Server)
    /\ rf' = "checking" /\ UNCHANGED sf

\* "connection not established" ends the loop.
VReceiveFileReadFails ==
    /\ rf = "reading" /\ AppIdle(Server)
    /\ state[Server] \notin FinWait \cup {"ESTABLISHED"}
    /\ rf' = "finishing" /\ UNCHANGED <<vars, sf>>

VReceiveFileClose ==
    /\ rf = "finishing"
    /\ \/ VClose(Server) /\ rf' = "closing"
       \/ VCloseFails(Server) /\ rf' = "error"
    /\ UNCHANGED sf

VReceiveFileReturn ==
    /\ rf = "closing" /\ VCloseReturn(Server)
    /\ rf' = "returned" /\ UNCHANGED sf

-----------------------------------------------------------------------------
(* The specification *)

FileInit == Init /\ sf = "start" /\ rf = "accepting"

SendingFile ==
    \/ sendFileConnected \/ VSendFile \/ VSendFileFails \/ VSendFileEOF
    \/ VSendFileClose \/ VSendFileReturn
ReceivingFile ==
    \/ receiveFile \/ VReceiveFileCheck \/ VReceiveFileRead \/ VReceiveFileWrite
    \/ VReceiveFileReadFails \/ VReceiveFileClose \/ VReceiveFileReturn

\* What the connection does by itself
Connection(h) ==
    \/ Sending(h) \/ Probing(h) \/ Retransmitting(h) \/ Receiving(h) \/ TimeWaitExpires(h)
Handshake == VConnectReturn \/ HandshakeTimeout

FileNext ==
    \/ sendFile \/ SendingFile \/ ReceivingFile
    \/ /\ Handshake \/ \E h \in Hosts : Connection(h) \/ sendRST(h) \/ Fault(h)
       /\ UNCHANGED files

\* The two goroutines of the file commands are scheduled like those of the connection.
FileSpec ==
    /\ FileInit /\ [][FileNext]_fileVars
    /\ WF_fileVars(SendingFile) /\ WF_fileVars(ReceivingFile)
    /\ WF_fileVars(Handshake /\ UNCHANGED files)
    /\ \A h \in Hosts :
          /\ WF_fileVars(Sending(h) /\ UNCHANGED files)
          /\ WF_fileVars(Probing(h) /\ UNCHANGED files)
          /\ WF_fileVars(Retransmitting(h) /\ UNCHANGED files)
          /\ WF_fileVars(Receiving(h) /\ UNCHANGED files)
          /\ WF_fileVars(TimeWaitExpires(h) /\ UNCHANGED files)

-----------------------------------------------------------------------------
(* Properties *)

Over(pc) == pc \in {"returned", "error"}

\* VSendFile sends its FIN only when the receiver has the whole file: for a file
\* of one segment an empty in-flight list means just that, although VWrite, the
\* ACKs and the retransmissions change the list at the same time and nothing locks
\* the test.  With two segments in flight the list loses packets (UnackedTracked);
\* a receiver that gives up or resets the connection is excepted.
ClosedAfterAll ==
    /\ sf \in {"closing", "returned"} /\ FileSize <= MAX_TCP_PAYLOAD
    /\ resets = {} /\ state[Client] \notin {"CLOSE_WAIT", "LAST_ACK", "CLOSED"}
    => Len(Received(Server)) = FileSize

\* Unless the network has lost something, a file sent to its end ends
\* VReceiveFile too: its loop sees the FIN, however long the last bytes waited.
ReceiveFileEnds == sf = "returned" ~> Over(rf) \/ faults > 0 \/ resets # {}

\* "Receive file": when VReceiveFile returns nil, the file is complete.
FileComplete ==
    rf = "returned" /\ sf = "returned" => Len(delivered[Server]) = FileSize
=============================================================================
