------------------------------ MODULE MCTcpConn ------------------------------
(* Values of the constants of TcpConn for model checking. *)
EXTENDS TcpConn

\* x for the client, y for the server
For(x, y) == [h \in Hosts |-> IF h = Client THEN x ELSE y]

ISN == For({5}, {14})   \* the server's numbers wrap around
SmallISN == For({1}, {5})

NoSizes == For({}, {})
NoBytes == For(0, 0)
ClientWrites1 == For({1}, {})
ClientWrites2 == For({2}, {})
ServerWrites1 == For({}, {1})
ServerWrites12 == For({}, {1, 2})
ClientBytes1 == For(1, 0)
ClientBytes2 == For(2, 0)
ServerBytes3 == For(0, 3)
ClientReads1 == For({1}, {})
ClientReads2 == For({2}, {})
=============================================================================
