--------------------------- MODULE MCFileTransfer ---------------------------
(* Values of the constants of FileTransfer for model checking. *)
EXTENDS FileTransfer

\* x for the client, y for the server
At(x, y) == [h \in Hosts |-> IF h = Client THEN x ELSE y]

FileISN == At({1}, {5})
Chunks == At(1..BUFFER_SIZE, {})
TwoBytes == At(2, 0)
WholeBuffer == At({}, {BUFFER_SIZE})
=============================================================================
