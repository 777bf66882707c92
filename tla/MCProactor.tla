----------------------------- MODULE MCProactor -----------------------------
(* Constants for the runs of Proactor.                                     *)
EXTENDS Proactor

CONSTANTS c1, c2

TwoConns == {c1, c2}

\* c1 may send a second request on a kept connection, or one request in two
\* pieces; c2 interferes.
SendLimit == [c \in Conns |-> IF c = c1 THEN 2 ELSE 1]

ChunkPart == [end |-> FALSE, file |-> FALSE, keep |-> FALSE]

\* A page requested with keep-alive, and a malformed request.
FileKept == [end |-> TRUE, file |-> TRUE, keep |-> TRUE]
BadClosed == [end |-> TRUE, file |-> FALSE, keep |-> FALSE]

AllChunks == {ChunkPart, FileKept, BadClosed}

\* Descriptor 6 is inherited, so that no two connections are neighbours.
FdsApart == {0, 5, 7}
FdsAdjacent == {0, 5, 6}
=============================================================================
