---------------------------- MODULE MCHttpParser ----------------------------
(* Streams for the runs of HttpParser.                                     *)
EXTENDS HttpParser

Eol == <<CR, LF>>
Lines(S) == {<<t>> \o Eol : t \in S}

\* A body of two, one that goes beyond the buffer, two negative ones (behind
\* and in front of the buffer's start), one that overflows the sum and a long
\* whose low bits are 1.
MCLengths == [LEN |-> 2, LONG |-> 9, NEG |-> -3, FAR |-> -20,
              HUGE |-> INT_MAX, WRAP |-> 2 * (INT_MAX + 1) + 1]

Starts == Lines({"GET", "x"})
Headers == {<< >>} \cup Lines({"KEEP", "x"} \cup DOMAIN Lengths)
             \cup {h \o g : h \in Lines({"KEEP", "x"}), g \in Lines({"LEN", "KEEP"})}
             \cup {h \o g : h \in Lines({"LEN", "HUGE"}), g \in Lines({"KEEP", "NEG", "LEN"})}
Bodies == {<< >>, <<"x", "x">>, Eol, <<"x">> \o Eol, <<"GET">> \o Eol \o Eol}

\* Lines that end in the wrong way.
Broken == {<<"GET", CR, "x", LF>>, <<"GET", LF>>, <<"GET", CR, LF, LF, CR, LF>>,
           <<"GET", CR, LF, "KEEP", "x">> \o Eol \o Eol, <<CR, LF>>}

MCStreams == {s \o h \o Eol \o b : s \in Starts, h \in Headers, b \in Bodies} \cup Broken

\* A request whose two-character body may arrive in two pieces.
WithBody == {<<"GET">> \o Eol \o <<"LEN">> \o Eol \o Eol \o <<"x", "x">>}
=============================================================================
