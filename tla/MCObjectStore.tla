--------------------------- MODULE MCObjectStore ---------------------------
(***************************************************************************)
(* Small documents for ObjectStore: objects 1 and 2 are what callers want, *)
(* 3 and 4 are object streams, 3 of revision 1, 4 of revisions 2 and 3.    *)
(***************************************************************************)
EXTENDS ObjectStore

S(e, p) == [kind |-> "stream", entry |-> e, intact |-> TRUE, prev |-> p,
            xrefstm |-> None, root |-> 1, size |-> 5]

D(st, a, b, c) == [start |-> st, section |-> <<S(a, None), S(b, 1), S(c, 2)>>]

Nothing == <<"absent", "absent", "absent", "absent">>

MCStreamOf == <<3, 4, 4>>

\* 1 compressed, 2 with a body that was updated.
Updated == D(2, <<"c", "n", "n", "absent">>, <<"absent", "n", "absent", "absent">>, Nothing)

\* 1 and 2 compressed, in different streams.
TwoStreams == D(2, <<"c", "absent", "n", "absent">>, <<"absent", "c", "absent", "n">>, Nothing)

\* The stream that holds 2 was rewritten without it, and cannot be decoded.
BadStream == D(3, <<"n", "absent", "absent", "absent">>, <<"absent", "c", "absent", "n">>,
                  <<"absent", "absent", "absent", "n">>)

\* The stream that held 2 was rewritten without it.
Rewritten == D(2, <<"n", "c", "n", "absent">>, <<"absent", "absent", "n", "absent">>, Nothing)

\* The chain vouches for nothing that can be found: the file is scanned.
NoIndex == D(2, <<"lost", "lost", "absent", "absent">>, <<"wrong", "lost", "absent", "absent">>,
                Nothing)

AllFiles == {Updated, TwoStreams, BadStream, Rewritten, NoIndex}
============================================================================
