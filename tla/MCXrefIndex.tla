---------------------------- MODULE MCXrefIndex ----------------------------
(***************************************************************************)
(* Files for XrefIndex: two objects and three sections, 1, 2 and 3 in file *)
(* order.                                                                  *)
(***************************************************************************)
EXTENDS XrefIndex

S(k, e, i, p, x, r, z) == [kind |-> k, entry |-> e, intact |-> i, prev |-> p,
                           xrefstm |-> x, root |-> r, size |-> z]

FileOf(st, a, b, c) == [start |-> st, section |-> <<a, b, c>>]

Single(K) == {<<k, "absent">> : k \in K}

\* Undamaged updates, each a section that continues the one before it.
AppendedFiles ==
  LET E == [Objects -> {"n", "c", "absent"}] IN
  {FileOf(3, S("stream", a, TRUE, None, None, 1, 3), S("stream", b, TRUE, 1, None, 2, 3),
             S("stream", c, TRUE, 2, None, 0, 2)) : a \in E, b \in E, c \in E}

\* Links and roots of any kind, cycles included, with damage anywhere; nothing
\* links to the last section.
Unlinked == S("stream", <<"absent", "lost">>, TRUE, None, None, 0, 0)

DamagedSections ==
  {S(t[1], e, i, p, None, t[2], t[2] * 2) :
     t \in {<<"table", 0>>, <<"table", 1>>, <<"stream", 1>>},
     e \in Single({"n", "wrong", "lost", "c"}), i \in BOOLEAN, p \in {1, 2, None}}

DamagedFiles ==
  {FileOf(2, a, b, Unlinked) : a \in DamagedSections, b \in DamagedSections}
    \cup {FileOf(None, a, Unlinked, Unlinked) : a \in DamagedSections}

\* Tables with any links, /XRefStm among them.
LinkedSections(r) ==
  {S("table", <<"n", "absent">>, TRUE, p, x, r, 2) :
     p \in Offsets \cup {None}, x \in {3, None}}

LinkedFiles ==
  {FileOf(2, a, b, c) :
     a \in LinkedSections(1), b \in LinkedSections(0), c \in LinkedSections(1)}

WalkFiles == AppendedFiles \cup DamagedFiles \cup LinkedFiles
============================================================================
