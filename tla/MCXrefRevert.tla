---------------------------- MODULE MCXrefRevert ---------------------------
(***************************************************************************)
(* Files that were updated incrementally, undamaged, in the three ways     *)
(* that make the index keep an older revision.  EditsNeverRevert is        *)
(* violated with any of the three as Files.                                *)
(***************************************************************************)
EXTENDS XrefIndex

S(k, e, p, x) == [kind |-> k, entry |-> e, intact |-> TRUE, prev |-> p,
                  xrefstm |-> x, root |-> 1, size |-> 3]

FileOf(a, b, c) == [start |-> 3, section |-> <<a, b, c>>]

Streams(K) ==
  LET E == [Objects -> K] IN
  {FileOf(S("stream", a, None, None), S("stream", b, 1, None), S("stream", c, 2, None)) :
     a \in E, b \in E, c \in E}

\* Every revision of an object is in an object stream.
StreamFiles == Streams({"c", "f", "absent"})

\* An object moves into an object stream; no two revisions are compressed.
MixedFiles ==
  {f \in Streams({"n", "c", "absent"}) :
     \A o \in Objects : Cardinality({s \in Offsets : f.section[s].entry[o] = "c"}) <= 1}

\* Hybrid: the last section is a table, its /XRefStm the section before it.
HybridFiles ==
  {FileOf(S("table", a, None, None), S("stream", b, None, None), S("table", c, 1, 2)) :
     a \in [Objects -> {"n", "absent"}], b \in [Objects -> {"n", "absent"}],
     c \in [Objects -> {"f", "absent"}]}
============================================================================
