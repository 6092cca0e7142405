--------------------------- MODULE MCStreamCache ---------------------------
(***************************************************************************)
(* A small document for StreamCache: 1 is a fax image without Rows, 2 a    *)
(* JBIG2 image whose globals are 3, 4 has no Filter, 5 a damaged body and  *)
(* 6 a malformed Filter; 7 is a fax image without Columns, 8 a JBIG2 image *)
(* whose globals are damaged.  Image 2 is 2048 by 2048, which the key      *)
(* cannot tell from no dimensions at all.                                  *)
(***************************************************************************)
EXTENDS StreamCache, TLC

R(o, w, h, k) == [object |-> o, dims |-> [width |-> w, height |-> h], keep |-> k]
P(r, c) == [rows |-> r, columns |-> c]

MCDictionary ==
  1 :> P(Absent, 1728) @@ 2 :> P(Absent, Absent) @@ 3 :> P(Absent, Absent)
  @@ 4 :> P(Absent, Absent) @@ 5 :> P(Absent, 8) @@ 6 :> P(Absent, Absent)
  @@ 7 :> P(600, Absent) @@ 8 :> P(Absent, Absent)
MCGlobals == 2 :> 3 @@ 8 :> 5

\* Images with their dimensions, cached or not, and streams as such.
MCRequests ==
  {R(1, 1728, 2200, TRUE), R(1, 0, 0, TRUE), R(2, 2048, 2048, TRUE),
   R(3, 0, 0, TRUE), R(4, 0, 0, TRUE), R(6, 0, 0, TRUE), R(8, 600, 400, FALSE)}
============================================================================
