--------------------------- MODULE MCRenderCache ---------------------------
(* A small instance of RenderCache for TLC: three keys, bitmaps of one, two *)
(* and four units, limits below, at and above a bitmap's size.              *)
EXTENDS RenderCache

Size == [small |-> 1, medium |-> 2, large |-> 4]
MCBytes == [k \in Keys |-> Size]
============================================================================
