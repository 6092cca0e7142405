-------------------------- MODULE MCRenderProgress --------------------------
(* Pages of up to three objects and two annotations; up to two objects more   *)
(* or fewer are counted in advance than are drawn, and steps of 30, 50 and    *)
(* 200 percent leave a remainder below 100.                                   *)
EXTENDS RenderProgress
============================================================================
