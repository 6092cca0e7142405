---------------------------- MODULE MCPdfContent ----------------------------
(* Two soft masks, a font of the page with outlines and a Type 3 font of others. *)
EXTENDS PdfContent

CONSTANTS m1, m2

Repertoire == {
  {"save", "form", "opacity"},
  {"save", "mask", "form"},
  {"save", "text", "form"},
  {"save", "colour", "matrix"},
  {"path", "paint", "pattern"},
  {"path", "paint", "mask"},
  {"path", "matrix", "form"},
  {"text", "opacity"}}

Form(own, group, moved) == [own |-> own, group |-> group, moved |-> moved]
SomeForms == {Form(TRUE, FALSE, TRUE), Form(FALSE, TRUE, FALSE)}

LooksOwn == m1 :> 1 @@ m2 :> 2
=============================================================================
