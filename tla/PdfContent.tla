----------------------------- MODULE PdfContent -----------------------------
(***************************************************************************)
(* The content interpreter of LightVGBackend in src/lightvg-backend.cc:    *)
(* parse_pdf_content and the contents it runs inside one another, which    *)
(* are Form XObjects, the tiles of patterns, Type 3 glyphs, the groups of  *)
(* soft masks and the appearances of annotations.  Each run has stacks of  *)
(* its own for q and Q; the graphics state, the font, the resources and    *)
(* the soft mask are members of the back end that all runs share.          *)
(*                                                                         *)
(* A content may hold any operators, so that every one is a choice of the  *)
(* next.  Colours and fonts are values; a matrix is known by what it is    *)
(* relative to and how many were concatenated, a path by where its parts   *)
(* were constructed.  Images are PageImages'; shadings, the style of lines *)
(* and the position of text change nothing that is told apart here.        *)
(***************************************************************************)
EXTENDS Naturals, Sequences, SequencesExt

CONSTANTS
  Colours,      \* colours that operators set; Black is not one of them
  Black,
  Patterns,     \* names of patterns
  PageFonts,    \* names of fonts that the page has
  OtherFonts,   \* names of fonts that only other resources have
  Type3,        \* fonts whose glyphs are contents
  Forms,        \* Form XObjects: have /Resources, are groups, have a /Matrix
  Groups,       \* groups of soft masks
  Looks,        \* of each group: the bytes of its mask that are compared
  Repertoires,  \* kinds of operators that the contents of a page may use together
  MaxPages,
  MaxOps,       \* operators and annotations read
  None

ASSUME ContentAssumption ==
  /\ Black \notin Colours /\ None \notin Patterns \union Groups
  /\ Forms \subseteq [own : BOOLEAN, group : BOOLEAN, moved : BOOLEAN]
  /\ Type3 \subseteq PageFonts \union OtherFonts /\ DOMAIN Looks = Groups /\ MaxPages \in Nat /\ MaxOps \in Nat

VARIABLES
  state,        \* state_
  font,         \* current_font_ and current_font_name_
  resources,    \* form_resources_stack_: the contents that the entries belong to
  softMask,     \* current_soft_mask_
  groupCache,   \* soft_mask_group_cache_
  masking,      \* rendering_soft_mask_group_
  reporting,    \* progress_.enabled
  interrupted,  \* render_interrupted_
  frames,       \* the runs of parse_pdf_content, the innermost last
  pages,        \* pages begun
  annotating,   \* render_annotations runs
  uses,         \* the kinds of operators that the contents use
  read,         \* operators read
  scope         \* the operators read that are still in force

members == <<softMask, groupCache, masking, reporting, interrupted, pages, annotating, uses>>
vars == <<state, font, resources, members, frames, read, scope>>

Ways == {"fill", "stroke"}
Place(on) == [on |-> on, moved |-> 0]

\* GraphicsState(): opacities are counted in halves.
Start ==
  [place |-> Place("page"), colour |-> [w \in Ways |-> Black], ink |-> 0,
   pattern |-> [w \in Ways |-> None], alpha |-> [w \in Ways |-> 0], fade |-> 0,
   mask |-> None, path |-> {}, clip |-> {}, inText |-> FALSE, clipsText |-> FALSE,
   textClip |-> {}, size |-> None]

Top == frames[Len(frames)]
Owner == IF resources = <<>> THEN 0 ELSE Last(resources)

Init ==
  /\ state = Start /\ font = None /\ resources = <<>> /\ softMask = None /\ groupCache = {}
  /\ masking = FALSE /\ reporting = FALSE /\ interrupted = FALSE
  /\ frames = <<>> /\ pages = 0 /\ annotating = FALSE /\ uses \in Repertoires
  /\ read = 0 /\ scope = <<>>

---------------------------------------------------------------------------
(* What operators do to the graphics state. *)

\* m, l, c, v, y, re: points are transformed when they are read.
Construct(s) == [s EXCEPT !.path = @ \union {s.place}]
EndPath(s) == [s EXCEPT !.path = {}]
\* W: the clip is replaced at once.
Clip(s) == IF s.path = {} THEN s ELSE [s EXCEPT !.clip = s.path]
\* rg, g, k and RG, G, K: a pattern stays.
DeviceColour(s, w, c) == [s EXCEPT !.colour[w] = c]
\* cs and CS.
ColourSpace(s, w) == [s EXCEPT !.pattern[w] = None]
\* sc, scn and SC, SCN, with the name of a pattern or without.
Coloured(s, w, c) == [s EXCEPT !.pattern[w] = None, !.colour[w] = c]
Patterned(s, w, p) == [s EXCEPT !.pattern[w] = p]
Concat(s) == [s EXCEPT !.place.moved = @ + 1]
\* ca and CA of an ExtGState.
Opacity(s, w, a) == [s EXCEPT !.alpha[w] = a]
Masked(s, g) == [s EXCEPT !.mask = g]
BeginText(s) == [s EXCEPT !.inText = TRUE]
EndText(s) == [s EXCEPT !.inText = FALSE, !.clip = @ \union s.textClip, !.textClip = {}]
RenderMode(s, clips) == [s EXCEPT !.clipsText = clips]
FontSize(s, f) == [s EXCEPT !.size = f]
\* Tj, TJ, ' and " with outlines, in the modes 4 to 7.
ShowOutlines(s) ==
  IF s.inText /\ s.clipsText THEN [s EXCEPT !.textClip = @ \union {s.place}] ELSE s

---------------------------------------------------------------------------
(* The graphics state that a content starts with. *)

PageState(s) == Start
FormState(s, group, moved) ==
  LET fades == group /\ s.alpha["fill"] > 0
  IN [s EXCEPT !.fade = IF fades THEN @ + s.alpha["fill"] ELSE @,
               !.alpha = IF fades THEN [w \in Ways |-> 0] ELSE @,
               !.place.moved = IF moved THEN @ + 1 ELSE @]
TileState(s) == [Start EXCEPT !.place = Place("tile")]
\* The alpha that draw_text passes has the opacity in it already.
GlyphState(s) == [s EXCEPT !.place = Place("glyph"), !.ink = @ + s.alpha["fill"]]
GroupState(s) == [Start EXCEPT !.place = s.place]
AnnotState(s) == [Start EXCEPT !.place = Place("annot")]

---------------------------------------------------------------------------
(* What is in force: the operators of the scopes that are open, replayed   *)
(* on a new page.                                                          *)

Op(name) == [op |-> name]
OpOf(name, w, v) == [op |-> name, way |-> w, value |-> v]
Content(kind, own, group, moved, f) ==
  [op |-> "content", kind |-> kind, own |-> own, group |-> group, moved |-> moved, font |-> f, of |-> None]

\* The state after operator e.
After(s, e) ==
  CASE e.op = "construct" -> Construct(s)
    [] e.op = "end path" -> EndPath(s)
    [] e.op = "clip" -> Clip(s)
    [] e.op = "device colour" -> DeviceColour(s, e.way, e.value)
    [] e.op = "colour space" -> ColourSpace(s, e.way)
    [] e.op = "colour" -> Coloured(s, e.way, e.value)
    [] e.op = "pattern" -> Patterned(s, e.way, e.value)
    [] e.op = "concat" -> Concat(s)
    [] e.op = "opacity" -> Opacity(s, e.way, e.value)
    [] e.op = "mask" -> Masked(s, e.value)
    [] e.op = "begin text" -> BeginText(s)
    [] e.op = "end text" -> EndText(s)
    [] e.op = "mode" -> RenderMode(s, e.value)
    [] e.op = "font" -> FontSize(s, e.value)
    [] e.op = "show" -> ShowOutlines(s)
    [] e.op \in {"save", "font stays"} -> s

Inside(s, e) ==
  CASE e.kind = "page" -> PageState(s)
    [] e.kind = "form" -> FormState(s, e.group, e.moved)
    [] e.kind = "tile" -> TileState(s)
    [] e.kind = "glyph" -> GlyphState(s)
    [] e.kind = "group" -> GroupState(s)
    [] e.kind = "annot" -> AnnotState(s)

\* Tf: "page resources first, then ... the active Form/pattern resource stack".
FontNamed(f, owner) == IF f \in PageFonts THEN <<f, 0>> ELSE <<f, owner>>

Replayed(env, e) ==
  IF e.op = "content"
    THEN [state |-> Inside(env.state, e), depth |-> env.depth + 1,
          owner |-> IF e.own THEN env.depth + 1 ELSE env.owner,
          font |-> IF env.depth = 0 THEN e.font ELSE env.font]
    ELSE [env EXCEPT !.state = After(@, e),
                     !.font = CASE e.op = "font" -> FontNamed(e.value, env.owner)
                                [] e.op = "font stays" -> e.value
                                [] OTHER -> @]

InForce(ops) ==
  LET after[i \in 0..Len(ops)] ==
        IF i = 0 THEN [state |-> Start, depth |-> 0, owner |-> 0, font |-> None]
        ELSE Replayed(after[i - 1], ops[i])
  IN after[Len(ops)]

\* The place of the last operator of some of these names.
LastOf(names) == CHOOSE i \in DOMAIN scope :
  /\ scope[i].op \in names
  /\ \A j \in DOMAIN scope : j > i => scope[j].op \notin names

\* The scope once its innermost save is undone.
Undone ==
  LET i == LastOf({"save", "content"})
  IN IF scope[i].op = "save" THEN SubSeq(scope, 1, i - 1) ELSE scope

\* The scope once its innermost content is over.  Only Q restores a font, so the one
\* that a content chose stays.
Left ==
  LET outer == SubSeq(scope, 1, LastOf({"content"}) - 1)
      stays == InForce(scope).font
  IN IF outer = <<>> \/ InForce(outer).font = stays THEN outer
     ELSE Append(outer, [op |-> "font stays", value |-> stays])

---------------------------------------------------------------------------
(* Operators. *)

Reads(kind) ==
  /\ kind \in uses /\ frames # <<>> /\ Top.painting = <<>> /\ ~interrupted
  /\ read < MaxOps /\ read' = read + 1

Simple(e) ==
  /\ state' = After(state, e)
  /\ scope' = Append(scope, e)
  /\ UNCHANGED <<font, resources, members, frames>>

PathOperator == \E name \in {"construct", "clip", "end path"} : Reads("path") /\ Simple(Op(name))

ColourOperator ==
  /\ Reads("colour")
  /\ \E w \in Ways :
       \/ \E c \in Colours : Simple(OpOf("device colour", w, c)) \/ Simple(OpOf("colour", w, c))
       \/ Simple(OpOf("colour space", w, None))

PatternOperator ==
  Reads("pattern") /\ \E w \in Ways, p \in Patterns : Simple(OpOf("pattern", w, p))

ConcatOperator == Reads("matrix") /\ Simple(Op("concat"))

TextOperator ==
  /\ Reads("text")
  /\ \/ Simple(Op("begin text")) \/ Simple(Op("end text"))
     \/ \E clips \in BOOLEAN : Simple(OpOf("mode", "fill", clips))

SetFont(f) ==
  /\ Reads("text")
  /\ font' = FontNamed(f, Owner)
  /\ state' = FontSize(state, f)
  /\ scope' = Append(scope, OpOf("font", "fill", f))
  /\ UNCHANGED <<resources, members, frames>>

Save ==
  /\ Reads("save")
  /\ frames' = [frames EXCEPT ![Len(frames)].states = Append(@, state),
                              ![Len(frames)].fonts = Append(@, font)]
  /\ scope' = Append(scope, Op("save"))
  /\ UNCHANGED <<state, font, resources, members>>

Restore_Mask ==                     \* mutant: Q leaves the soft mask of the scope it ends
  /\ Reads("save")
  /\ IF Top.states = <<>> THEN UNCHANGED <<state, font, softMask, frames>>
     ELSE /\ state' = [Last(Top.states) EXCEPT !.mask = state.mask] /\ font' = Last(Top.fonts)
          /\ softMask' = None
          /\ frames' = [frames EXCEPT ![Len(frames)].states = Front(@),
                                      ![Len(frames)].fonts = Front(@)]
  /\ scope' = Undone
  /\ UNCHANGED <<resources, groupCache, masking, reporting, interrupted, pages, annotating, uses>>

Restore ==
  /\ Reads("save")
  /\ IF Top.states = <<>> THEN UNCHANGED <<state, font, softMask, frames>>
     ELSE /\ state' = Last(Top.states) /\ font' = Last(Top.fonts) /\ softMask' = None
          /\ frames' = [frames EXCEPT ![Len(frames)].states = Front(@),
                                      ![Len(frames)].fonts = Front(@)]
  /\ scope' = Undone
  /\ UNCHANGED <<resources, groupCache, masking, reporting, interrupted, pages, annotating, uses>>

---------------------------------------------------------------------------
(* Contents that run inside one another. *)

Entered(e) ==
  /\ state' = Inside(state, e)
  /\ frames' = Append(frames, [kind |-> e.kind, own |-> e.own, states |-> <<>>, fonts |-> <<>>,
                               painting |-> <<>>, tiled |-> FALSE, of |-> e.of,
                               saved |-> [state |-> state, masking |-> masking,
                                          reporting |-> reporting]])
  /\ resources' = IF e.own THEN Append(resources, Len(frames) + 1) ELSE resources
  /\ masking' = (masking \/ e.kind = "group")
  /\ reporting' = IF e.kind = "page" THEN ~interrupted' ELSE reporting /\ e.kind = "form"
  /\ scope' = Append(scope, e)

Plain(kind, own) == Content(kind, own, FALSE, FALSE, font)

\* render_page: every soft mask of the page before is forgotten, the font is not.
BeginPage ==
  /\ frames = <<>> /\ pages < MaxPages /\ pages' = pages + 1
  /\ interrupted' \in BOOLEAN
  /\ Entered(Plain("page", FALSE))
  /\ softMask' = None /\ groupCache' = {} /\ annotating' = FALSE
  /\ UNCHANGED <<font, uses, read>>

BeginAnnotation(own) ==
  /\ frames = <<>> /\ annotating /\ "form" \in uses /\ read < MaxOps /\ read' = read + 1
  /\ Entered(Plain("annot", own))
  /\ UNCHANGED <<font, softMask, groupCache, interrupted, pages, annotating, uses>>

\* Do of a Form XObject.
DoForm(f) ==
  /\ Reads("form")
  /\ Entered(Content("form", f.own, f.group, f.moved, font))
  /\ UNCHANGED <<font, softMask, groupCache, interrupted, pages, annotating, uses>>

\* gs: the opacities.
SetOpacity(w, a) == Reads("opacity") /\ Simple(OpOf("opacity", w, a))

\* gs: /SMask, which is passed over in the group of a soft mask.  A group that was
\* rendered on this page is taken from the cache; one that fails leaves no mask.
ForgetMask(g) ==
  /\ state' = Masked(state, g) /\ scope' = Append(scope, OpOf("mask", "fill", g))
  /\ UNCHANGED <<font, resources, groupCache, masking, reporting, interrupted, pages, annotating,
                 uses, frames>>

SetSoftMask(g, own) ==
  /\ Reads("mask")
  /\ IF masking THEN UNCHANGED <<state, font, resources, members, frames, scope>>
     ELSE IF g \in groupCache \union {None} THEN ForgetMask(g) /\ softMask' = None
     ELSE \/ ForgetMask(None) /\ UNCHANGED softMask
          \/ /\ Entered([Plain("group", own) EXCEPT !.of = g])
             /\ UNCHANGED <<font, softMask, groupCache, interrupted, pages, annotating, uses>>

\* apply_soft_mask_opacity: the mask that a paint is given.
Attached ==
  IF state.mask = None THEN None
  ELSE IF softMask # None /\ Looks[softMask] = Looks[state.mask] THEN softMask
  ELSE state.mask
Attach == softMask' = IF state.mask = None THEN softMask ELSE Attached

\* advance_progress, where reports are on or off: a callback may interrupt the page.
Progress(on) ==
  \/ interrupted' = interrupted /\ reporting' = on
  \/ on /\ interrupted' = TRUE /\ reporting' = FALSE

\* f, S, B and the others, with a path: each way of painting has a step of its own.
PaintOperator ==
  /\ Reads("paint") /\ state.path # {}
  /\ \E ways \in {<<"fill">>, <<"stroke">>, <<"fill", "stroke">>} :
       frames' = [frames EXCEPT ![Len(frames)].painting = ways]
  /\ UNCHANGED <<state, font, resources, members, scope>>

\* A tile that is not in the RenderCache is rendered before its shape is pushed.
RenderTile(own) ==
  /\ frames # <<>> /\ Top.painting # <<>> /\ ~Top.tiled
  /\ state.pattern[Head(Top.painting)] # None
  /\ Entered(Plain("tile", own))
  /\ UNCHANGED <<font, softMask, groupCache, interrupted, pages, annotating, uses, read>>

PushShape ==
  /\ frames # <<>> /\ Top.painting # <<>>
  /\ Attach
  /\ frames' = [frames EXCEPT ![Len(frames)].painting = Tail(@), ![Len(frames)].tiled = FALSE]
  /\ IF Tail(Top.painting) # <<>> THEN UNCHANGED <<state, scope, interrupted, reporting>>
     ELSE /\ state' = EndPath(state) /\ scope' = Append(scope, Op("end path"))
          /\ Progress(reporting)
  /\ UNCHANGED <<font, resources, groupCache, masking, pages, annotating, uses, read>>

\* Tj, TJ, ' and ": a Type 3 glyph is a content, others are outlines.
IsType3 == font # None /\ font[1] \in Type3

ShowText ==
  /\ Reads("text") /\ state.inText /\ ~IsType3
  /\ state' = ShowOutlines(state) /\ scope' = Append(scope, Op("show"))
  /\ Attach
  /\ Progress(reporting)
  /\ UNCHANGED <<font, resources, groupCache, masking, pages, annotating, uses, frames>>

ShowGlyph(own) ==
  /\ Reads("text") /\ state.inText /\ IsType3
  /\ Entered(Plain("glyph", own))
  /\ UNCHANGED <<font, softMask, groupCache, interrupted, pages, annotating, uses>>

---------------------------------------------------------------------------
(* The end of a content, which comes at once after an interruption. *)

Ends_NotWhenCut ==                  \* mutant: a content that is cut short leaves its resources
  /\ frames # <<>> /\ Top.painting = <<>>
  /\ resources' = IF Top.own /\ ~interrupted THEN Front(resources) ELSE resources
  /\ UNCHANGED <<font, pages, uses, read>>

Ends ==
  /\ frames # <<>> /\ Top.painting = <<>>
  /\ resources' = IF Top.own THEN Front(resources) ELSE resources
  /\ UNCHANGED <<font, pages, uses, read>>

EndPage ==
  /\ Ends /\ Top.kind = "page"
  /\ frames' = <<>> /\ scope' = <<>> /\ annotating' = ~interrupted
  /\ UNCHANGED <<state, softMask, groupCache, masking, reporting, interrupted>>

\* All but those of pages restore the state that they saved.
Returns ==
  /\ Ends
  /\ state' = Top.saved.state /\ scope' = Left /\ frames' = Front(frames)
  /\ UNCHANGED <<groupCache, annotating>>

EndForm ==
  /\ Returns /\ Top.kind = "form"
  /\ UNCHANGED <<softMask, masking, reporting, interrupted>>

\* A text that was shown and an annotation advance the progress.
EndGlyph ==
  /\ Returns /\ Top.kind = "glyph"
  /\ Progress(Top.saved.reporting)
  /\ UNCHANGED <<softMask, masking>>

EndAnnotation ==
  /\ Returns /\ Top.kind = "annot"
  /\ Progress(Top.saved.reporting)
  /\ UNCHANGED <<softMask, masking>>

EndTile ==
  /\ Ends /\ Top.kind = "tile"
  /\ state' = Top.saved.state /\ scope' = Left /\ reporting' = Top.saved.reporting
  /\ frames' = [Front(frames) EXCEPT ![Len(frames) - 1].tiled = TRUE]
  /\ UNCHANGED <<softMask, groupCache, masking, interrupted, annotating>>

EndGroup ==
  /\ Ends /\ Top.kind = "group"
  /\ state' = Masked(Top.saved.state, Top.of)
  /\ scope' = Append(Left, OpOf("mask", "fill", Top.of))
  /\ frames' = Front(frames)
  /\ groupCache' = groupCache \union {Top.of} /\ softMask' = None
  /\ masking' = Top.saved.masking /\ reporting' = Top.saved.reporting
  /\ UNCHANGED <<interrupted, annotating>>

Next ==
  \/ BeginPage
  \/ \E own \in BOOLEAN :
       \/ BeginAnnotation(own)
       \/ \E g \in Groups \union {None} : SetSoftMask(g, own)
       \/ RenderTile(own)
       \/ ShowGlyph(own)
  \/ \E f \in Forms : DoForm(f)
  \/ PathOperator \/ ColourOperator \/ PatternOperator \/ ConcatOperator \/ TextOperator \/ Save \/ Restore
  \/ \E f \in PageFonts \union OtherFonts : SetFont(f)
  \/ \E w \in Ways, a \in {0, 1} : SetOpacity(w, a)
  \/ PaintOperator \/ PushShape \/ ShowText
  \/ EndPage \/ EndForm \/ EndGlyph \/ EndAnnotation \/ EndTile \/ EndGroup

Spec == Init /\ [][Next]_vars

---------------------------------------------------------------------------
TypeOK ==
  /\ softMask \in Groups \union {None} /\ groupCache \subseteq Groups
  /\ state.mask \in Groups \union {None}
  /\ interrupted \in BOOLEAN /\ annotating \in BOOLEAN
  /\ pages \in 0..MaxPages /\ read \in 0..MaxOps

\* Whatever contents are cut short, unbalanced or nested, what they push on the back
\* end's own stacks and flags is taken away with them: a name is looked up in the
\* resources of the contents that run, progress is reported outside of tiles, glyphs,
\* masks and annotations only, and after a page nothing is left.
ScopesClose ==
  /\ TypeOK
  /\ ToSet(resources) = {i \in DOMAIN frames : frames[i].own}
  /\ \A i, j \in DOMAIN resources : i < j => resources[i] < resources[j]
  /\ masking <=> \E i \in DOMAIN frames : frames[i].kind = "group"
  /\ frames # <<>> =>
       (reporting <=> /\ ~interrupted
                      /\ \A i \in DOMAIN frames : frames[i].kind \in {"page", "form"})

\* Paints and text are drawn with what is in force: the graphics state that replaying
\* the operators whose q or content has not ended gives, the soft mask it names (if the
\* bytes compared tell masks apart), the font chosen last that no Q took back, and the
\* resources of the innermost content that has any.
DrawnAsInForce ==
  frames # <<>> =>
    LET env == InForce(scope)
    IN /\ state = env.state /\ font = env.font /\ Owner = env.owner
       /\ (\A g, h \in Groups : Looks[g] = Looks[h] => g = h) => Attached = env.state.mask
=============================================================================
