------------------------------ MODULE WasmView ------------------------------
(***************************************************************************)
(* The viewer of the WebAssembly module, src/wasm-api.cc: the document     *)
(* that is open, the back end and the page that are kept from one call to  *)
(* the next, and the buffer that the page of the browser reads.  Calls     *)
(* come one after the other, in any order.                                 *)
(*                                                                         *)
(* A picture is what was drawn: the page of a document, by which back end, *)
(* at which resolution, and the document the back end had drawn for        *)
(* before, whose fonts and images it keeps.  The width and the height of a *)
(* call are but keys of what is kept: a back end makes the canvas that the *)
(* page needs at the resolution.  The fonts that a program registers are   *)
(* in FontCaches.                                                          *)
(***************************************************************************)
EXTENDS Naturals

CONSTANTS
  Viewed,       \* documents
  PageCount,    \* pages of each
  Places,       \* addresses of a Pdf
  Kinds,        \* back ends that can be chosen
  PageAsked,    \* numbers of pages a call may name
  Sizes,        \* widths and heights it may name, 0 when one is not positive
  Dpis,         \* and resolutions
  Large         \* those of which a picture has more than kMaxCachedRenderPageBytes

ASSUME PlacesAssumption == 0 \notin Places
ASSUME ViewAssumption ==
  /\ PageCount \in [Viewed -> Nat] /\ Sizes \subseteq Nat
  /\ Dpis \subseteq Nat /\ Large \subseteq Dpis

VARIABLES
  gPdf,         \* g_pdf: where it is and the document it holds
  gBackend,     \* g_render_backend
  gEngine,      \* g_cached_render_backend, what it was made for
  gPage,        \* g_cached_render_page
  gBuffer,      \* g_render_buffer
  gInterrupted, \* g_last_render_interrupted
  answer,       \* of the last call that renders: 0, 1 or 2
  given         \* a history: what the last call that said 1 had asked for

viewVars == <<gPdf, gBackend, gEngine, gPage, gBuffer, gInterrupted, answer, given>>

NoPdf == [at |-> 0]
NoEngine == [at |-> 0]
NoPage == [at |-> 0]
NoPicture == [page |-> 0]
Silent == 3

\* A resolution that is not positive stands for 72.
Resolution(dpi) == IF dpi > 0 THEN dpi ELSE 72

Picture(doc, p, dpi, drew) ==
  [doc |-> doc, page |-> p, backend |-> gBackend, dpi |-> Resolution(dpi), drew |-> drew]

ViewInit ==
  /\ gPdf = NoPdf /\ gBackend \in Kinds
  /\ gEngine = NoEngine /\ gPage = NoPage /\ gBuffer = NoPicture
  /\ gInterrupted = FALSE /\ answer = Silent /\ given = NoPicture

---------------------------------------------------------------------------
\* nanopdf_load_pdf: the document that was open is deleted first, and the new one
\* may lie where it did.  A file that is damaged leaves none.
LoadPdf_Keeps(d, at, sound) ==      \* mutant: the kept page and back end are not reset
  /\ gPdf' = IF sound THEN [at |-> at, doc |-> d] ELSE NoPdf
  /\ UNCHANGED <<gEngine, gPage, gBackend, gBuffer, gInterrupted, answer, given>>

LoadPdf(d, at, sound) ==
  /\ gPdf' = IF sound THEN [at |-> at, doc |-> d] ELSE NoPdf
  /\ gEngine' = NoEngine /\ gPage' = NoPage
  /\ UNCHANGED <<gBackend, gBuffer, gInterrupted, answer, given>>

\* nanopdf_set_render_backend
SetRenderBackend(k) ==
  /\ k # gBackend /\ gBackend' = k
  /\ gEngine' = NoEngine /\ gPage' = NoPage
  /\ UNCHANGED <<gPdf, gBuffer, gInterrupted, answer, given>>

\* nanopdf_release_render_buffer
ReleaseBuffer ==
  /\ gBuffer' = NoPicture /\ answer' = Silent
  /\ UNCHANGED <<gPdf, gBackend, gEngine, gPage, gInterrupted, given>>

---------------------------------------------------------------------------
(* render_page_with_selected_backend, and the calls that come to it. *)

\* A call with arguments it cannot serve returns before it: what the buffer held stays.
Refused ==
  answer' = 0 /\ UNCHANGED <<gPdf, gBackend, gEngine, gPage, gBuffer, gInterrupted, given>>

\* It begins without a picture; one that fails or is cut short leaves none.
Fails ==
  answer' = 0 /\ gBuffer' = NoPicture /\ gInterrupted' = FALSE /\ UNCHANGED given
CutShort ==
  answer' = 2 /\ gBuffer' = NoPicture /\ gInterrupted' = TRUE /\ UNCHANGED given
Succeeds(picture, asked) ==
  answer' = 1 /\ gBuffer' = picture /\ gInterrupted' = FALSE /\ given' = asked

\* The kept page is the one that is asked for.
Hit_Dpi(p, s, dpi) ==               \* mutant: whatever its resolution
  /\ gPage # NoPage /\ gPage.at = gPdf.at /\ gPage.page = p
  /\ gPage.backend = gBackend /\ gPage.size = s

Hit(p, s, dpi) ==
  /\ gPage # NoPage /\ gPage.at = gPdf.at /\ gPage.page = p
  /\ gPage.backend = gBackend /\ gPage.size = s /\ gPage.dpi = Resolution(dpi)

\* The kept back end, at any resolution, or one that is made for this document and size.
Matches(s) ==
  /\ gEngine # NoEngine /\ gEngine.at = gPdf.at
  /\ gEngine.backend = gBackend /\ gEngine.size = s

EngineFor(s) ==
  IF Matches(s) THEN gEngine
  ELSE [at |-> gPdf.at, doc |-> gPdf.doc, backend |-> gBackend, size |-> s]

Keep(p, s, dpi, picture) ==
  IF Resolution(dpi) \in Large THEN NoPage
  ELSE [at |-> gPdf.at, page |-> p, backend |-> gBackend, size |-> s,
        dpi |-> Resolution(dpi), picture |-> picture]

\* nanopdf_render_page, and nanopdf_render_page_budget with a budget.
RenderPage(p, s, dpi, budget) ==
  LET asked == Picture(gPdf.doc, p, dpi, gPdf.doc)
      picture == Picture(gPdf.doc, p, dpi, EngineFor(s).doc)
      served == gPdf # NoPdf /\ p \in 1..PageCount[gPdf.doc] /\ s > 0
  IN \/ ~served /\ Refused
     \/ /\ served /\ UNCHANGED <<gPdf, gBackend>>
        /\ \/ /\ Hit(p, s, dpi)
              /\ Succeeds(gPage.picture, asked) /\ UNCHANGED <<gEngine, gPage>>
           \/ /\ ~Hit(p, s, dpi) /\ ~Matches(s)
              /\ Fails /\ gEngine' = NoEngine /\ UNCHANGED gPage
           \/ /\ ~Hit(p, s, dpi) /\ gEngine' = EngineFor(s)
              /\ \/ (Fails \/ (budget /\ CutShort)) /\ UNCHANGED gPage
                 \/ Succeeds(picture, asked) /\ gPage' = Keep(p, s, dpi, picture)

\* A Pdf of its own, drawn by a back end of its own; nothing of it is kept.
RenderElsewhere(doc, p, dpi) ==
  LET asked == Picture(doc, p, dpi, doc)
  IN /\ Fails \/ Succeeds(asked, asked)
     /\ UNCHANGED <<gPdf, gBackend, gEngine, gPage>>

\* nanopdf_render_revision_page: the first bytes of the document, parsed again.  The
\* length may be wrong, the bytes unreadable and the page not yet there.
RenderRevisionPage(p, s, dpi) ==
  \/ Refused
  \/ gPdf # NoPdf /\ s > 0 /\ RenderElsewhere(<<gPdf.doc, "revision">>, p, dpi)

\* nanopdf_doc_render_page: a document that nanopdf_doc_load opened, if it is open still.
DocRenderPage(d, p, s, dpi) ==
  \/ Refused
  \/ p \in 1..PageCount[d] /\ s > 0 /\ RenderElsewhere(d, p, dpi)

ViewNext ==
  \/ \E d \in Viewed, at \in Places, sound \in BOOLEAN : LoadPdf(d, at, sound)
  \/ \E k \in Kinds : SetRenderBackend(k)
  \/ ReleaseBuffer
  \/ \E p \in PageAsked, s \in Sizes, dpi \in Dpis :
       \/ \E budget \in BOOLEAN : RenderPage(p, s, dpi, budget)
       \/ RenderRevisionPage(p, s, dpi)
       \/ \E d \in Viewed : DocRenderPage(d, p, s, dpi)

\* The part of nanopdf_shutdown that is the viewer's.
ViewShutdown ==
  /\ gPdf' = NoPdf /\ gEngine' = NoEngine /\ gPage' = NoPage /\ gBuffer' = NoPicture
  /\ answer' = Silent
  /\ UNCHANGED <<gBackend, gInterrupted, given>>

---------------------------------------------------------------------------
\* An engine and a page are kept only with their keys; no picture too large is kept.
ViewTypeOK ==
  /\ gPdf = NoPdf \/ gPdf \in [at : Places, doc : Viewed]
  /\ gBackend \in Kinds /\ gInterrupted \in BOOLEAN /\ answer \in 0..3
  /\ gEngine # NoEngine => gEngine.at \in Places /\ gEngine.size \in Sizes
  /\ gPage # NoPage => gPage.at \in Places /\ gPage.size \in Sizes /\ gPage.dpi \notin Large

\* A call that says 1 has left the page, document, back end and resolution that it was
\* asked for in the buffer, drawn by a back end that has drawn no other document, through
\* any number of documents that were opened in the same place, of back ends and of sizes.
\* A call that fails leaves that of the last call that said 1, or none; one that the
\* budget cuts short leaves none and is the one that says so.
ShownIsAsked ==
  /\ answer = 1 => gBuffer = given /\ ~gInterrupted
  /\ answer = 2 => gBuffer = NoPicture /\ gInterrupted
  /\ gBuffer \in {NoPicture, given}

\* What is kept is of the document that is open: no pointer outlives it.
KeptIsOpen ==
  /\ gEngine # NoEngine => gPdf # NoPdf /\ gEngine.at = gPdf.at /\ gEngine.doc = gPdf.doc
  /\ gPage # NoPage => gPdf # NoPdf /\ gPage.at = gPdf.at /\ gPage.picture.doc = gPdf.doc
=============================================================================
