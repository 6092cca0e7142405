----------------------------- MODULE PageImages -----------------------------
(***************************************************************************)
(* The image pipeline of LightVGBackend in src/lightvg-backend.cc: the     *)
(* parser puts image XObjects off (defer_or_draw_image) until an operator  *)
(* that paints or the end of the content; flush_deferred_images converts   *)
(* them on worker threads, draws them in order and keeps the converted     *)
(* pixels in the process-wide RenderCache under the number of the object.  *)
(*                                                                         *)
(* Content is a sequence of operators: an image, a paint (any operator     *)
(* that is not safe to defer across), a Form XObject or a fill with a      *)
(* tiling pattern, both with content of their own, or a change of the      *)
(* graphics state.  Pixels are known by the image they show, their scale   *)
(* and whether they are multiplied by their alpha.                         *)
(***************************************************************************)
EXTENDS Naturals, Sequences, SequencesExt

CONSTANTS
  Docs,         \* documents one process renders
  Objects,      \* object numbers of images
  Contents,     \* contents of pages, forms and tiles
  Pages,        \* the contents of the pages
  Tiles,        \* the cells of the patterns
  Masked,       \* images with a soft mask
  Direct,       \* images that image_can_prepare_off_thread refuses
  Short,        \* images whose data prepare_image_pixels finds too short
  Threads,      \* worker threads of a flush
  MaxPages,     \* pages rendered
  None          \* no pixels

Operator ==
  [op : {"image"}, obj : Objects, small : BOOLEAN] \union [op : {"paint"}]
    \union [op : {"state"}, to : Nat] \union [op : {"form"}, content : Contents]
    \union [op : {"fill"}, tile : Tiles, content : Contents]

ASSUME PipelineAssumption ==
  /\ \A c \in Contents : c \in Seq(Operator)
  /\ Pages \subseteq Contents /\ "page" \notin Tiles
  /\ Masked \subseteq Objects /\ Direct \subseteq Objects /\ Short \subseteq Objects
  /\ MaxPages \in Nat
  /\ None \notin [of : Docs \X Objects, premul : BOOLEAN, small : BOOLEAN]

VARIABLES
  doc,          \* current_pdf_
  stack,        \* contents being parsed, the innermost last
  deferred,     \* deferred_images_
  batch,        \* the draws a flush took over
  next,         \* its counter, shared by the threads
  taken,        \* the draw each thread converts, 0 for none
  prepared,     \* the pixels prepared for the draws of the batch
  last,         \* last_image_argb_
  cache,        \* RenderCache: pixels by object number
  tiles,        \* RenderCache: the tiles in it
  interrupted,  \* render_interrupted_
  pages,        \* pages begun
  asked,        \* what the content asked to draw, in order
  drawn,        \* what was drawn, in order
  users,        \* documents that asked for an object since its pixels are cached
  crowded,      \* images with a soft mask prepared among others since then
  torn,         \* tiles whose content ended with images put off
  spilled       \* the page used such a tile

work == <<batch, next, taken, prepared>>
history == <<users, crowded, torn, spilled>>
vars == <<doc, stack, deferred, work, last, cache, tiles, interrupted, pages, asked, drawn,
          history>>

\* A content still to be parsed, the canvas it is drawn on and its graphics state.
Frame(content, canvas, state) == [content |-> content, canvas |-> canvas, state |-> state]
Top == stack[Len(stack)]
Op == Head(Top.content)
Consumed == [stack EXCEPT ![Len(stack)].content = Tail(@)]

Init ==
  /\ doc \in Docs
  /\ stack = <<>> /\ deferred = <<>>
  /\ batch = <<>> /\ next = 1 /\ taken = [t \in Threads |-> 0] /\ prepared = <<>>
  /\ last = None /\ cache = [o \in Objects |-> None] /\ tiles = {}
  /\ interrupted = FALSE /\ pages = 0
  /\ asked = <<>> /\ drawn = <<>>
  /\ users = [o \in Objects |-> {}] /\ crowded = {} /\ torn = {} /\ spilled = FALSE

\* The first report of a page, of 0 percent, may interrupt it already.
RenderPage(d, c) ==
  /\ stack = <<>> /\ pages < MaxPages
  /\ doc' = d
  /\ stack' = <<Frame(c, "page", 0)>>
  /\ interrupted' \in BOOLEAN
  /\ pages' = pages + 1
  /\ asked' = <<>> /\ drawn' = <<>>
  /\ users' = [o \in Objects |-> IF cache[o] = None THEN {} ELSE users[o]]
  /\ crowded' = {o \in crowded : cache[o] # None}
  /\ spilled' = FALSE
  /\ UNCHANGED <<deferred, work, last, cache, tiles, torn>>

\* The shared cache drops an entry; RenderCache.tla says when.
Evict(o) ==
  /\ stack = <<>> /\ cache[o] # None
  /\ cache' = [cache EXCEPT ![o] = None]
  /\ UNCHANGED <<doc, stack, deferred, work, last, tiles, interrupted, pages, asked, drawn,
                 history>>

---------------------------------------------------------------------------
(* Pixels and pictures. *)

Pixels(o, premul, small) == [of |-> <<doc, o>>, premul |-> premul, small |-> small]

\* What is drawn for a draw d: an image, where, and whether the alpha of its pixels
\* is taken for what it is.
Thing(what, canvas, state) == [what |-> what, on |-> canvas, state |-> state]
Picture(d, p, flag, canvas, state) ==
  Thing([image |-> p.of, alpha |-> p.premul = flag], canvas, state)
Asked(source, o) == [image |-> <<source, o>>, alpha |-> TRUE]

\* draw_image: cached pixels are taken for straight, and decoded ones are kept as such.
Source(d) == IF d.hit THEN d.pixels ELSE Pixels(d.obj, FALSE, FALSE)
Drawing(d, canvas) == Picture(d, Source(d), FALSE, canvas, d.state)
Left(d) == IF d.retain /\ ~d.small THEN Source(d) ELSE None

\* prepare_image_pixels, and what submit_prepared_image keeps of its result.
Prepare(d) ==
  IF ~d.hit /\ d.obj \in Short THEN None
  ELSE IF d.hit THEN [d.pixels EXCEPT !.small = d.small]
  ELSE Pixels(d.obj, d.obj \in Masked, d.small)
Submitted(d, p, canvas) == Picture(d, p, p.premul /\ ~d.hit, canvas, d.state)
Kept(d, p) == IF d.retain THEN p ELSE None

\* The cache after a draw that left p.
Storing(d, p) ==
  IF d.retain /\ p # None /\ ~p.small THEN [cache EXCEPT ![d.obj] = p] ELSE cache

---------------------------------------------------------------------------
(* Operators.  Between two of them a callback may interrupt the page, but  *)
(* never in a tile, whose content reports no progress.                     *)
Reads(kind) ==
  /\ stack # <<>> /\ batch = <<>> /\ ~interrupted
  /\ Top.content # <<>> /\ Op.op = kind
Progress == interrupted' \in (IF Top.canvas # "page" THEN {FALSE} ELSE BOOLEAN)

\* Do of an image, from the cache or decoded: put off, or drawn if it cannot be.
Refused(o) == o \in Direct /\ cache[o] = None

DoImage_Overtakes ==                \* mutant: a direct draw does not flush first
  /\ Reads("image")
  /\ LET o == Op.obj
         d == [obj |-> o, hit |-> cache[o] # None, pixels |-> cache[o],
               retain |-> cache[o] = None, small |-> Op.small, state |-> Top.state]
     IN IF Refused(o)
          THEN /\ drawn' = Append(drawn, Drawing(d, Top.canvas))
               /\ last' = Left(d)
               /\ UNCHANGED deferred
          ELSE deferred' = Append(deferred, d) /\ UNCHANGED <<drawn, last>>
  /\ asked' = Append(asked, Thing(Asked(doc, Op.obj), Top.canvas, Top.state))
  /\ stack' = Consumed
  /\ users' = [users EXCEPT ![Op.obj] = @ \union {doc}]
  /\ Progress
  /\ UNCHANGED <<doc, work, cache, tiles, pages, crowded, torn, spilled>>

DoImage ==
  /\ Reads("image")
  /\ LET o == Op.obj
         d == [obj |-> o, hit |-> cache[o] # None, pixels |-> cache[o],
               retain |-> cache[o] = None, small |-> Op.small, state |-> Top.state]
     IN IF Refused(o)
          THEN /\ deferred = <<>>
               /\ drawn' = Append(drawn, Drawing(d, Top.canvas))
               /\ last' = Left(d)
               /\ UNCHANGED deferred
          ELSE deferred' = Append(deferred, d) /\ UNCHANGED <<drawn, last>>
  /\ asked' = Append(asked, Thing(Asked(doc, Op.obj), Top.canvas, Top.state))
  /\ stack' = Consumed
  /\ users' = [users EXCEPT ![Op.obj] = @ \union {doc}]
  /\ Progress
  /\ UNCHANGED <<doc, work, cache, tiles, pages, crowded, torn, spilled>>

SetState ==
  /\ Reads("state")
  /\ stack' = [Consumed EXCEPT ![Len(stack)].state = Op.to]
  /\ UNCHANGED <<doc, deferred, work, last, cache, tiles, interrupted, pages, asked, drawn,
                 history>>

\* An operator that paints at once, after what was put off.
Paint ==
  /\ Reads("paint") /\ deferred = <<>>
  /\ asked' = Append(asked, Thing(Asked("paint", 0), Top.canvas, Top.state))
  /\ drawn' = Append(drawn, Thing(Asked("paint", 0), Top.canvas, Top.state))
  /\ stack' = Consumed
  /\ Progress
  /\ UNCHANGED <<doc, deferred, work, last, cache, tiles, pages, history>>

\* Do of a form: its content on the same canvas, starting from the same state.
DoForm ==
  /\ Reads("form") /\ deferred = <<>>
  /\ stack' = Append(Consumed, Frame(Op.content, Top.canvas, Top.state))
  /\ UNCHANGED <<doc, deferred, work, last, cache, tiles, interrupted, pages, asked, drawn,
                 history>>

\* A fill with a pattern renders the tile on a canvas of its own unless it is
\* cached, and then paints with it: "tiled" is the half of a fill that is left.
RenderTile ==
  /\ Reads("fill") /\ deferred = <<>> /\ <<doc, Op.tile>> \notin tiles
  /\ stack' = Append([stack EXCEPT ![Len(stack)].content[1].op = "tiled"],
                     Frame(Op.content, Op.tile, 0))
  /\ UNCHANGED <<doc, deferred, work, last, cache, tiles, interrupted, pages, asked, drawn,
                 history>>

Fill ==
  /\ \/ Reads("tiled")
     \/ Reads("fill") /\ deferred = <<>> /\ <<doc, Op.tile>> \in tiles
  /\ asked' = Append(asked, Thing(Asked(Op.tile, 0), Top.canvas, Top.state))
  /\ drawn' = Append(drawn, Thing(Asked(Op.tile, 0), Top.canvas, Top.state))
  /\ stack' = Consumed
  /\ spilled' = (spilled \/ <<doc, Op.tile>> \in torn)
  /\ Progress
  /\ UNCHANGED <<doc, deferred, work, last, cache, tiles, pages, users, crowded, torn>>

\* parse_pdf_content returns: the outermost one with nothing left to draw, a tile
\* with its pixels put into the cache.  Images a tile put off last are still to be
\* drawn, and by then on the canvas beneath.
EndTile ==
  IF Len(stack) > 1 /\ stack[Len(stack) - 1].content # <<>>
       /\ stack[Len(stack) - 1].content[1].op = "tiled"
    THEN /\ tiles' = tiles \union {<<doc, Top.canvas>>}
         /\ torn' = IF deferred # <<>> THEN torn \union {<<doc, Top.canvas>>} ELSE torn
         /\ spilled' = (spilled \/ deferred # <<>>)
    ELSE UNCHANGED <<tiles, torn, spilled>>

EndContent ==
  /\ stack # <<>> /\ batch = <<>>
  /\ Top.content = <<>> \/ interrupted
  /\ IF Len(stack) = 1
       THEN (interrupted \/ deferred = <<>>) /\ deferred' = <<>>
       ELSE UNCHANGED deferred
  /\ stack' = Front(stack)
  /\ EndTile
  /\ UNCHANGED <<doc, work, last, cache, interrupted, pages, asked, drawn, users, crowded>>

---------------------------------------------------------------------------
(* flush_deferred_images. *)

\* Before an operator that paints, and at the end of the outermost content.
FlushDue ==
  IF Top.content = <<>> THEN Len(stack) = 1
  ELSE \/ Op.op \in {"paint", "form", "fill"}
       \/ Op.op = "image" /\ Refused(Op.obj)

\* Images whose pixels a flush will cache multiplied by their alpha.
Heavy(d) == d.obj \in Masked /\ d.retain /\ ~d.small
HeavyObjects(draws) == {draws[i].obj : i \in {j \in DOMAIN draws : Heavy(draws[j])}}

Flush ==
  /\ stack # <<>> /\ batch = <<>> /\ deferred # <<>>
  /\ ~interrupted /\ FlushDue
  /\ batch' = deferred /\ deferred' = <<>>
  /\ next' = 1
  /\ prepared' = IF Len(deferred) = 1 THEN <<>> ELSE [i \in DOMAIN deferred |-> None]
  /\ crowded' = IF Len(deferred) = 1 THEN crowded ELSE crowded \union HeavyObjects(deferred)
  /\ UNCHANGED <<doc, stack, taken, last, cache, tiles, interrupted, pages, asked, drawn,
                 users, torn, spilled>>

\* Every draw clears last_image_argb_ before it leaves anything there.
Leaves_Stale(p) ==                  \* mutant: it does not
  IF p = None THEN last ELSE p

Leaves(p) == p

\* A single image is drawn by draw_image, which the parser would have called.
DrawSingle ==
  /\ batch # <<>> /\ prepared = <<>>
  /\ LET d == batch[1] IN
       /\ drawn' = Append(drawn, Drawing(d, Top.canvas))
       /\ cache' = Storing(d, Leaves(Left(d)))
       /\ last' = IF d.retain THEN None ELSE Leaves(Left(d))
  /\ batch' = <<>>
  /\ UNCHANGED <<doc, stack, deferred, next, taken, prepared, tiles, interrupted, pages, asked,
                 history>>

\* Two or more are converted by threads that share a counter.
Fetch_ShortOne(t) ==                \* mutant: the last draw is never fetched
  /\ prepared # <<>> /\ taken[t] = 0 /\ next < Len(batch)
  /\ taken' = [taken EXCEPT ![t] = next] /\ next' = next + 1
  /\ UNCHANGED <<doc, stack, deferred, batch, prepared, last, cache, tiles, interrupted,
                 pages, asked, drawn, history>>

Fetch(t) ==
  /\ prepared # <<>> /\ taken[t] = 0 /\ next <= Len(batch)
  /\ taken' = [taken EXCEPT ![t] = next] /\ next' = next + 1
  /\ UNCHANGED <<doc, stack, deferred, batch, prepared, last, cache, tiles, interrupted,
                 pages, asked, drawn, history>>

Convert(t) ==
  /\ taken[t] # 0
  /\ prepared' = [prepared EXCEPT ![taken[t]] = Prepare(batch[taken[t]])]
  /\ taken' = [taken EXCEPT ![t] = 0]
  /\ UNCHANGED <<doc, stack, deferred, batch, next, last, cache, tiles, interrupted, pages,
                 asked, drawn, history>>

\* When all have joined, they are drawn in order; draw_image draws what could not
\* be prepared, and stores nothing.
Submit ==
  /\ prepared # <<>> /\ next > Len(batch) /\ \A t \in Threads : taken[t] = 0
  /\ LET d == batch[1]
         p == prepared[1]
     IN IF p # None
          THEN /\ drawn' = Append(drawn, Submitted(d, p, Top.canvas))
               /\ cache' = Storing(d, Leaves(Kept(d, p)))
               /\ last' = IF d.retain THEN None ELSE Leaves(Kept(d, p))
          ELSE /\ drawn' = Append(drawn, Drawing(d, Top.canvas))
               /\ last' = Leaves(Left(d))
               /\ UNCHANGED cache
  /\ batch' = Tail(batch) /\ prepared' = Tail(prepared)
  /\ UNCHANGED <<doc, stack, deferred, next, taken, tiles, interrupted, pages, asked, history>>

---------------------------------------------------------------------------
Main == DoImage \/ SetState \/ Paint \/ DoForm \/ RenderTile \/ Fill \/ EndContent
          \/ Flush \/ DrawSingle \/ Submit
Thread(t) == Fetch(t) \/ Convert(t)

Next ==
  \/ \E d \in Docs, c \in Pages : RenderPage(d, c)
  \/ \E o \in Objects : Evict(o)
  \/ Main
  \/ \E t \in Threads : Thread(t)

\* The parser and the threads of a flush run; nobody has to ask for a page.
Spec == Init /\ [][Next]_vars /\ WF_vars(Main) /\ \A t \in Threads : WF_vars(Thread(t))

---------------------------------------------------------------------------
Pixel == [of : Docs \X Objects, premul : BOOLEAN, small : BOOLEAN]
Draw == [obj : Objects, hit : BOOLEAN, pixels : Pixel \union {None}, retain : BOOLEAN,
         small : BOOLEAN, state : Nat]

TypeOK ==
  /\ doc \in Docs
  /\ deferred \in Seq(Draw) /\ batch \in Seq(Draw)
  /\ next \in Nat \ {0} /\ taken \in [Threads -> 0..Len(batch)]
  /\ prepared \in Seq(Pixel \union {None}) /\ Len(prepared) \in {0, Len(batch)}
  /\ last \in Pixel \union {None} /\ cache \in [Objects -> Pixel \union {None}]
  /\ interrupted \in BOOLEAN /\ pages \in 0..MaxPages

Idle == stack = <<>>

\* r is drawn for what was asked for in a: on its canvas, with its graphics state and
\* the image of its object.  The pixels may be those another document has under the
\* object's number, if one asked for it, and may be multiplied by their alpha twice,
\* if they were once prepared among others.
ShownImage(r, a, o) ==
  /\ a = Thing(Asked(doc, o), a.on, a.state)
  /\ r.on = a.on /\ r.state = a.state /\ r.what.image[2] = o
  /\ users[o] \subseteq {doc} => r.what.image[1] = doc
  /\ o \notin crowded => r.what.alpha
Shown(r, a) == r = a \/ \E o \in Objects : ShownImage(r, a, o)

\* Whatever is put off, converted on another thread or drawn at once, a page shows
\* what its content asked for, in that order, each with the graphics state and on
\* the canvas it was asked for, and with its own pixels, as far as Shown says.  This
\* ends where the page uses a tile that was left before all of its images were drawn.
DrawnAsAsked ==
  /\ Len(drawn) <= Len(asked)
  /\ spilled \/ \A i \in 1..Len(drawn) : Shown(drawn[i], asked[i])

\* A page that nobody interrupted shows all of it.
AllDrawn == Idle /\ ~interrupted => Len(drawn) = Len(asked)

\* No image of a page is left for the next one to draw, also of an interrupted page.
NothingCarriesOver == Idle => deferred = <<>> /\ batch = <<>>

\* The pixels stored under the number of an object are of that object and of its
\* full size, whichever draw left them in last_image_argb_.
KeysOwnPixels ==
  \A o \in Objects : cache[o] # None => cache[o].of[2] = o /\ ~cache[o].small

\* A page shows the images its content asked for, all of them and in order.
ShowsWhatWasAsked == DrawnAsAsked /\ AllDrawn

\* Nothing is left behind for another page but cached pixels, and those are the object's.
NothingLeaks == TypeOK /\ NothingCarriesOver /\ KeysOwnPixels

\* A page that was begun ends.
PagesEnd == ~Idle ~> Idle
============================================================================
