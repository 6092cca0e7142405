# Formal models of nanopdf

nanopdf reads, repairs, renders, signs and writes PDF files. These TLA+ modules
model the parts of it whose correctness depends on order, sharing and state
that outlives a call. TLC checks them on small instances; TLAPS proves the
properties listed under *Proofs* for every value of the constants.

Paths are relative to the repository; `nanopdf.cc` stands for
`src/nanopdf.cc`, and likewise for the other files in `src/`.

## 1. The system

A program opens a file with `parse_pdf`, which gives it a `Pdf`: the bytes, an
index of the objects in them, caches, and the document structure (catalog,
pages) that was read through the index. Everything else asks the `Pdf` for
objects and decoded streams. A back end renders one page at a time; the LightVG
back end is the default one and the only one that starts threads. Caches that
belong to the process (`RenderCache`, `SharedFontCache`) outlive documents. A
`PdfWriter` makes new files and appends updates and signatures to old ones.

| component | state it keeps | operations | what is hard about it |
|---|---|---|---|
| Cross-reference index (`build_object_offset_cache`) | `object_offsets`, `object_stream_entries`, trailer fields | walk of the sections, merge of trailers, scan of the bytes | sections of several ages, read in the order of a queue; links that form cycles; damage |
| Object store (`load_object`, `load_object_from_stream`) | `object_cache`, `object_stream_cache` and its order, the two flags of the index | lookup, claim of the build, search, decode, insert | several threads; the lock is held for single accesses only |
| Decoded stream cache (`decode_stream`) | `decoded_stream_cache` and its order | lookup, decode, insert, evict | check, unlock, decode, lock, insert; keys that hash the size of an image |
| Page tree and lazy parts (`load_document_structure`, `ensure_*_loaded`) | pages, catalog, flags | load once | flags without a lock |
| Parser and repair (`parse_pdf`, `repair_xref`) | the `Pdf` | parse, rewrite, parse again | failure of one stage after another has changed the state |
| Render cache (`RenderCache`) | a list, a map of iterators into it, a byte count | find, store, erase, resize, clear | three structures that must agree; eviction |
| LightVG page (`render_page`) | canvas and scene, graphics state, progress, deferred images, predecoded images | parse content, draw, report, flush | callbacks that stop a page; worker threads; nested contents |
| Content interpreter (`parse_pdf_content`) | graphics state, font, resources and soft mask of the back end, stacks of each run | operators, nested contents | contents inside one another share the state and may be unbalanced or cut short |
| Shared font and ICC caches | maps | find, store | find and store are two critical sections; keyed by address |
| Writer (`PdfWriter`) | objects, offsets, the loaded original | write, write_incremental, sign | the appended section must agree with the bytes |
| Revision history, forms, attachments | derived from the index | compare, edit | rest on what the index calls newest |
| WebAssembly API (`wasm-api.cc`) | one set of globals: the open document, a kept page and back end, documents and pages of a new file, a form session, a signing session | calls from a page, in any order | pointers kept over a load, numbers of pages that move, two calls around an answer of a server |
| Security, signatures, codecs, fonts, text | little beyond a call | pure functions on bytes | arithmetic, not order |
| MCP server | one global document | requests | the order of requests |
| C port (`src/c`) | arena and object table | as the C++ reader | a second implementation |

How they interact: the store claims and runs the build of the index and falls
back to a scan when it has none; `load_object_from_stream` calls `load_object`
for the stream and `decode_stream` for its bytes; a back end calls both from
its worker threads, puts converted images and tiles into the render cache and
calls back into the user's code to report progress. What the writer appends,
the index of the next session reads; the WebAssembly API drives reader, back
ends and writer from the globals of one process.

## 2. Modules

| module | models | composed with |
|---|---|---|
| `XrefIndex` | the build of the index | |
| `ObjectStore` | `load_object` on several threads | EXTENDS `XrefIndex`: the thread that claims the build runs it |
| `RenderCache` | `render-cache.cc` | refines `ForgetfulMap` |
| `StreamCache` | `decode_stream` on several threads | refines `CallService` |
| `ForgetfulMap`, `CallService` | what a cache and a function promise to those who share them | |
| `RenderProgress` | progress and cancellation of a page | |
| `PageImages` | images of a page: deferral, threads, caching | keeps the part of `RenderCache` it needs: a map that may lose entries |
| `PdfContent` | the operators of a page and the contents inside it | leaves images to `PageImages` |
| `FontCaches` | fonts of the back ends, `SharedFontCache`, `FontProvider` | |
| `PdfUpdates` | incremental updates, signatures and the check of revisions | writer and reader over the same files |
| `WasmView`, `WasmWork`, `WasmSign` | viewer, editor and signing of `wasm-api.cc` | |
| `WasmApi` | the three over one process | EXTENDS them; `Shutdown` changes two at once |
| `ObjectStoreProofs`, `RenderCacheProofs`, `StreamCacheProofs`, `PageProofs`, `FontCachesProofs`, `PdfContentProofs`, `PdfUpdatesProofs`, `WasmApiProofs` | theorems | EXTEND the modules they are about: that of the store also proves the index, `PageProofs` both `RenderProgress` and `PageImages` |
| `MC...` | files, pages and constants for TLC | EXTEND the module they check |

`PROJECT.json` maps every definition to the lines it stands for. Mutants -
operators whose name has a suffix, such as `Keep_Overwrites` - are not part of
a specification; each stands for a plausible slip in the operator of the same
stem, and breaks one property when it is put in its place.

### XrefIndex

A file is a set of sections at offsets `1..n`, in file order; a section says
for each object whether it is plain (`"n"`), compressed (`"c"`), free or
absent, and whether an entry leads to the object (`"wrong"` leads to another
object's body, `"lost"` nowhere). A section also has links (`prev`, `xrefstm`),
and the trailer fields the walk merges. `Claim` is the flag protocol of
`load_object` and `load_document_structure`; `Begin` the initialisation;
`Visit` one turn of the loop over the worklist, with the entries, the trailer
and the links of the section; `Finish` the fallback scan and the publication.
The body that revision *s* wrote is identified by *s*, so "which body is
indexed" is a number that can be compared with "which is newest". The build
alone is `IndexSpec`, so that `ObjectStore` can extend the module and have a
`Spec` of its own.

### ObjectStore

Every action is one critical section of `load_object` or
`load_object_from_stream`, or the work between two of them: `Lookup`,
`ClaimBuild`, `BuildRuns`/`BuildDone`, `Find`, `FindEntry`, `StreamHit`,
`StreamMiss`, `InsertStream`, `Store`. The recursion through the object stream
is one level deep (object streams are not compressed, an assumption), which
`nested` records. `raced` is a history variable: a call was made before the
index was built.

### RenderCache

List, map and byte count of the cache. The list is a sequence of nodes with an
identity, and the map refers to identities, as the code's map refers to list
iterators; that is what lets `IteratorsLive` say that none of them dangles.

### StreamCache

Both overloads of `decode_stream`; the one without dimensions passes `NoDims`,
and `keep` is false for `cache_result = false` and for object number zero, which
neither look nor insert. `Hit` and `Miss` are the critical section of the
lookup, `DecodeAtOnce`, `DecodeGlobals` and `Filter` the work without the lock,
`Insert` the second critical section. `nested` says that a thread is in the
decode of the globals of its image, one level deep (the globals of an image
have none of their own, an assumption). `Key` computes the sixteen bits of the
dimensions as the code does. Decoded bytes are identified by what the filters
were given: stream, `Rows` and `Columns` after the repair for fax images, and
globals. `used` (the keys by recency) and `doubled` (a key was queued twice)
are history variables.

### RenderProgress

`Begin` is `render_page` up to the first report, `DrawObject` one operator that
advances, `Report` one turn of the loop in `advance_progress` - the callback's
answer is a choice - `ContentEnds` the one place where `render_page` looks at
`render_interrupted_`, `DrawAnnotation` one annotation, `PageEnds` the rest.
The objects counted in advance (`total_objects`) and the objects drawn are
independent numbers, as the count is a scan that knows nothing of failures.
`halted` is `render_interrupted_`, `reported` the last percentage; the
specification is `ProgressSpec`, as `PageProofs` has both modules of a page.

### PageImages

Content is a sequence of operators: an image, an operator that paints, a form,
a fill with a tiling pattern, a change of the graphics state. `Contents` are
those of pages, forms and tiles, `Pages` the ones a page may have. `stack` is the
recursion of `parse_pdf_content`; `DoImage` defers an image or draws it at
once, `Flush` to `Submit` are `flush_deferred_images` with its worker threads,
`EndContent` the end of a `parse_pdf_content`. `asked` and `drawn` are history
variables: what the content asked for and what reached a scene, each with its
canvas and graphics state. The keys of cached pixels have no document in them,
those of tiles do. Four more histories say when what is drawn may differ from
what was asked for: `users` (the documents that asked for a number since its
pixels are cached), `crowded` (images with a soft mask that were prepared among
others since then), `torn` (tiles whose content ended with images put off) and
`spilled` (the page used such a tile).

### PdfContent

An action is one operator, or the part of one before and after a content that
runs inside it; which operator comes next is a choice, as contents may hold
any. `frames` is the recursion of `parse_pdf_content`, each frame with the
stacks of its own for `q` and `Q` and what the caller keeps to restore;
`state`, `font`, `resources`, `softMask` and the flags are members of the back
end. `Entered` begins a page, a Form XObject (`DoForm`), a tile (`RenderTile`),
a Type 3 glyph (`ShowGlyph`), the group of a soft mask (`SetSoftMask`) or the
appearance of an annotation; `EndPage` to `EndGroup` are what each of these
does after `parse_pdf_content` returned, at its end or because a callback
stopped the page. `scope` is a history variable: the operators whose `q` or
content is still open. `InForce` replays them from a new page, and that is what
the real state, which was saved, changed and restored many times, is compared
with. That a font stays when its content ends is in the replay as well
(`"font stays"`, section 4).

### FontCaches

`UseFont`, `Search` and the steps between are the critical sections of
`load_font` and `load_fallback_font_with_hint`; `Open` and `Close` are the
program, which may place a document where another one lay. The back ends are of
three kinds, as they differ in what they key a font by (`Key`), in the name that
category, weight and slant are read from (`Hint`) and how (`Reads`), in whether
the flags of the font's descriptor correct that (`Category`), in the match among
the registered fonts (`Best`), in the fonts compiled in (`Embedded`) and in their
lists of files (`OnDisk`). `Probe` tries these in the order of the code: the best
registered font, which is drawn if its data can be used; a font compiled in,
also drawn and not remembered; the files, of which what was found, or that
nothing was, is kept in the shared cache. `provided` is the sequence of
registered fonts, since one that comes later can be the better match. A face is
the program a font has embedded, a registered or compiled-in font or a file, so
that "which face was drawn" can be compared with the font that was asked for.
`first` is a history variable: how many fonts were registered when a key was
first searched for.

### PdfUpdates

A file is a sequence of parts: the document as it was made and its updates,
each with the objects it wrote in the order of their offsets, its kind of
section, `/Size`, `/Prev` and where it ends. `WellMade` says what a document as
made is: it has a catalog and a page, numbers below its `/Size`, none of them
twice. `LoadExisting` is `load_existing`
with `find_startxref` and its window of 1024 bytes; `SetField`, `AddAnnot`,
`DeleteAnnot` and `AddSignatureField` record edits; `WriteIncremental` appends
what `NewObjects` lists in the order of the code; `ApplySignature` fills a hole;
`Save` is the caller. `Resolve`, `Signatures` and `Allowed` are the reader:
the index over the chain of `/Prev`, the signatures of the form and
`analyze_docmdp_revision`. `meant` is a history variable: what the document
should show after all that was asked for.

### WasmView, WasmWork, WasmSign, WasmApi

One action per exported function that changes a global. `WasmView` has the
document that is open, the back end and page that are kept, and the buffer; an
address may be used again by the next document, which is what the kept pointers
are matched by. Calls that render come in the two ways in which they fail: a
call with arguments it cannot serve is `Refused` before
`render_page_with_selected_backend` and leaves the buffer as it was, one that
got there `Fails` without a picture. The kept page is matched with its
resolution, the kept back end without. `answer` is the last one's result and
`given` a history variable: what the last call that succeeded was asked for.
`WasmWork` has documents, pages, annotations, stamps, exports
and form sessions; pages carry a number of their own (`meant`, a history
variable), so that what is drawn on a page can be followed while its index
changes. The writer of a form session keeps its updates in the order they were
made, a field as often as it was set; `ReadBack` is what a reader of the saved
file finds, the first of them, and `form`, a history variable, what each field
was told first. `WasmSign` has `doSign` of the example page
(`examples/wasm/src/main.js`) as well, as it is the caller that splits a
signature into `sign_prepare` and `sign_finalize` around an answer of the
timestamp server.

## 3. Runs

| run | shows | result |
|---|---|---|
| `xref_walk` | every walk ends, visits each section that a visited one names, keeps the newest plain body and the newest root; a useless table is scanned; the flags say what was found | holds |
| `xref_revert` | "never let an older /Prev section overwrite it" (`nanopdf.cc:5849`) | violated |
| `object_store` | one build, calls return, answers and caches as those of a lone caller, stream cache bounded | holds |
| `render_cache` | list, map and bytes agree; eviction is least-recent first and no more than needed; a map that may forget | holds |
| `stream_cache` | a decode gives what it would alone, as one step; the cache is bounded and loses what was used least recently, unless a key was queued twice | holds |
| `render_progress` | percentages grow from 0 and end at 100; content cut short is reported; pages return | holds |
| `page_images` | images appear in order, all of them, with their own state and canvas, and their own pixels as far as documents do not share numbers, soft masks are not prepared among others and no tile ends with an image | holds |
| `page_content` | everything is painted with the state, mask, font and resources in force; nothing a content pushes outlives it | holds |
| `font_caches` | embedded fonts are the document's own; a substitute is the choice of a back end that searches for its key, a font registered in time is used, and back ends that judge a key alike agree | holds |
| `pdf_updates` | what was set is read back, revisions link, numbers keep their kind, signatures hold, a certification is judged rightly | holds |
| `update_lost` | the same of short updates: "Search from end of file for 'startxref'" (`pdf-writer.cc:660`) | violated |
| `wasm_api` | what is shown was asked for, also after calls that were refused or failed; nothing kept is freed, annotations follow their pages, exports show what was meant, a saved form reads back what each field was told first, a signed file is that of its flow | holds |

### What the violated runs show

*`xref_revert`.* Sections are walked newest first. `object_offsets` is filled
with `emplace`, so the newest plain body stays; `object_stream_entries` is
filled by assignment, so the oldest compressed one does (`nanopdf.cc:6201`).
`MCXrefRevert` has two more families of undamaged files that violate the same
property: `MixedFiles`, in which an update moves an object into an object
stream and `load_object` still looks into `object_offsets` first, and
`HybridFiles`, in which `/Prev` is queued before `/XRefStm`. `NewestBodyWins`
is what does hold, and is proved: plain bodies, no hybrid section, updates
appended.

*`update_lost`.* `find_startxref` takes the first `startxref` of the last 1024
bytes. When the last update is shorter than that it finds the one before, and
the next update's `/Prev` leads past the last one, whose objects are then never
read. `EditsReadBack` is what holds: updates that are longer, as those with a
signature are.

### Bounds

- `xref_walk`: two objects, three sections. Three sections are the least that
  tell first, middle and last apart in a chain, allow a cycle that does not
  come back to its start, and a hybrid link next to a chain; objects do not
  interact in the walk except through "is there any entry", for which two
  suffice. Files come in three families: appended updates with every
  combination of plain and compressed entries; damage anywhere with any links;
  tables with any `/Prev` and `/XRefStm`.
- `object_store`: two threads, two objects and two object streams in five
  documents, each with a role (an update, two streams that compete for a
  capacity of two or none, a stream that cannot be decoded, a stream rewritten
  without the object, a file without a usable table). Object 2 may be asked
  for before the build is over. No critical section involves more than two
  threads.
- `render_cache`: three keys of different sizes against capacities that hold
  one, two or none of them.
- `stream_cache`: two threads, seven kinds of request over streams with and
  without globals, dimensions, a filter or an undamaged body, for a cache of
  two entries or none: room for a key queued twice and for one to be evicted
  wrongly. The proof covers larger caches.
- `render_progress`: up to three objects, two annotations, weights 1 and 2,
  steps that divide 100, leave a remainder, exceed it, and zero.
- `page_images`: three pages of two documents that use the same numbers, so that
  a page meets the cache of another one, its own or the other document's, and
  a third one what the two left; runs of one to four images, two worker
  threads, contents that reach every operator, both sizes, the direct path and
  the fallback. One tile ends with an operator that paints and one with an
  image, and an image with a soft mask is put off alone and among others: each
  of the conditions in `Shown` and `DrawnAsAsked` is one without which TLC finds
  the property violated.
- `page_content`: two pages, five operators, and eight repertoires of kinds of
  operators that are used together. A defect of the kind looked for is a
  member that one kind of content changes and does not put back: it takes the
  content, one operator in it and one after it, and two of nesting for a stack
  that is popped by the wrong one. Two soft masks, a form with resources and a
  matrix and one that is a group, a font of the page and a Type 3 font of other
  resources. An interruption may come at every report.
- `font_caches`: one back end of LightVG and one of ThorVG, three documents of
  which two are opened, two addresses. Two back ends are the least that race;
  two documents whose fonts have the same name and the same number are the least
  that can be mistaken for each other. The third document has a font of fixed
  pitch without a base name, which LightVG judges by its flags and finds a file
  for and ThorVG takes for sans, and a serif one, which both judge alike; the
  second one a damaged CJK font, for which a font is compiled in. Two fonts are
  registered, out of two serif ones of different weights and one of fixed pitch
  that cannot be used. Blend2D differs in `Hint` and `Best`, and the proofs
  cover it with the others.
- `pdf_updates`: a document with a cross-reference stream, a note and two
  fields, one of generation 1; two sessions of two edits and two writes each,
  so that every pair of edits meets in one update and in two; two values, one
  text, signatures that approve and that certify with P=2; a window of four
  objects, longer than a small update and shorter than a signed one.
  `update_lost` has the document with a table too.
- `wasm_api`: two documents of one and two pages, two addresses, two back ends,
  pages and sizes that exist and that do not, the resolutions 72, 144 and the one
  that stands for 72, of which the pictures of 144 are too large to be kept; up
  to two documents
  in the editor, three pages added, two annotations, two exports, one stamp, two
  settings in a form session, of two fields to two values; two flows of signing. Viewer, editor and signing change nothing of
  each other's except through `Shutdown`, so `MCWasmApi` explores each alone,
  the editor in three parts: the choice is made at first and says which
  operations are used.

`CHECK_DEADLOCK FALSE` stands where a system ends or a bound is reached: the
build of `XrefIndex`, `MaxPages`, `MaxOps`, `MaxOpens`, `MaxParts`, and the
bounds and flows of `WasmApi`.

### Fairness

`WF` on the step that is being executed, never on a step somebody has to ask
for: the build that a thread has claimed (`XrefIndex`, `ObjectStore`), each
thread inside a call (`ObjectStore`), the page being rendered and the worker
threads that `join` waits for (`RenderProgress`, `PageImages`). These are
running threads that hold no lock across actions, so the scheduler of the
operating system is all the assumption rests on. A callback is assumed to
return. The other modules state no liveness: their operations are calls that
run to their end by themselves.

## 4. What the code does that no run shows

Met while modelling; each is in the model as the code has it, or left out where
"not modelled" is said, and is the reason for a condition in a property.

**Objects and streams.** While one thread builds the index,
`object_offsets_failed` is set (`nanopdf.cc:5555`); a second one neither builds
nor waits, scans the file for the first body of its object and keeps it in
`object_cache` for good, which is not "Thread-safe object and stream caches"
(`README.md:18`). A program that shares a document only after `parse_pdf` is
safe, hence `~raced` in `AsAlone`. Two threads that miss the same stream queue
its key twice; a hit moves one copy to the back and the eviction of the other
drops the entry that was used last, hence `~doubled` in `EvictsOldest`. The key
of an image of 2048 by 2048 is the key without dimensions (`nanopdf.cc:3522`),
so a fax image of that size without `Rows` may get the result of its decode as
a plain stream; the proofs name the condition, `KeysTellApart`. "If columns not
specified in DecodeParms but we have image width, use it" (`nanopdf.cc:3996`)
never applies, as the default it looks for is 0 and that of `columns` is 1.

**Pages.** Nothing looks at `render_interrupted_` after `render_annotations`
(`lightvg-backend.cc:8952`), so a page stopped there is returned as a success;
`CutShortIsReported` is about content. `begin_progress` goes on to report when
the first callback answers false, and `finish_progress` then reports 100
percent. The key of a converted image has no document in it
(`lightvg-backend.cc:10438`) although the cache is process-wide, so a document
is shown the image that another one has under the number: `ShownImage` demands
the own pixels unless another document is among the `users` of the number. The
pixels kept of an image with a soft mask that was prepared among others are
premultiplied, while a hit takes them for straight (`lightvg-backend.cc:4609`,
`:5070`); hence `crowded`. A tile whose content ends with an image is stored
without it: `parse_pdf_content` flushes at depth 1 only, and the image appears
on the page with the next flush. Until the tile is evicted, every page that uses
it lacks the image; hence `torn` and `spilled`. The key of a tile
holds the address of its pattern (`lightvg-backend.cc:6856`), which another
document's may have; not modelled.

**Content.** Only `Q` restores a font: one that a form, tile or glyph chose is
used after it as well. `render_page` resets the graphics state but not
`current_font_`, while the storage that lookups of the page before filled is
cleared (`lightvg-backend.cc:9011`); text before the first `Tf` of a page uses
a font of an earlier one. `rg`, `g` and `k` leave a pattern in place, and its
name is looked up when it paints, in the resources of the content that paints.
`W` replaces the clip instead of intersecting it, and at once instead of with
the next paint; `ET` adds text to it. A font of the page hides a form's own
font of the same name, as a comment says it should. The box of a form does not
clip. `'` and `"` go down from where the last text ended, under the comment
"Move to next line (T*)" (`lightvg-backend.cc:10328`), while `T*` starts from
the beginning of the line. A soft mask is taken for the last one if its size and three bytes
are equal ("Cleared via cache-key mismatch when the underlying soft_mask_data
changes", `lightvg-backend.hh:579`), hence the condition on `Looks` in
`DrawnAsInForce`; a mask that was rendered once on a page is reused under any
other matrix. The opacity in force counts twice in Type 3 glyphs.

**Fonts.** The fonts of a closed document stay in `SharedFontCache` under its
address (`shared-font-cache.cc:14`), and the next document there is given them
when the numbers agree, although the header says "the same font is loaded
exactly once per Pdf document" (`shared-font-cache.hh:7`); hence `recycled` in
`OwnFaces`. The other back ends key fonts by the name that a page gives them,
which a second page may give to another font. "Check font provider first (for
runtime-registered fonts, all categories)" (`lightvg-backend.cc:3176`) comes
after the cache of fallbacks, so a font that is registered late is not used for
a key that was searched for. The back ends share that cache but not what they
put into it. LightVG corrects the category it read from a name by the flags of
the descriptor (`lightvg-backend.cc:3027`), ThorVG does not
(`thorvg-backend.cc:2207`); their lists of files differ
(`lightvg-backend.cc:3051`, `thorvg-backend.cc:2222`); a font compiled in is
drawn and not remembered (`lightvg-backend.cc:3212`), so the next back end
searches again. Which face a key shows may therefore depend on who searched
first: `SubstitutesSound` says that it is one that some back end chooses for the
key, and `SubstitutesAgree` is about keys that all judge `Alike`. A second
registered font may be a better match than the first (`font-provider.cc:68`), so
that one back end draws the first and another the second; and if the best match
cannot be used no other is tried. `InTime` asks for both: that a font was
registered before the first search, and that none that cannot be used came
since. `FontProvider` keeps pointers into vectors
that grow (`font-provider.cc:39`); it has no lock, so fonts are registered
before they are used.

**Updates.** A field that is set twice before a write is written twice, and the
first value is the one that is read back (`pdf-writer.cc:4058`, with the
`emplace` of the index). Entries of an update always say generation 0, so an
object of another generation is not found again. Both are excluded from
`EditsReadBack` by `PlainUpdates`. The check of a certification also reports
another signature that P=2 permits: it adds a form, a catalog and a page, which
are "document".

**WebAssembly.** The comment of the budgeted render says "render buffer is not
updated" when it is interrupted (`wasm-api.cc:525`), but the buffer is released
first. Calls that are refused before they render - no document, a page or size
that does not exist (`wasm-api.cc:508`, `:531`), a length, a revision or a
handle that is wrong (`:563`, `:1127`) - return 0 and leave the picture before
in the buffer, and what `nanopdf_last_render_interrupted` says of it; the
property says whose picture that is. The kept back end is found by width and
height but not by resolution (`wasm-api.cc:364`), the kept page by both. A field
that is set twice in a form session is saved with the first value, as in
*Updates*. After a `load_pdf` that fails no document is open. `export_pdf` deletes
the writer of a form session, and the edits with it; a save after it fails, and
`FormSavesAccepted` says that none gives a file without them. The name of a stamp
is remembered from one export to the next, and what was in the writer of the
first is not in that of the second. Two signing flows that overlap share one
session, so that a token may be refused or a file be signed by the other flow;
`FilesAreTheFlows` is about flows that nobody disturbed. A flow that falls back
to a signature without a timestamp passes the bytes it copied with the length
of the document that is current by then (`examples/wasm/src/main.js:1637`), and
the file is named after that one.

## 5. Proofs

Every invariant and every action property that a run checks is stated by a
theorem here, and so are both refinements; what stays with TLC is liveness.
All theorems hold for any constants that satisfy the assumptions named in the
modules (offsets are positive numbers below the size of the data, `None` is
none of them, and so on); where a theorem needs more, its statement says so
under `ASSUME`. The prover cannot instantiate the library's induction theorems,
which take an operator; what is said of a recursive function, of a fold or of
`FlattenSeq` is proved from the least number that would be a counterexample
(`LeastNatural`, from `WFMin`) instead.

**`ObjectStoreProofs`: the index.** `BuildInvariance` proves
`IndexSpec => []IInv`, where `IInv` is the conjunction of nine named parts;
`InitIInv` and `NextIInv` are its base and step, and each theorem follows from
one part.

- `IndexTypes`, `FlagsAgree` and, of both, `IndexIsSound` - `IndexSound`: the
  two flags against the phase of the build (`Flags`, `Fresh`).
- `UpdatesPrevail` - `NewestBodyWins`. Not inductive alone: that the body kept
  is the newest one rests on the walk going backwards in a file of appended
  updates (`Backwards`: what is queued is below everything visited), and that
  `emplace` keeps it on every indexed body coming from a visited section
  (`Sourced`).
- `WalkIsComplete` - `ChainWalked`: what a visited section names is visited or
  still queued (`Chained`), and nothing is queued when the walk is over.
- `TrailersMerge` - `TrailerOfNewest`, from `Backwards` again (`Trailers`).
- `ScanFindsAll` - `ScanRecovers`: as long as no visited section vouches for
  anything, both maps are empty (`Scanned`).

**`ObjectStoreProofs`: the store.** `StoreBuildsTheIndex` shows that the threads
that claim and run the build take the steps of one `IndexSpec` and no others, so
`IInv` holds there too (`StoreKeepsTheIndex`), and nothing touches the index when
the build is over (`IndexIsBuiltOnce`, the action property `BuiltOnce`). `Shape`
adds types, the bound of the stream cache and what a call has in hand at each
point; it is inductive by itself. `Undisturbed` is the heart: in a document that
no call reached before the end of the build, every cached object, every cached
stream and what each thread carries (`OnTheWay`) is what a lone caller would
get. It needs that caches and threads are empty when the build ends (`AtRest`),
and that a stream in the cache could be decoded. `ThreadsAnswerAsOne` (`AsAlone`)
and `StoreIsSound` (`StoreSound`) follow for any number of threads, documents and
capacities.

**`RenderCacheProofs`.** `IInv` relates each node of the list to what
was stored last under its key; the case that needs it is an entry too large for
the cache, which must still remove the smaller one it replaces. It gives
`LookupsAreNeverStale`, and each operation then maps to one of `ForgetfulMap`
or to a stutter: `CacheIsForgetfulMap`. `Whole` says that list, map and byte
count agree (`Good`: one node per key, and the bytes are the sum over the list),
within the limit (`CacheIsConsistent`). The lemmas about sums say what taking a
node out, moving it or cutting the tail off does to the total, so that what
eviction subtracts one by one is what is gone. `Ordered` relates the list to
the history of uses; with it `EvictionTakesTheOldest` shows both halves of
`EvictionIsLRU`: what goes is older than what stays (`LeastRecent`), and the
entry evicted last had to go (`NoMoreThanNeeded`).

**`StreamCacheProofs`.** `Shape` - types, nesting and `CacheBounded` - is
inductive by itself and gives `CacheStaysBounded` for any streams and keys: what
matters is that eviction takes a key out of the map whenever it takes a copy out
of the order, never the other way round. `Truth` says that the cache and what a
thread carries through its call are what a lone caller would decode; it is
inductive where `Shape` and `KeysTellApart` hold, and gives `EachDecodesAlone`,
`StreamCacheTypes` and, with the bound, `CacheStaysSound`. `OnlyFaxKeysCollide`
reduces `KeysTellApart` to the requests for one fax image, the only streams
whose bytes depend on dimensions. `DecodeStreamIsAFunction` is the refinement:
the step that ends a call is the `Reply` of `CallService`, whatever was found,
decoded and evicted before is a stutter. `Aged` says that the keys of the order
stand in it as they were used last, until one is queued twice; it gives
`EvictionTakesTheOldest` (`EvictsOldest`).

**`PageProofs`: progress.** `PInv` adds to the two properties that reports are
on only in a page that was counted (`Counting`), that nothing but the callback
switches them off before the end (`Unstopped`) and that annotations begin when
no content is left (`Ordered`). The step with arithmetic is `PercentBound`:
units are capped at the total, so the division gives at most 100, whatever an
object that was counted too low weighs. It gives `ReportsAreSound` and
`CutPagesAreReported`.

**`PageProofs`: images.** `LInv` adds to `NothingLeaks` that a draw put off with
pixels from the cache carries those of its object, and that a batch exists only
in a page and its prepared pixels are those of its draws (`Faithful`,
`Batched`); `PagesLeakNothing` needs nothing else. `PagesShowWhatWasAsked` has no
assumption about what is rendered either: the limits of the code are conditions
in the property, each about an image or a page, and everything else is proved of
pages that meet them as well. `SInv` says of every moment that what was drawn is
a beginning of what was asked for and that the images put off are exactly what
is missing, each for the canvas on top, or was left by a tile (`Drew`). It is
not inductive without where pixels come from - those in the cache and those put
off with a hit are of a document that asked for the number, and premultiplied
only if the image is `crowded` (`Sourced`) - and without the shape of the stack:
a form draws where its `Do` is and a tile on a canvas of its own (`Nested`), and
a fill goes on with nothing put off unless its tile left it (`Closed`).

**`FontCachesProofs`.** `OwnInv` says of each program in a back end
(`FacesOwned`) or in the shared cache (`SharedOwned`) whose it is: of the
document at the address it is kept under, as long as that address was not used
twice. `EmbeddedFontsAreOwn` needs that no name that a page gives to a font is
the identity of another one (`NamesTellApart`): a back end looks both up in the
same map. `Places` are the types, and give `FontTypes`. `SubInv` follows a
substitute from the search to the page, while other back ends search under the
same key and fonts are registered: what the shared cache holds, what a search in
progress may come to and what a back end draws each fit some seeker of the key
(`FallbackFits`, `ProbesFit`, `FacesFit`). Where all seekers judge the key
alike, once the cache remembers it no back end draws a registered font for it,
and one that still searches for it finds none registered, as nobody registers a
font while another loads one. `Counted` says that `first` is no more than are
registered by now. It gives
`SubstitutesAreSound` and `BackendsAgree` for any lists of files, readings of
names and registered fonts, and for all three kinds of back end.

**`PdfContentProofs`.** The nesting of contents has no bound here. `CInv` says
of every frame what its caller saved: `rendering_soft_mask_group_` was set just
when a frame below is a group (`Masking`), and `progress_.enabled` just when all
below are pages or forms and nothing was interrupted (`Reporting`). The second
holds because reports are off inside anything else: an interruption can only
come where every frame is a page or a form, so what a tile or a glyph puts back
is never out of date. `Between` carries this over the annotations, which run
with no page around them. The lemmas on frames (`Pushed`, `Popped`,
`OwnedPopped`, ...) say what entering and leaving does to each part;
`EditKeeps`, `StateKeeps`, `EnteredKeeps` and `ReturnsKeeps` lift them to steps,
and each operator is an instance of one of these four. They give
`ContentsClose`.

`ContentsDrawInForce` is `DrawnAsInForce`: the members of the back end are what
replaying the operators in scope gives. Its invariant `InStep` places every saved
state in that history: slot *x* of run *j* was pushed by one particular `q`, slot
0 is the content of run *j*, the replay of what stands before that mark gives
just what was saved (`Held`), the marks stand in the order of the stacks, and
there are no others (`Nest`). A `Q` or an end of a content cuts the history at
its mark, and the state restored is the replay of the rest.

**`PdfUpdatesProofs`.** The assumptions say what a document as made is
(`WellMade`) and that the window and the bounds are numbers; the bounds may be
any. The first part are lemmas on `FlattenSeq` and on `ChainFrom`, the recursive
walk over `/Prev`: what it reaches, that it ends at the document as made, and that an
appended part adds itself to it and changes nothing else. Three invariants stand on each other.

- `UInv`: the file, the one a session loaded and the one it wrote are files
  (`IsFile`: `/Prev` leads back, numbers have the role they have in the document
  as made, ends grow), a session gives numbers above the `/Size` it read
  (`IsSession`), and a signature that was filled in covers what it should
  (`Signed`). It gives `UpdatesTypes` and, with no condition on lengths,
  `SignaturesStand` (`SignaturesHold`).
- `SInv`: no part names a number twice for two kinds of object (`Apart`), and
  where updates are longer than the window numbers rise from part to part
  (`Rising`), because then the section `find_startxref` finds is the last one
  (`LastIsFound`). It gives `FilesAreSound` and `LongRevisionsStayLinked`.
- `RInv`: a file of long updates in which no object is written twice shows what
  was asked for (`Reads`), and its page names only numbers that were given
  (`Known`). The step is `WriteIncremental`: what it appends is split into
  values, widgets, notes and what stays (`ValuesRead`, `WidgetsRead`,
  `NotesRead`, `KeptRead`). It gives `EditsAreReadBack`.

`ChangesAreJudged` follows from all three: what a revision may write under a
number is of the kind that was there (`KindsStay`), so a revision without an
object of a forbidden kind shows the same.

**`WasmApiProofs`: viewer and signing.** `ViewInv` ties the kept back end and
page to the document that is open, and the buffer to the answer of the last call
and to what the last one that succeeded was asked for (`ViewKeepsOpen`,
`ViewShowsAsked`); that a refused call keeps it is a lemma of its own
(`RefusedKeeps`), beside those of the calls that begin to render. `SignInv` ties
the one session to the flow that waits for it, unless that flow was disturbed,
and bounds what each flow has written (`UndisturbedFlowsSign`, `TokensOnce`). Both are invariants of the whole
module, as the parts share `Shutdown`.

**`WasmApiProofs`: editor.** The editor keeps annotations by the index of their
page, so moving or removing a page re-indexes the whole map. `RemovalIsOneToOne`
and `MoveIsOneToOne` show that the shifts of the code and the positions of
`RemoveAt` and `InsertAt` are inverse to each other, `MovedAre` that a one-to-one
re-indexing loses no entry, and `Reordered` that the invariant follows: each
page has a number of its own (`Numbered`), and the annotations beside it stand
for what was asked for under that number (`Followed`). `FormKept` says of
a writer of a form session that, for each field, the first of its updates is
what the field was told first, or there is none (`FirstTold`); `FirstIsRead`
makes of this what a reader of the saved file finds. They give
`AnnotationsFollow`, `FormsSave` and `ApiIsSound`. For `ExportsShowMeant` the
images of an export are counted: the number of an image is how many come before
it, so images of different places have different numbers (`NamesLead`), and each
page and annotation finds its own again.

**Only model-checked.** Liveness: `BuildEnds`, `CallsReturn`, `PageReturns` and
`PagesEnd` rest on fairness and `ENABLED`, which TLAPS does not reason about.
The two runs that expect a violation have nothing to prove.


## 6. Not modelled

Parsing of bytes into values (what a damaged entry leads to is a choice
instead), the filters, codecs, font files and cryptography, layout and pixel
arithmetic: sequential functions on bytes. The other back ends, which repeat
the interpreter of LightVG and draw images at once; how they load fonts is in
`FontCaches`. In `PageImages`, the predecode of a page - the same
decoder run earlier - soft mask groups, which draw at once, and Type 3 glyphs.
In `PdfContent`, images, shadings, the style of lines, the position of text and
text without a font program. In `ObjectStore`, generation numbers (the index
falls back to generation 0). In `ObjectStore` and `StreamCache`, the encryption
of bodies; the password is fixed when the document is parsed. Of the writer,
new documents, encryption and linearisation, resources and appearances. In
`WasmWork`, rotation, cropping and encryption of an export, the edit session
and merging and splitting, which use a writer of their own for one call. The
lazy parts of a document (`nanopdf.cc:6929`), the request loop of the MCP
server and the C port.

## 7. Plan

1. `LazyParts` - check, load and store under a flag without a lock
   (`nanopdf.cc:6929`), with the type invariant and what holds in spite of it
   proved as for `ObjectStore`.
2. `McpServer` - one document state under a sequence of requests.
3. Optional content visibility and the content scanner as pure functions; the
   arena of the C port.
4. Proofs: `EditsReadBack` for short updates that a longer one follows.
