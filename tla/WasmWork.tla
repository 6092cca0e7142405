------------------------------ MODULE WasmWork ------------------------------
(***************************************************************************)
(* The editor of the WebAssembly module, src/wasm-api.cc: documents that   *)
(* are loaded as sources, the working document that is put together from   *)
(* their pages, the annotations on it, its export, and the form session,   *)
(* which shares the writer of the process with the export.                 *)
(*                                                                         *)
(* A page of the working document names its source by an id; annotations   *)
(* are kept beside the pages, by index.  The rotation and the crop box     *)
(* of a page, which are fields of its record, and encryption are left out. *)
(***************************************************************************)
EXTENDS Naturals, Sequences, FiniteSets, SequencesExt

CONSTANTS
  Sources,      \* documents
  SourcePages,  \* pages of each
  Images,       \* images of stamps
  Notes,        \* annotations that are not stamps
  Fields,       \* fields of the form of each document
  Values,       \* values they are set to
  MaxDocs,      \* documents that are loaded
  MaxAdded,     \* pages that are added
  MaxAnnots,    \* annotations that are there at once
  MaxExports,
  MaxStamps,    \* images that are registered
  MaxSets       \* settings of fields in a session

\* The value a field has in the document.
Own == "own"

ASSUME WorkAssumption ==
  /\ SourcePages \in [Sources -> Nat \ {0}] /\ Notes \cap Images = {} /\ MaxExports \in Nat
  /\ Own \notin Values

VARIABLES
  documents,    \* g_documents, by id
  nextDoc,      \* g_next_doc_id
  pages,        \* g_working_pages
  annotations,  \* g_page_annotations, by index
  stamps,       \* g_stamp_images, by id
  writer,       \* g_writer: of a form session or of an export
  form,         \* a history: what the calls of the form session were told, and accepted
  formOutput,   \* g_form_output
  meant,        \* of each page, by its number: its content and its annotations
  exports       \* exports so far

workVars == <<documents, nextDoc, pages, annotations, stamps, writer, form, formOutput,
              meant, exports>>

Without(map, k) == [x \in DOMAIN map \ {k} |-> map[x]]
With(map, k, v) == [x \in DOMAIN map \union {k} |-> IF x = k THEN v ELSE map[x]]
NoEntries == [x \in {} |-> 0]

NoWriter == [kind |-> "none"]
NoOutput == [of |-> "none"]

WorkInit ==
  /\ documents = NoEntries /\ nextDoc = 0 /\ pages = <<>> /\ annotations = NoEntries
  /\ stamps = <<>> /\ writer = NoWriter /\ form = NoOutput /\ formOutput = NoOutput
  /\ meant = <<>> /\ exports = 0

---------------------------------------------------------------------------
(* Source documents. *)

\* nanopdf_doc_load
DocLoad_Reuses(d) ==                \* mutant: an id is free again when its document is closed
  /\ nextDoc < MaxDocs /\ nextDoc' = nextDoc + 1
  /\ documents' = With(documents, Cardinality(DOMAIN documents), d)
  /\ UNCHANGED <<pages, annotations, stamps, writer, form, formOutput, meant, exports>>

DocLoad(d) ==
  /\ nextDoc < MaxDocs /\ nextDoc' = nextDoc + 1
  /\ documents' = With(documents, nextDoc, d)
  /\ UNCHANGED <<pages, annotations, stamps, writer, form, formOutput, meant, exports>>

\* nanopdf_doc_close: pages of it may stay in the working document.
DocClose(id) ==
  /\ documents' = Without(documents, id)
  /\ UNCHANGED <<nextDoc, pages, annotations, stamps, writer, form, formOutput, meant, exports>>

---------------------------------------------------------------------------
(* The working document. *)

\* Numbers of pages are those of the additions.
NewPage(id, p, number) == [source |-> id, index |-> p, number |-> number]
Blank(id, p) == [of |-> <<documents[id], p>>, annots |-> <<>>]

\* nanopdf_work_add_page
WorkAddPage(id, p) ==
  /\ Len(meant) < MaxAdded
  /\ pages' = Append(pages, NewPage(id, p, Len(meant) + 1))
  /\ meant' = Append(meant, Blank(id, p))
  /\ UNCHANGED <<documents, nextDoc, annotations, stamps, writer, form, formOutput, exports>>

\* nanopdf_work_add_all_pages
WorkAddAllPages(id) ==
  LET n == SourcePages[documents[id]] IN
  /\ Len(meant) + n <= MaxAdded
  /\ pages' = pages \o [p \in 1..n |-> NewPage(id, p, Len(meant) + p)]
  /\ meant' = meant \o [p \in 1..n |-> Blank(id, p)]
  /\ UNCHANGED <<documents, nextDoc, annotations, stamps, writer, form, formOutput, exports>>

\* The entries of the map, each under another index.
Moved(map, to) ==
  [i \in {to[k] : k \in DOMAIN map} |-> map[CHOOSE k \in DOMAIN map : to[k] = i]]

\* nanopdf_work_remove_page
WorkRemovePage(i) ==
  /\ pages' = RemoveAt(pages, i)
  /\ annotations' = Moved(Without(annotations, i),
                          [k \in DOMAIN annotations |-> IF k > i THEN k - 1 ELSE k])
  /\ UNCHANGED <<documents, nextDoc, stamps, writer, form, formOutput, meant, exports>>

\* nanopdf_work_move_page: the annotations of the page are taken out, the others are
\* shifted, and they are put back.
Shifted_Open(k, from, to) ==        \* mutant: the one at the end of the way is not shifted
  IF from < to THEN IF k > from /\ k < to THEN k - 1 ELSE k
  ELSE IF k > to /\ k < from THEN k + 1 ELSE k

Shifted(k, from, to) ==
  IF from < to THEN IF k > from /\ k <= to THEN k - 1 ELSE k
  ELSE IF k >= to /\ k < from THEN k + 1 ELSE k

AnnotsAt(i) == IF i \in DOMAIN annotations THEN annotations[i] ELSE <<>>

WorkMovePage(from, to) ==
  /\ from # to
  /\ pages' = InsertAt(RemoveAt(pages, from), to, pages[from])
  /\ annotations' = With(Moved(Without(annotations, from),
                               [k \in DOMAIN annotations |-> Shifted(k, from, to)]),
                         to, AnnotsAt(from))
  /\ UNCHANGED <<documents, nextDoc, stamps, writer, form, formOutput, meant, exports>>

\* nanopdf_work_clear
WorkClear ==
  /\ pages' = <<>> /\ annotations' = NoEntries
  /\ UNCHANGED <<documents, nextDoc, stamps, writer, form, formOutput, meant, exports>>

---------------------------------------------------------------------------
(* Annotations. *)

\* nanopdf_register_stamp_image
RegisterStamp(image) ==
  /\ Len(stamps) < MaxStamps /\ stamps' = Append(stamps, image)
  /\ UNCHANGED <<documents, nextDoc, pages, annotations, writer, form, formOutput, meant, exports>>

Total == FoldLeft(LAMBDA n, i : n + Len(AnnotsAt(i)), 0, [i \in DOMAIN pages |-> i])

MeantAt(i) == meant[pages[i].number].annots
Means(i, seq) == meant' = [meant EXCEPT ![pages[i].number].annots = seq]

AddAnnot(i, annot, shows) ==
  /\ Total < MaxAnnots
  /\ annotations' = With(annotations, i, Append(AnnotsAt(i), annot))
  /\ Means(i, Append(MeantAt(i), shows))
  /\ UNCHANGED <<documents, nextDoc, pages, stamps, writer, form, formOutput, exports>>

\* nanopdf_annot_add_text, _line, _rect, _oval and _highlight
AnnotAddNote(i, note) == AddAnnot(i, [stamp |-> 0, note |-> note], note)

\* nanopdf_annot_add_image: its name in a file is chosen by the export.
AnnotAddImage(i, id) == AddAnnot(i, [stamp |-> id, name |-> 0], stamps[id])

\* nanopdf_annot_remove
AnnotRemove(i, k) ==
  /\ annotations' = With(annotations, i, RemoveAt(AnnotsAt(i), k))
  /\ Means(i, RemoveAt(MeantAt(i), k))
  /\ UNCHANGED <<documents, nextDoc, pages, stamps, writer, form, formOutput, exports>>

\* nanopdf_annot_clear_page
AnnotClearPage(i) ==
  /\ annotations' = Without(annotations, i)
  /\ Means(i, <<>>)
  /\ UNCHANGED <<documents, nextDoc, pages, stamps, writer, form, formOutput, exports>>

---------------------------------------------------------------------------
(* nanopdf_export_pdf. *)

Content(page) == <<documents[page.source], page.index>>

\* The images that are added to the writer: <<0, i>> is that of page i, which is drawn if
\* its document is still open and nothing fails; <<i, k>> that of the k-th annotation of
\* page i, a stamp that has no name yet.
Drawn(failing) ==
  {<<0, i>> : i \in {j \in DOMAIN pages : j \notin failing /\ pages[j].source \in DOMAIN documents}}

Unnamed(i) ==
  {<<i, k>> : k \in {j \in DOMAIN AnnotsAt(i) : AnnotsAt(i)[j].stamp # 0 /\ AnnotsAt(i)[j].name = 0}}

Embedded(failing) == Drawn(failing) \union UNION {Unnamed(i) : i \in DOMAIN pages}

\* They are added, and numbered in their names, page by page, the drawings first.
Sooner(x, y) == x[1] < y[1] \/ (x[1] = y[1] /\ x[2] < y[2])
Number(failing, x) == Cardinality({y \in Embedded(failing) : y = x \/ Sooner(y, x)})

\* The images of the file, by the number in their name.
Resources(failing) ==
  [n \in {Number(failing, x) : x \in Embedded(failing)} |->
     LET x == CHOOSE y \in Embedded(failing) : Number(failing, y) = n
     IN IF x[1] = 0 THEN Content(pages[x[2]]) ELSE stamps[AnnotsAt(x[1])[x[2]].stamp]]

\* The names that stamps have from then on.
Named(failing) ==
  [i \in DOMAIN annotations |-> [k \in DOMAIN annotations[i] |->
     IF <<i, k>> \in Embedded(failing)
     THEN [annotations[i][k] EXCEPT !.name = Number(failing, <<i, k>>)]
     ELSE annotations[i][k]]]

\* A name that an earlier export gave is of the images of that one.
Unchanged(i, k) == AnnotsAt(i)[k].stamp # 0 /\ AnnotsAt(i)[k].name # 0

\* What a page of the file that an export writes shows.
PageShown(failing, i) ==
  LET images == Resources(failing)
      seq == IF i \in DOMAIN annotations THEN Named(failing)[i] ELSE <<>>
  IN [picture |-> IF <<0, i>> \in Embedded(failing) THEN images[Number(failing, <<0, i>>)]
                  ELSE "placeholder",
      annots |-> [k \in DOMAIN seq |->
                    IF seq[k].stamp = 0 THEN seq[k].note
                    ELSE IF seq[k].name \in DOMAIN images THEN images[seq[k].name] ELSE "nothing"]]

\* The writer of the process is deleted, whatever it was for.
ExportPdf(failing) ==
  /\ pages # <<>> /\ exports < MaxExports
  /\ writer' = [kind |-> "export"]
  /\ exports' = exports + 1
  /\ annotations' = Named(failing)
  /\ UNCHANGED <<documents, nextDoc, pages, stamps, form, formOutput, meant>>

---------------------------------------------------------------------------
(* The form session. *)

workRest == <<documents, nextDoc, pages, annotations, stamps, meant, exports>>

Untouched(d) == [of |-> d, values |-> [field \in Fields |-> Own]]

\* nanopdf_form_load, of a sound file or not.
FormLoad_Keeps(d, sound) ==         \* mutant: the updates of the session before stay
  /\ writer' = IF ~sound THEN NoWriter
               ELSE [kind |-> "form", of |-> d,
                     updates |-> IF writer.kind = "form" THEN writer.updates ELSE <<>>]
  /\ form' = IF sound THEN Untouched(d) ELSE NoOutput
  /\ UNCHANGED <<workRest, formOutput>>

FormLoad(d, sound) ==
  /\ writer' = IF sound THEN [kind |-> "form", of |-> d, updates |-> <<>>] ELSE NoWriter
  /\ form' = IF sound THEN Untouched(d) ELSE NoOutput
  /\ UNCHANGED <<workRest, formOutput>>

\* nanopdf_form_set_text, _checkbox and _choice: refused by the writer of an export.  What
\* a field was told first is what counts: a later update is written after it and not read.
FormSet(field, value) ==
  /\ writer.kind = "form" /\ Len(writer.updates) < MaxSets
  /\ writer' = [writer EXCEPT !.updates = Append(@, [field |-> field, value |-> value])]
  /\ form' = IF form.values[field] = Own THEN [form EXCEPT !.values[field] = value] ELSE form
  /\ UNCHANGED <<workRest, formOutput>>

\* nanopdf_form_save: the output is emptied first, and stays so when the writer has no
\* document.  The updates stay for the next save.
FormSave ==
  /\ writer # NoWriter
  /\ formOutput' = IF writer.kind = "form"
                   THEN [of |-> writer.of, updates |-> writer.updates, told |-> form]
                   ELSE NoOutput
  /\ UNCHANGED <<workRest, writer, form>>

\* The value of a field in a file with updates: the first of it is the one that is read.
Settings(updates, field) == {i \in DOMAIN updates : updates[i].field = field}
ReadBack(updates, field) ==
  LET is == Settings(updates, field)
  IN IF is = {} THEN Own ELSE updates[CHOOSE i \in is : \A j \in is : i <= j].value

WorkNext ==
  \/ \E d \in Sources : DocLoad(d)
  \/ \E id \in DOMAIN documents :
       \/ DocClose(id)
       \/ \E p \in 1..SourcePages[documents[id]] : WorkAddPage(id, p)
       \/ WorkAddAllPages(id)
  \/ \E i \in DOMAIN pages :
       \/ WorkRemovePage(i)
       \/ \E to \in DOMAIN pages : WorkMovePage(i, to)
       \/ \E note \in Notes : AnnotAddNote(i, note)
       \/ \E id \in DOMAIN stamps : AnnotAddImage(i, id)
       \/ \E k \in DOMAIN AnnotsAt(i) : AnnotRemove(i, k)
       \/ AnnotClearPage(i)
  \/ WorkClear
  \/ \E image \in Images : RegisterStamp(image)
  \/ \E failing \in SUBSET DOMAIN pages : ExportPdf(failing)
  \/ \E d \in Sources, sound \in BOOLEAN : FormLoad(d, sound)
  \/ \E field \in Fields, value \in Values : FormSet(field, value)
  \/ FormSave

\* The part of nanopdf_shutdown that is the editor's: ids begin again.
WorkShutdown ==
  /\ writer' = NoWriter
  /\ documents' = NoEntries /\ nextDoc' = 0 /\ pages' = <<>> /\ annotations' = NoEntries
  /\ UNCHANGED <<stamps, form, formOutput, meant, exports>>

---------------------------------------------------------------------------
WorkTypeOK ==
  /\ \A id \in DOMAIN documents : id < nextDoc /\ documents[id] \in Sources
  /\ \A i \in DOMAIN pages : pages[i].number \in DOMAIN meant /\ pages[i].source < nextDoc
  /\ \A i \in DOMAIN annotations : \A k \in DOMAIN annotations[i] :
       annotations[i][k].stamp \in {0} \union DOMAIN stamps
  /\ writer.kind \in {"none", "form", "export"} /\ exports \in 0..MaxExports

Shows(annot) == IF annot.stamp = 0 THEN annot.note ELSE stamps[annot.stamp]

\* The annotations of a page follow it, through every order of additions, removals and
\* moves of pages and of annotations, and none is left that has no page.
AnnotationsFollowPages ==
  /\ DOMAIN annotations \subseteq DOMAIN pages
  /\ \A i \in DOMAIN pages :
       LET asked == meant[pages[i].number].annots
       IN /\ Len(AnnotsAt(i)) = Len(asked)
          /\ \A k \in DOMAIN asked : Shows(AnnotsAt(i)[k]) = asked[k]

\* Every page of an export, at any time, shows the page it was made from, or the
\* placeholder where that fails or the document is closed, and its annotations, but for
\* a stamp that an earlier export has drawn.
ExportShowsMeant ==
  \A failing \in SUBSET DOMAIN pages, i \in DOMAIN pages :
    LET page == PageShown(failing, i)
        asked == meant[pages[i].number]
    IN /\ page.picture = IF i \in failing \/ pages[i].source \notin DOMAIN documents
                         THEN "placeholder" ELSE asked.of
       /\ \A k \in DOMAIN page.annots : ~Unchanged(i, k) => page.annots[k] = asked.annots[k]

\* A form that was saved is that of the document that was loaded last; read back, every
\* field has the value that it was told first of all that were accepted since, and the
\* others their own: through loads, settings of a field again, several saves, and exports
\* that take the writer away.  What an export loses is not saved without the rest.
FormSavesAccepted ==
  formOutput # NoOutput =>
    /\ formOutput.of = formOutput.told.of
    /\ \A field \in Fields :
         ReadBack(formOutput.updates, field) = formOutput.told.values[field]
=============================================================================
