----------------------------- MODULE PdfUpdates -----------------------------
(***************************************************************************)
(* Incremental updates of a PDF: PdfWriter::load_existing and              *)
(* write_incremental_for_signing in src/pdf-writer.cc append a section to  *)
(* the bytes of a document, apply_signature fills the hole a signature     *)
(* left in it, and src/nanopdf.cc reads the result back: its objects       *)
(* through the chain of /Prev, and detect_revision_history revision by     *)
(* revision.                                                               *)
(*                                                                         *)
(* A file is a sequence of parts, the document as it was made and the      *)
(* updates after it.  Each holds the objects it wrote in the order of      *)
(* their offsets, the kind of its cross-reference section, the /Size and   *)
(* /Prev of its trailer (the index of the part that /Prev is in, 0 for     *)
(* none) and the position where it ends, counted in units of an object.    *)
(* Resources, encryption and appearances of fields are left out.           *)
(***************************************************************************)
EXTENDS Integers, Sequences, FiniteSets, SequencesExt

CONSTANTS
  Bases,        \* documents as they were made
  Values,       \* values of a field
  Texts,        \* contents of a note
  Permissions,  \* 0 for an approval signature, P for one that certifies
  Window,       \* where find_startxref looks, counted back from the end of the file
  MaxParts,     \* parts of a file
  MaxEdits,     \* edits of a session
  MaxWrites     \* writes of a session

Root == 1       \* number of the catalog
Page == 2       \* number of the page

Numbers(part) == {part.objs[j][1] : j \in DOMAIN part.objs}

\* One object for each number below /Size: the catalog, the page with its notes, and
\* the fields of the form.
WellMade(b) ==
  /\ DOMAIN b = {"objs", "kind", "aged", "fields", "prev", "size", "end"}
  /\ b.prev = 0 /\ b.size \in Nat /\ b.end \in Nat
  /\ b.objs \in Seq(Nat \X {b.objs[j][2] : j \in DOMAIN b.objs})
  /\ \A j, k \in DOMAIN b.objs : b.objs[j][1] = b.objs[k][1] => j = k
  /\ {Root, Page} \union b.fields \subseteq Numbers(b)
  /\ \A j \in DOMAIN b.objs :
       LET n == b.objs[j][1]
           object == b.objs[j][2]
       IN /\ n < b.size
          /\ object.kind \in {"catalog", "page", "form", "field", "note"}
          /\ object.kind = "catalog" <=> n = Root
          /\ object.kind = "page" <=> n = Page
          /\ object.kind = "field" <=> n \in b.fields
          /\ n = Root => object \in [kind : {"catalog"}, form : Nat, fields : Seq(b.fields)]
          /\ n = Page => object.annots \in
               Seq({b.objs[k][1] : k \in {i \in DOMAIN b.objs : b.objs[i][2].kind = "note"}})

ASSUME BasesAssumption == \A b \in Bases : WellMade(b)
ASSUME PermissionsAssumption == Permissions \subseteq 0..3
ASSUME WindowAssumption == Window \in Nat \ {0}
ASSUME BoundsAssumption == {MaxParts, MaxEdits, MaxWrites} \subseteq Nat

VARIABLES
  file,         \* the document as it was saved
  meant,        \* what it should show
  session,      \* Impl of a writer, with the document it loaded
  output        \* the bytes it wrote last and what they should show

vars == <<file, meant, session, output>>

Closed == [base |-> <<>>]
Open == session.base # <<>>
Nothing == [bytes |-> <<>>]

---------------------------------------------------------------------------
(* Reading. *)

\* The sections read from that of part i on, along /Prev.
ChainFrom(f, i) ==
  LET from[j \in 0..Len(f)] == IF j = 0 THEN {} ELSE {j} \union from[f[j].prev] IN from[i]

Written(part, n) == {j \in DOMAIN part.objs : part.objs[j][1] = n}

\* The entries of an update all say generation 0, and compute_object_body_offset
\* refuses an entry whose object has another one: that of a base is "aged".
Registered(f, i, n) == Written(f[i], n) # {} /\ (i = 1 \/ n \notin f[1].aged)

\* object_offsets.emplace: the entry that is read first stays.
Entry(part, n) == part.objs[Min(Written(part, n))][2]

Resolve(f, n) ==
  LET holders == {i \in ChainFrom(f, Len(f)) : Registered(f, i, n)}
  IN IF holders = {} THEN [kind |-> "missing"] ELSE Entry(f[Max(holders)], n)

Catalog(f) == Resolve(f, Root)
Annots(f) == Resolve(f, Page).annots

\* The fields of the AcroForm, which is in the catalog (0) or an object of its own.
FieldsOf(f) ==
  IF Catalog(f).form = 0 THEN Catalog(f).fields
  ELSE LET form == Resolve(f, Catalog(f).form) IN IF form.kind = "form" THEN form.fields ELSE <<>>

\* What a reader shows: the values of the fields the document was made with and the
\* annotations of its page.
Shown(object) ==
  CASE object.kind = "note" -> object.text
    [] object.kind = "field" -> object.value
    [] OTHER -> object.kind

Show(f) ==
  [values |-> [n \in f[1].fields |-> Shown(Resolve(f, n))],
   annots |-> [i \in DOMAIN Annots(f) |-> Shown(Resolve(f, Annots(f)[i]))]]

Init ==
  /\ \E b \in Bases : file = <<b>>
  /\ meant = Show(file)
  /\ session = Closed /\ output = Nothing

---------------------------------------------------------------------------
(* Loading. *)

InWindow(f, i) == f[Len(f)].end - f[i].end < Window

\* find_startxref takes the first one in the window.
StartSection_First(f) == 1          \* mutant: the first one of the file

StartSection(f) == Min({i \in DOMAIN f : InWindow(f, i)})

\* The trailer is the next one after the section, or the section's own dictionary.
Trailer(f, i) ==
  LET tables == {j \in i..Len(f) : f[j].kind = "table"}
  IN IF tables = {} THEN f[i] ELSE f[Min(tables)]

LoadExisting ==
  /\ Len(file) < MaxParts
  /\ LET from == StartSection(file) IN
       session' = [base |-> file, shows |-> meant, prev |-> from,
                   next |-> Trailer(file, from).size,
                   count |-> Cardinality(ChainFrom(file, from)),
                   fields |-> <<>>, annots |-> <<>>, signatures |-> <<>>, form |-> 0,
                   writes |-> 0]
  /\ output' = Nothing
  /\ UNCHANGED <<file, meant>>

---------------------------------------------------------------------------
(* Edits, which the writer only records. *)

Edits == Len(session.fields) + Len(session.annots) + Len(session.signatures)
Editing == Open /\ Edits < MaxEdits

\* set_field_value, set_field_checked, set_field_choice: the field must be there.
SetField(n, v) ==
  /\ Editing
  /\ Resolve(session.base, n).kind = "field"
  /\ session' = [session EXCEPT !.fields = Append(@, [object |-> n, value |-> v])]
  /\ UNCHANGED <<file, meant, output>>

\* add_text_annotation_to_existing_page and the others; a markup has an appearance.
AddAnnot(t, markup) ==
  /\ Editing
  /\ session' = [session EXCEPT !.annots =
                   Append(@, [kind |-> "add", text |-> t, markup |-> markup])]
  /\ UNCHANGED <<file, meant, output>>

DeleteAnnot(i) ==
  /\ Editing
  /\ session' = [session EXCEPT !.annots = Append(@, [kind |-> "delete", index |-> i])]
  /\ UNCHANGED <<file, meant, output>>

\* add_signature_field: numbers for the AcroForm, the first time, the field, which is
\* also its widget, the signature, and the appearance of a visible one, never written.
AddSignatureField_Shared(p) ==      \* mutant: the AcroForm's number is not its own
  /\ Editing
  /\ LET form == IF session.form = 0 THEN session.next ELSE session.form
     IN session' = [session EXCEPT
          !.form = form, !.next = @ + 3,
          !.signatures = Append(@, [field |-> session.next, object |-> session.next + 1,
                                    permits |-> p])]
  /\ UNCHANGED <<file, meant, output>>

AddSignatureField(p) ==
  /\ Editing
  /\ LET form == IF session.form = 0 THEN session.next ELSE session.form
         next == IF session.form = 0 THEN session.next + 1 ELSE session.next
     IN session' = [session EXCEPT
          !.form = form, !.next = next + 3,
          !.signatures = Append(@, [field |-> next, object |-> next + 1, permits |-> p])]
  /\ UNCHANGED <<file, meant, output>>

---------------------------------------------------------------------------
(* What an update writes, in this order. *)

Each(seq, Op(_)) == [i \in DOMAIN seq |-> Op(seq[i])]

\* What a sequence holds at the places in S, in order.
At(seq, S) == FlattenSeq([i \in DOMAIN seq |-> IF i \in S THEN <<seq[i]>> ELSE <<>>])

\* A hole for each signature; only the first that certifies says so.
SignatureObjects ==
  LET certifying == {i \in DOMAIN session.signatures : session.signatures[i].permits # 0}
      Permits(i) == IF certifying # {} /\ i = Min(certifying) THEN session.signatures[i].permits
                    ELSE 0
  IN FlattenSeq([i \in DOMAIN session.signatures |->
       << <<session.signatures[i].object, [kind |-> "sig", covers |-> <<>>, permits |-> Permits(i)]>>,
          <<session.signatures[i].field, [kind |-> "widget", sig |-> session.signatures[i].object]>> >>])

\* A new AcroForm with the fields there were, and the catalog that names it.
FormObjects ==
  IF session.signatures = <<>> THEN <<>>
  ELSE << <<session.form,
            [kind |-> "form", fields |-> FieldsOf(session.base)
                                           \o Each(session.signatures, LAMBDA s : s.field)]>>,
          <<Root, [Catalog(session.base) EXCEPT !.form = session.form]>> >>

\* One object for each update, even of the same field.
FieldObjects ==
  Each(session.fields, LAMBDA u : <<u.object, [kind |-> "field", value |-> u.value]>>)

\* A number for every annotation and one more for the appearance of a markup.
Added == At(session.annots, {i \in DOMAIN session.annots : session.annots[i].kind = "add"})
Number(i) == session.next + i - 1 + Cardinality({j \in 1..(i - 1) : Added[j].markup})

AnnotObjects ==
  FlattenSeq([i \in DOMAIN Added |->
    << <<Number(i), [kind |-> "note", text |-> Added[i].text]>> >>
      \o (IF Added[i].markup THEN << <<Number(i) + 1, [kind |-> "appearance"]>> >> ELSE <<>>)])

\* Indices are those of the page as it was loaded.
Deleted == {session.annots[j].index :
              j \in {i \in DOMAIN session.annots : session.annots[i].kind = "delete"}}
Kept(seq) == At(seq, DOMAIN seq \ Deleted)

\* The page, when an annotation or the widget of a signature changes it.
PageObjects ==
  IF session.annots = <<>> /\ session.signatures = <<>> THEN <<>>
  ELSE << <<Page, [kind |-> "page", annots |->
              Kept(Annots(session.base)) \o [i \in DOMAIN Added |-> Number(i)]
                \o Each(session.signatures, LAMBDA s : s.field)]>> >>

NewObjects == SignatureObjects \o FormObjects \o FieldObjects \o AnnotObjects \o PageObjects

\* The contents of a signature alone are longer than the window.
Weight(objs) == 1 + Len(objs) + (IF session.signatures = <<>> THEN 0 ELSE Window)

NextNumber == Number(Len(Added) + 1)

Update(objs) ==
  [objs |-> objs, kind |-> "table", aged |-> {}, fields |-> {},
   prev |-> session.prev, size |-> NextNumber,
   end |-> session.base[Len(session.base)].end + Weight(objs)]

---------------------------------------------------------------------------
(* Writing. *)

\* What the edits ask for: of a field the last value, of the page the annotations
\* that are not deleted, the added ones and the widgets.
Asked ==
  LET last(n) == {j \in DOMAIN session.fields : session.fields[j].object = n}
  IN [values |-> [n \in DOMAIN session.shows.values |->
                    IF last(n) = {} THEN session.shows.values[n]
                    ELSE session.fields[Max(last(n))].value],
      annots |-> Kept(session.shows.annots) \o Each(Added, LAMBDA a : a.text)
                   \o Each(session.signatures, LAMBDA s : "widget")]

\* write_incremental_for_signing starts from the bytes that were loaded, every time.
WriteIncremental_Clears ==          \* mutant: a write uses the updates of fields up
  /\ Open /\ session.writes < MaxWrites
  /\ output' = [bytes |-> Append(session.base, Update(NewObjects)), shows |-> Asked]
  /\ session' = [session EXCEPT !.next = NextNumber, !.writes = @ + 1, !.fields = <<>>,
                                !.shows.values = Asked.values]
  /\ UNCHANGED <<file, meant>>

WriteIncremental ==
  /\ Open /\ session.writes < MaxWrites
  /\ output' = [bytes |-> Append(session.base, Update(NewObjects)), shows |-> Asked]
  /\ session' = [session EXCEPT !.next = NextNumber, !.writes = @ + 1]
  /\ UNCHANGED <<file, meant>>

Fill(f, j, covers) == [f EXCEPT ![Len(f)].objs[j][2].covers = covers]

\* apply_signature: a signature over all of the bytes but its own hole.
ApplySignature_Base(j) ==           \* mutant: over the bytes there were before the update
  /\ output # Nothing /\ j \in DOMAIN Last(output.bytes).objs
  /\ Last(output.bytes).objs[j][2].kind = "sig" /\ Last(output.bytes).objs[j][2].covers = <<>>
  /\ output' = [output EXCEPT !.bytes = Fill(@, j, session.base)]
  /\ UNCHANGED <<file, meant, session>>

ApplySignature(j) ==
  /\ output # Nothing /\ j \in DOMAIN Last(output.bytes).objs
  /\ Last(output.bytes).objs[j][2].kind = "sig" /\ Last(output.bytes).objs[j][2].covers = <<>>
  /\ output' = [output EXCEPT !.bytes = Fill(@, j, @)]
  /\ UNCHANGED <<file, meant, session>>

\* The caller keeps the bytes; the writer goes on with what it loaded.
Save ==
  /\ output # Nothing
  /\ file' = output.bytes /\ meant' = output.shows
  /\ UNCHANGED <<session, output>>

Next ==
  \/ LoadExisting
  \/ Open /\ \E n \in ToSet(FieldsOf(session.base)), v \in Values : SetField(n, v)
  \/ \E t \in Texts, markup \in BOOLEAN : AddAnnot(t, markup)
  \/ Open /\ \E i \in DOMAIN Annots(session.base) : DeleteAnnot(i)
  \/ \E p \in Permissions : AddSignatureField(p)
  \/ WriteIncremental
  \/ output # Nothing /\ \E j \in DOMAIN Last(output.bytes).objs : ApplySignature(j)
  \/ Save

Spec == Init /\ [][Next]_vars

---------------------------------------------------------------------------
(* detect_revision_history. *)

\* classify_revision_object looks at the object as it is now, by generation 0.
Class(f, n) ==
  LET kind == IF n \in f[1].aged THEN "missing" ELSE Resolve(f, n).kind
  IN CASE kind = "field" -> "form"
       [] kind \in {"widget", "sig"} -> "signature"
       [] kind \in {"note", "appearance"} -> "annotation"
       [] kind \in {"page", "catalog"} -> "document"
       [] OTHER -> "unknown"

Signatures(f) ==
  {Resolve(f, Resolve(f, n).sig) : n \in {m \in ToSet(FieldsOf(f)) : Resolve(f, m).kind = "widget"}}

\* The certification that covers most, and whether there is one.
Certifications(f) == {s \in Signatures(f) : s.kind = "sig" /\ s.permits # 0}
Coverage(f) == Max({Len(s.covers) : s \in Certifications(f)})
Permitted(f) == (CHOOSE s \in Certifications(f) : Len(s.covers) = Coverage(f)).permits

\* analyze_docmdp_revision: every object that a revision adds or modifies must be of
\* a class that P allows.
Allowed_Added(f, i) ==              \* mutant: objects that are modified are not checked
  LET P == Permitted(f)
      added == {n \in Numbers(f[i]) : \A j \in 1..(i - 1) : n \notin Numbers(f[j])}
      classes == (IF P >= 2 THEN {"form", "signature"} ELSE {})
                   \union (IF P = 3 THEN {"annotation"} ELSE {})
  IN added = {} \/ (P # 1 /\ \A n \in added : Class(f, n) \in classes)

Allowed(f, i) ==
  LET P == Permitted(f)
      classes == (IF P >= 2 THEN {"form", "signature"} ELSE {})
                   \union (IF P = 3 THEN {"annotation"} ELSE {})
  IN Numbers(f[i]) = {} \/ (P # 1 /\ \A n \in Numbers(f[i]) : Class(f, n) \in classes)

---------------------------------------------------------------------------
TypeOK ==
  /\ file # <<>> /\ \A i \in DOMAIN file : file[i].prev \in 0..(i - 1)
  /\ Open => /\ session.base # <<>> /\ session.prev \in DOMAIN session.base
             /\ session.next \in Nat /\ Edits \in 0..MaxEdits
  /\ output # Nothing => Len(output.bytes) <= MaxParts

\* Updates that are longer than the window of find_startxref, but for the last one.
Long(f, i) == f[i].end - f[i - 1].end >= Window
LongUpdates(f) == \A i \in 2..(Len(f) - 1) : Long(f, i)

\* Updates in which no object is written twice and none has a generation.
PlainUpdates(f) ==
  \A i \in 2..Len(f) :
    /\ \A j, k \in DOMAIN f[i].objs : f[i].objs[j][1] = f[i].objs[k][1] => j = k
    /\ Numbers(f[i]) \cap f[1].aged = {}

\* "preserves original PDF and appends changes": each section points to the one
\* before it, so none is skipped when the document is read.
RevisionsLinked == \A i \in 2..Len(file) : file[i].prev = i - 1

\* That holds where updates are long, and the writer then knows how many there were.
LongRevisionsLinked ==
  LongUpdates(file) =>
    /\ RevisionsLinked
    /\ Open /\ session.base = file /\ (Len(file) > 1 => Long(file, Len(file)))
         => session.count = Len(file)

\* There, an object keeps its number: what one revision wrote by a number no later
\* one takes for something else.
NumbersKeepTheirKind ==
  LongUpdates(file) =>
    \A i, j \in DOMAIN file :
      \A k \in DOMAIN file[i].objs, m \in DOMAIN file[j].objs :
        file[i].objs[k][1] = file[j].objs[m][1] => file[i].objs[k][2].kind = file[j].objs[m][2].kind

\* A file of updates is well formed: links go back, and numbers keep their kind.
FileSound == TypeOK /\ NumbersKeepTheirKind

\* Whatever was saved of a session and loaded by the next, with any number of writes
\* between, a document shows all that was ever asked for, in the right place.
EditsReadBack == LongUpdates(file) /\ PlainUpdates(file) => Show(file) = meant

\* The same of updates that may be short: the one after must still read them.
EarlierUpdatesStay == PlainUpdates(file) => Show(file) = meant

\* A signature holds for good: the bytes it covers, all of the file as it was but its
\* own hole, are the same in every later file, unless another signature of the same
\* update was put in after it.
SignaturesHold ==
  \A i \in DOMAIN file : \A j \in DOMAIN file[i].objs :
    LET sig == file[i].objs[j][2]
        now == Fill(SubSeq(file, 1, i), j, <<>>)
    IN sig.kind = "sig" /\ sig.covers # <<>> =>
         \/ sig.covers = now
         \/ \E k \in DOMAIN file[i].objs :
              /\ k # j /\ file[i].objs[k][2].kind = "sig" /\ file[i].objs[k][2].covers # <<>>
              /\ file[i].objs[k][2].covers[i].objs[j][2].covers # <<>>

\* "disallowed changes are reported when an appended revision clearly violates the
\* certification signature permissions": a revision that passes left the page of the
\* document before it, under P=2, and its values as well under P=1.
NothingForbiddenPasses ==
  Certifications(file) # {} /\ LongUpdates(file) =>
    \A i \in 2..Len(file) :
      LET before == Show(SubSeq(file, 1, i - 1))
          after == Show(SubSeq(file, 1, i))
      IN i > Coverage(file) /\ Allowed(file, i) =>
           /\ Permitted(file) = 1 => after = before
           /\ Permitted(file) = 2 => after.annots = before.annots

\* And a revision that only fills in the form passes, unless P=1.
FillingPasses ==
  Certifications(file) # {} /\ LongUpdates(file) =>
    \A i \in 2..Len(file) :
      /\ i > Coverage(file) /\ Permitted(file) # 1
      /\ Numbers(file[i]) \subseteq file[1].fields \ file[1].aged
      => Allowed(file, i)

\* The check of a certification reports what it forbids and passes what it permits.
ChangesJudged == NothingForbiddenPasses /\ FillingPasses
=============================================================================
