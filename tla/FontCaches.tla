----------------------------- MODULE FontCaches -----------------------------
(***************************************************************************)
(* The fonts of the back ends: load_font and load_fallback_font_with_hint  *)
(* of lightvg-backend.cc, thorvg-backend.cc and blend2d-backend.cc, with   *)
(* the caches of the process they share, SharedFontCache and               *)
(* SharedFontFallbackCache, and the fonts that the program registers with  *)
(* FontProvider.  The back ends run in threads of their own; an access to  *)
(* a shared cache is one critical section, and a load of a font is several *)
(* of them.                                                                *)
(*                                                                         *)
(* A document is a set of fonts.  A font has the name that its page gives  *)
(* it, an identity in the document, its base name, the program that is     *)
(* embedded, if any, the flags of its descriptor and whether its structure *)
(* says CJK.  A face is what glyphs are drawn with: a program, a font that *)
(* is registered or compiled in, or a file.  Files are not removed while   *)
(* the program runs, and CJK is one category, for its serif and sans       *)
(* fonts.                                                                  *)
(***************************************************************************)
EXTENDS Integers, Sequences, FiniteSets, Functions

CONSTANTS
  Docs,         \* documents
  Addresses,    \* where a Pdf may lie
  Backends,     \* instances of a back end, one thread each
  LightVG,      \* those of LightVG and those of Blend2D; the others are of ThorVG
  Blend2D,
  Reads,        \* Reads[b][name]: category, weight and slant that b reads from a name
  Embedded,     \* Embedded[b]: the categories for which a font is compiled into b
  OnDisk,       \* OnDisk[b][category, style]: the first file of b's list, or ""
  Blobs,        \* fonts that the program may register
  MaxOpens,     \* documents that are opened
  MaxBlobs      \* fonts that are registered

ASSUME AddressAssumption == 0 \notin Addresses

None == [kind |-> "none"]
Program(p) == [kind |-> "program", of |-> p]
Registered(i) == [kind |-> "registered", of |-> i]
CompiledIn(c) == [kind |-> "compiled", of |-> c]
File(path) == [kind |-> "file", of |-> path]

ASSUME DocsAssumption ==
  \A f \in UNION Docs :
    (f.program = None \/ f.program.kind = "program") /\ f.damaged \in BOOLEAN

VARIABLES
  document,     \* the document at each address, {} where there is none
  faces,        \* font_cache_ of each back end
  at,           \* the address of the document that a back end renders
  call,         \* load_font of each back end: where it is, the font, the face it got
  shared,       \* SharedFontCache: programs by address and key
  fallback,     \* SharedFontFallbackCache: files by key, None for "not found"
  provided,     \* fonts of FontProvider, in the order of their registration
  opened,       \* documents opened so far
  recycled,     \* addresses at which a second document was opened
  first         \* how many fonts were registered when a key was first searched for

vars == <<document, faces, at, call, shared, fallback, provided, opened, recycled, first>>

Empty == [k \in {} |-> None]
Put(map, k, v) == [x \in DOMAIN map \union {k} |-> IF x = k THEN v ELSE map[x]]

Nowhere == 0
Idle == [step |-> "idle"]
Done(font, face) == [step |-> "done", font |-> font, face |-> face]

Init ==
  /\ document = [a \in Addresses |-> {}]
  /\ faces = [b \in Backends |-> Empty]
  /\ at = [b \in Backends |-> Nowhere]
  /\ call = [b \in Backends |-> Idle]
  /\ shared = Empty /\ fallback = Empty
  /\ provided = <<>> /\ opened = 0 /\ recycled = {} /\ first = Empty

---------------------------------------------------------------------------
(* The program. *)

\* new Pdf: any address that is free.
Open(a, d) ==
  /\ document[a] = {} /\ opened < MaxOpens
  /\ document' = [document EXCEPT ![a] = d]
  /\ opened' = opened + 1
  /\ recycled' = IF \E k \in DOMAIN shared : k[1] = a THEN recycled \union {a} ELSE recycled
  /\ UNCHANGED <<faces, at, call, shared, fallback, provided, first>>

Users(a) == {b \in Backends : at[b] = a}

\* delete Pdf, after the back ends that rendered it; nothing tells the shared caches.
Close(a) ==
  /\ document[a] # {}
  /\ \A b \in Users(a) : call[b].step \in {"idle", "done"}
  /\ document' = [document EXCEPT ![a] = {}]
  /\ at' = [b \in Backends |-> IF at[b] = a THEN Nowhere ELSE at[b]]
  /\ faces' = [b \in Backends |-> IF at[b] = a THEN Empty ELSE faces[b]]
  /\ call' = [b \in Backends |-> IF at[b] = a THEN Idle ELSE call[b]]
  /\ UNCHANGED <<shared, fallback, provided, opened, recycled, first>>

\* make_backend for a document.
Attach(b, a) ==
  /\ at[b] = Nowhere /\ document[a] # {}
  /\ at' = [at EXCEPT ![b] = a]
  /\ UNCHANGED <<document, faces, call, shared, fallback, provided, opened, recycled, first>>

\* register_font_blob, of any number of fonts and data that is not looked at, while no
\* back end loads a font: FontProvider has no lock.
RegisterFont(blob) ==
  /\ Len(provided) < MaxBlobs
  /\ \A b \in Backends : call[b].step \in {"idle", "done"}
  /\ provided' = Append(provided, blob)
  /\ UNCHANGED <<document, faces, at, call, shared, fallback, opened, recycled, first>>

---------------------------------------------------------------------------
(* load_font. *)

Key(b, font) == IF b \in LightVG THEN font.identity ELSE font.name

KeyOf(b) == Key(b, call[b].font)

\* Tf: the back end has the font, or the shared cache has it at this address, or it is
\* decoded; without a program the search for a substitute begins.
UseFont_Unkeyed(b, font) ==         \* mutant: SharedFontCache is keyed by the name alone
  LET k == Key(b, font)
      hits == {s \in DOMAIN shared : s[2] = k}
  IN /\ at[b] # Nowhere /\ call[b].step \in {"idle", "done"} /\ font \in document[at[b]]
     /\ IF k \in DOMAIN faces[b] THEN
          call' = [call EXCEPT ![b] = Done(font, faces[b][k])] /\ UNCHANGED faces
        ELSE IF hits # {} THEN
          \E s \in hits :
            /\ faces' = [faces EXCEPT ![b] = Put(@, k, shared[s])]
            /\ call' = [call EXCEPT ![b] = Done(font, shared[s])]
        ELSE
          /\ call' = [call EXCEPT ![b] = [step |-> IF font.program = None THEN "search" ELSE "decode",
                                          font |-> font]]
          /\ UNCHANGED faces
     /\ UNCHANGED <<document, at, shared, fallback, provided, opened, recycled, first>>

UseFont(b, font) ==
  LET k == Key(b, font)
      s == <<at[b], k>>
  IN /\ at[b] # Nowhere /\ call[b].step \in {"idle", "done"} /\ font \in document[at[b]]
     /\ \/ /\ k \in DOMAIN faces[b]
           /\ call' = [call EXCEPT ![b] = Done(font, faces[b][k])]
           /\ UNCHANGED faces
        \/ /\ k \notin DOMAIN faces[b] /\ s \in DOMAIN shared
           /\ faces' = [faces EXCEPT ![b] = Put(@, k, shared[s])]
           /\ call' = [call EXCEPT ![b] = Done(font, shared[s])]
        \/ /\ k \notin DOMAIN faces[b] /\ s \notin DOMAIN shared
           /\ call' = [call EXCEPT ![b] =
                         [step |-> IF font.program = None THEN "search" ELSE "decode", font |-> font]]
           /\ UNCHANGED faces
     /\ UNCHANGED <<document, at, shared, fallback, provided, opened, recycled, first>>

\* The program is decoded and stored, or damaged and a substitute is searched for.
Decode(b) ==
  /\ call[b].step = "decode"
  /\ LET font == call[b].font IN
       \/ /\ ~font.damaged
          /\ shared' = Put(shared, <<at[b], KeyOf(b)>>, font.program)
          /\ faces' = [faces EXCEPT ![b] = Put(@, KeyOf(b), font.program)]
          /\ call' = [call EXCEPT ![b] = Done(font, font.program)]
       \/ /\ font.damaged
          /\ call' = [call EXCEPT ![b].step = "search"]
          /\ UNCHANGED <<shared, faces>>
  /\ UNCHANGED <<document, at, fallback, provided, opened, recycled, first>>

\* What a search leaves its back end.
Draw(b, face) ==
  /\ faces' = IF face = None THEN faces ELSE [faces EXCEPT ![b] = Put(@, KeyOf(b), face)]
  /\ call' = [call EXCEPT ![b] = Done(call[b].font, face)]

\* load_fallback_font_with_hint: a search is remembered, in vain or not.
Search(b) ==
  /\ call[b].step = "search"
  /\ LET k == KeyOf(b) IN
       /\ first' = IF k \in DOMAIN first THEN first ELSE Put(first, k, Len(provided))
       /\ \/ /\ k \notin DOMAIN fallback
             /\ call' = [call EXCEPT ![b].step = "probe"]
             /\ UNCHANGED faces
          \/ /\ k \in DOMAIN fallback
             /\ Draw(b, fallback[k])
  /\ UNCHANGED <<document, at, shared, fallback, provided, opened, recycled>>

\* The name that category and style are read from: Blend2D has none but the key.
Hint(b, font) ==
  IF b \in Blend2D \/ font.base = "" THEN Reads[b][Key(b, font)] ELSE Reads[b][font.base]

\* LightVG corrects what the name says by the flags of the FontDescriptor.
Category(b, font) ==
  LET c == Hint(b, font).category IN
  IF font.cjk THEN "cjk"
  ELSE IF b \notin LightVG \/ c \in {"symbol", "cjk"} THEN c
  ELSE IF "fixed" \in font.flags THEN "mono"
  ELSE IF "serif" \in font.flags /\ c = "sans" THEN "serif"
  ELSE c

OfCategory(fonts, c) == {i \in DOMAIN fonts : fonts[i].category = c}

\* find_best_match, of LightVG and ThorVG: the slant, then the nearest weight, of two at
\* the same distance the bolder for a bold font, then the first.  find_by_category, of
\* Blend2D: the first.
Best(fonts, b, font) ==
  LET all == OfCategory(fonts, Category(b, font))
      want == Hint(b, font)
      like == {i \in all : fonts[i].italic = want.italic}
      from == IF like = {} THEN all ELSE like
      far(i) == LET d == fonts[i].weight - want.weight IN IF d < 0 THEN -d ELSE d
      bolder(i, j) == fonts[i].weight > fonts[j].weight
      before(i, j) == \/ far(i) < far(j)
                      \/ far(i) = far(j) /\ IF want.weight >= 500 THEN bolder(i, j) ELSE bolder(j, i)
                      \/ fonts[i].weight = fonts[j].weight /\ i <= j
  IN IF b \in Blend2D THEN {i \in all : \A j \in all : i <= j}
     ELSE {i \in from : \A j \in from : before(i, j)}

\* The best match is the only one that is tried.
NoneProvided(b, font) ==
  \/ OfCategory(provided, Category(b, font)) = {}
  \/ \E i \in Best(provided, b, font) : ~provided[i].usable

\* The files of the back end's own lists: the category, then sans.
OnDiskFor(b, font) ==
  LET style == <<Hint(b, font).weight >= 600, Hint(b, font).italic>>
      own == OnDisk[b][Category(b, font), style]
      sans == OnDisk[b]["sans", style]
  IN IF own # "" THEN File(own) ELSE IF sans # "" THEN File(sans) ELSE None

Probe_FilesFirst(b) ==              \* mutant: files come before registered fonts
  /\ call[b].step = "probe"
  /\ LET font == call[b].font
         face == OnDiskFor(b, font)
     IN \/ /\ face # None
           /\ Draw(b, face) /\ fallback' = Put(fallback, KeyOf(b), face)
        \/ \E i \in Best(provided, b, font) :
             /\ face = None /\ provided[i].usable
             /\ Draw(b, Registered(i)) /\ UNCHANGED fallback
        \/ /\ face = None /\ NoneProvided(b, font)
           /\ Draw(b, face) /\ fallback' = Put(fallback, KeyOf(b), face)
  /\ UNCHANGED <<document, at, shared, provided, opened, recycled, first>>

Probe_Forgets(b) ==                 \* mutant: a search in vain is not remembered
  /\ call[b].step = "probe"
  /\ LET font == call[b].font
         c == Category(b, font)
         face == OnDiskFor(b, font)
     IN \/ \E i \in Best(provided, b, font) :
             /\ provided[i].usable
             /\ Draw(b, Registered(i)) /\ UNCHANGED fallback
        \/ /\ NoneProvided(b, font) /\ c \in Embedded[b]
           /\ Draw(b, CompiledIn(c)) /\ UNCHANGED fallback
        \/ /\ NoneProvided(b, font) /\ c \notin Embedded[b]
           /\ Draw(b, face)
           /\ fallback' = IF face = None THEN fallback ELSE Put(fallback, KeyOf(b), face)
  /\ UNCHANGED <<document, at, shared, provided, opened, recycled, first>>

\* Registered fonts and those compiled in are drawn and not remembered; the first file
\* that is found is, and that none was.
Probe(b) ==
  /\ call[b].step = "probe"
  /\ LET font == call[b].font
         c == Category(b, font)
         face == OnDiskFor(b, font)
     IN \/ \E i \in Best(provided, b, font) :
             /\ provided[i].usable
             /\ Draw(b, Registered(i)) /\ UNCHANGED fallback
        \/ /\ NoneProvided(b, font) /\ c \in Embedded[b]
           /\ Draw(b, CompiledIn(c)) /\ UNCHANGED fallback
        \/ /\ NoneProvided(b, font) /\ c \notin Embedded[b]
           /\ Draw(b, face) /\ fallback' = Put(fallback, KeyOf(b), face)
  /\ UNCHANGED <<document, at, shared, provided, opened, recycled, first>>

Load(b) == Decode(b) \/ Search(b) \/ Probe(b)

Next ==
  \/ \E a \in Addresses, d \in Docs : Open(a, d)
  \/ \E a \in Addresses : Close(a)
  \/ \E b \in Backends, a \in Addresses : Attach(b, a)
  \/ \E blob \in Blobs : RegisterFont(blob)
  \/ \E b \in Backends : at[b] # Nowhere /\ \E font \in document[at[b]] : UseFont(b, font)
  \/ \E b \in Backends : Load(b)

Spec == Init /\ [][Next]_vars

---------------------------------------------------------------------------
AllFonts == UNION Docs

Drawn(b) == call[b].step = "done"

TypeOK ==
  /\ document \in [Addresses -> Docs \union {{}}]
  /\ at \in [Backends -> Addresses \union {Nowhere}]
  /\ \A b \in Backends :
       /\ call[b].step \in {"idle", "decode", "search", "probe", "done"}
       /\ call[b].step # "idle" => at[b] # Nowhere /\ call[b].font \in document[at[b]]
  /\ \A s \in DOMAIN shared : s[1] \in Addresses /\ shared[s].kind = "program"
  /\ \A k \in DOMAIN fallback : fallback[k].kind \in {"file", "none"}
  /\ recycled \subseteq Addresses

\* The key of a font is its own in the document.
KeyIsOwn(b, font) == \A g \in document[at[b]] : Key(b, g) = Key(b, font) => g = font

\* A font that is embedded is drawn with its own program, whatever other documents and
\* back ends loaded before and at the same time, where the back end's keys tell the
\* fonts of the document apart and the address had no document before.
OwnFaces ==
  \A b \in Backends :
    Drawn(b) /\ at[b] \notin recycled /\ KeyIsOwn(b, call[b].font)
      /\ call[b].font.program # None /\ ~call[b].font.damaged
    => call[b].face = call[b].font.program

\* Back ends and the fonts, of any document, that they search for under a key.
Seekers(k) ==
  {u \in Backends \X AllFonts :
     (u[2].program = None \/ u[2].damaged) /\ Key(u[1], u[2]) = k}

AllUsable(c) == \A i \in OfCategory(provided, c) : provided[i].usable

\* When the key was first searched for, a font was registered that this seeker can use,
\* and none that it cannot came since.
InTime(k, u) ==
  LET c == Category(u[1], u[2]) IN
  AllUsable(c) /\ \E i \in OfCategory(provided, c) : i <= first[k]

\* The file, or nothing, that a seeker of the key chooses for want of a registered font.
FitsFile(k, face) ==
  \E u \in Seekers(k) :
    /\ Category(u[1], u[2]) \notin Embedded[u[1]]
    /\ face = OnDiskFor(u[1], u[2]) /\ ~InTime(k, u)

\* The font that is compiled into the back end, for want of a registered one.
FitsCompiled(b, k, face) ==
  \E f \in document[at[b]] :
    /\ <<b, f>> \in Seekers(k) /\ Category(b, f) \in Embedded[b]
    /\ face = CompiledIn(Category(b, f)) /\ ~InTime(k, <<b, f>>)

\* The font that the back end chose for a font of its document, of those registered at
\* some moment since the key was first searched for.
FitsRegistered(b, k, face) ==
  \E f \in document[at[b]], n \in first[k]..Len(provided) :
    /\ <<b, f>> \in Seekers(k) /\ face.kind = "registered"
    /\ face.of \in Best(SubSeq(provided, 1, n), b, f) /\ provided[face.of].usable

\* What is drawn for a font without a program fits its key, whichever back end searched
\* for it first, also when two search at once or a font is registered in between.  So a
\* font that is registered in time for every seeker is never passed over for a file.
SubstitutesSound ==
  /\ TypeOK
  /\ \A b \in Backends :
       LET k == KeyOf(b)
           face == call[b].face
       IN Drawn(b) /\ face.kind # "program" =>
            FitsFile(k, face) \/ FitsCompiled(b, k, face) \/ FitsRegistered(b, k, face)

\* Its seekers judge a key alike: one category, of which all registered fonts are usable
\* and none is compiled in, and one file, or none.
Alike(k) ==
  \A u, v \in Seekers(k) :
    LET c == Category(u[1], u[2]) IN
    /\ c = Category(v[1], v[2]) /\ c \notin Embedded[u[1]] /\ AllUsable(c)
    /\ OnDiskFor(u[1], u[2]) = OnDiskFor(v[1], v[2])

\* Where its seekers judge a key alike, all draw the same file, or nothing, or else all
\* draw registered fonts, although one searched before a font was registered and the
\* other after it, or both at once.
SubstitutesAgree ==
  \A b, c \in Backends :
    /\ Drawn(b) /\ Drawn(c) /\ KeyOf(b) = KeyOf(c) /\ Alike(KeyOf(b))
    /\ "program" \notin {call[b].face.kind, call[c].face.kind}
    => \/ call[b].face = call[c].face
       \/ call[b].face.kind = "registered" /\ call[c].face.kind = "registered"
=============================================================================
