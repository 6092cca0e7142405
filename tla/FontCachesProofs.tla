-------------------------- MODULE FontCachesProofs --------------------------
(***************************************************************************)
(* What the shared font caches guarantee for any documents, addresses,     *)
(* back ends and interleavings of their loads, registered fonts and files. *)
(*                                                                         *)
(* An embedded font is drawn with its own program: an entry of the cache   *)
(* of the process is of the document that lies at its address, unless      *)
(* another one lay there before.  A substitute is one that a back end      *)
(* searching for the key may choose, and where they all judge the key      *)
(* alike a file is drawn by all of them or by none.                        *)
(***************************************************************************)
EXTENDS FontCaches, TLAPS

\* No resource of a document has a name that another font file has as its identity.
NamesTellApart ==
  \A d \in Docs : \A f, g \in d :
    f.program # None /\ g.program # None /\ f.identity = g.name => f = g

Useless(f) == f.program = None \/ f.damaged

---------------------------------------------------------------------------
(* Where the back ends and their calls are. *)

Places ==
  /\ document \in [Addresses -> Docs \union {{}}]
  /\ at \in [Backends -> Addresses \union {Nowhere}]
  /\ faces = [b \in Backends |-> faces[b]]
  /\ call = [b \in Backends |-> call[b]]
  /\ recycled \subseteq Addresses
  /\ \A b \in Backends :
       /\ at[b] # Nowhere => document[at[b]] \in Docs /\ document[at[b]] # {}
       /\ at[b] = Nowhere => call[b].step = "idle" /\ DOMAIN faces[b] = {}
       /\ call[b].step \in {"idle", "decode", "search", "probe", "done"}
       /\ call[b].step # "idle" => call[b].font \in document[at[b]]
       /\ call[b].step \in {"decode", "search", "probe"} =>
            call[b] = [step |-> call[b].step, font |-> call[b].font]
       /\ call[b].step = "decode" => call[b].font.program # None
       /\ call[b].step \in {"search", "probe"} => Useless(call[b].font)

\* What the steps of a load share: only this back end's call and faces change.
Loads(b) ==
  /\ faces' = [faces EXCEPT ![b] = faces'[b]] /\ call' = [call EXCEPT ![b] = call'[b]]
  /\ at[b] # Nowhere /\ call'[b].font \in document[at[b]]
  /\ UNCHANGED <<document, at, provided, opened, recycled>>

LEMMA PlacesAfterLoad ==
  ASSUME Places, NEW b \in Backends, Loads(b),
         call'[b].step \in {"idle", "decode", "search", "probe", "done"},
         call'[b].step \in {"decode", "search", "probe"} =>
           call'[b] = [step |-> call'[b].step, font |-> call'[b].font],
         call'[b].step = "decode" => call'[b].font.program # None,
         call'[b].step \in {"search", "probe"} => Useless(call'[b].font)
  PROVE  Places'
  BY DEF Places, Loads

LEMMA PlacesAfterDone ==
  ASSUME Places, NEW b \in Backends, Loads(b), NEW font, NEW face, call'[b] = Done(font, face)
  PROVE  Places'
<1>1. call'[b].step = "done"
  BY DEF Done
<1> QED
  BY <1>1, PlacesAfterLoad

LEMMA PlacesAfterStep ==
  ASSUME Places, NEW b \in Backends, Loads(b), NEW font, NEW step \in {"decode", "search", "probe"},
         call'[b] = [step |-> step, font |-> font],
         step = "decode" => font.program # None, step # "decode" => Useless(font)
  PROVE  Places'
<1>1. call'[b].step = step /\ call'[b].font = font
  OBVIOUS
<1> QED
  BY <1>1, PlacesAfterLoad

LEMMA CallIsRecord ==
  ASSUME Places, NEW b \in Backends, call[b].step \in {"decode", "search", "probe"}, NEW step
  PROVE  LET next == [call[b] EXCEPT !.step = step]
         IN next = [step |-> step, font |-> call[b].font]
  BY DEF Places

\* The outcomes of a use of a font.
LEMMA UseFontCases ==
  ASSUME Places, NEW b \in Backends, NEW font, UseFont(b, font)
  PROVE  LET k == Key(b, font) IN
         /\ Loads(b) /\ call'[b].font = font /\ font \in document[at[b]]
         /\ UNCHANGED <<shared, fallback, first>>
         /\ \/ /\ k \in DOMAIN faces[b] /\ faces' = faces
               /\ call'[b] = Done(font, faces[b][k])
            \/ /\ <<at[b], k>> \in DOMAIN shared
               /\ faces'[b] = Put(faces[b], k, shared[<<at[b], k>>])
               /\ call'[b] = Done(font, shared[<<at[b], k>>])
            \/ /\ faces' = faces /\ font.program = None
               /\ call'[b] = [step |-> "search", font |-> font]
            \/ /\ faces' = faces /\ font.program # None
               /\ call'[b] = [step |-> "decode", font |-> font]
<1> DEFINE k == Key(b, font)
<1>1. CASE k \in DOMAIN faces[b] /\ call' = [call EXCEPT ![b] = Done(font, faces[b][k])] /\ faces' = faces
  BY <1>1 DEF UseFont, Loads, Places, Done
<1>2. CASE /\ k \notin DOMAIN faces[b] /\ <<at[b], k>> \in DOMAIN shared
           /\ faces' = [faces EXCEPT ![b] = Put(@, k, shared[<<at[b], k>>])]
           /\ call' = [call EXCEPT ![b] = Done(font, shared[<<at[b], k>>])]
  BY <1>2 DEF UseFont, Loads, Places, Done
<1>3. CASE /\ faces' = faces
           /\ call' = [call EXCEPT ![b] =
                [step |-> IF font.program = None THEN "search" ELSE "decode", font |-> font]]
  BY <1>3 DEF UseFont, Loads, Places
<1> QED
  BY <1>1, <1>2, <1>3 DEF UseFont

\* The outcomes of a decode.
LEMMA DecodeCases ==
  ASSUME Places, NEW b \in Backends, Decode(b)
  PROVE  LET font == call[b].font
             k == KeyOf(b)
         IN /\ Loads(b) /\ call'[b].font = font /\ font.program # None
            /\ UNCHANGED <<fallback, first>>
            /\ \/ /\ ~font.damaged /\ call'[b] = Done(font, font.program)
                  /\ faces'[b] = Put(faces[b], k, font.program)
                  /\ shared' = Put(shared, <<at[b], k>>, font.program)
               \/ /\ font.damaged /\ call'[b] = [step |-> "search", font |-> font]
                  /\ shared' = shared /\ faces' = faces
<1>1. at[b] # Nowhere /\ call[b].font \in document[at[b]] /\ call[b].font.program # None
  BY DEF Decode, Places
<1> DEFINE font == call[b].font
<1>2. CASE /\ ~font.damaged
           /\ shared' = Put(shared, <<at[b], KeyOf(b)>>, font.program)
           /\ faces' = [faces EXCEPT ![b] = Put(@, KeyOf(b), font.program)]
           /\ call' = [call EXCEPT ![b] = Done(font, font.program)]
  <2>1. /\ faces'[b] = Put(faces[b], KeyOf(b), font.program)
        /\ call'[b] = Done(font, font.program) /\ call'[b].font = font
    BY <1>2 DEF Places, Done
  <2>2. Loads(b)
    BY <1>1, <1>2, <2>1 DEF Decode, Loads
  <2> QED
    BY <1>1, <1>2, <2>1, <2>2 DEF Decode
<1>3. CASE /\ font.damaged /\ call' = [call EXCEPT ![b].step = "search"]
           /\ UNCHANGED <<shared, faces>>
  <2>1. call'[b] = [call[b] EXCEPT !.step = "search"] /\ faces'[b] = faces[b]
    BY <1>3 DEF Places
  <2>2. call'[b] = [step |-> "search", font |-> font]
    BY <2>1, CallIsRecord DEF Decode
  <2>3. faces' = [faces EXCEPT ![b] = faces'[b]] /\ call' = [call EXCEPT ![b] = call'[b]]
    BY <1>3, <2>1 DEF Places
  <2>4. Loads(b)
    BY <1>1, <2>2, <2>3 DEF Decode, Loads
  <2> QED
    BY <1>1, <1>3, <2>2, <2>4 DEF Decode
<1> QED
  BY <1>2, <1>3 DEF Decode

\* What a search draws.
LEMMA DrawCases ==
  ASSUME Places, NEW b \in Backends, call[b].step # "idle", NEW face, Draw(b, face),
         UNCHANGED <<document, at, provided, opened, recycled>>
  PROVE  /\ Loads(b) /\ call'[b] = Done(call[b].font, face) /\ call'[b].font = call[b].font
         /\ faces'[b] = IF face = None THEN faces[b] ELSE Put(faces[b], KeyOf(b), face)
<1> DEFINE new == IF face = None THEN faces[b] ELSE Put(faces[b], KeyOf(b), face)
<1>1. at[b] # Nowhere /\ call[b].font \in document[at[b]]
  BY DEF Places
<1>2. call' = [call EXCEPT ![b] = Done(call[b].font, face)]
  BY DEF Draw
<1>3. faces' = [faces EXCEPT ![b] = new]
  <2>1. CASE face = None
    BY <2>1 DEF Draw, Places
  <2>2. CASE face # None
    BY <2>2 DEF Draw
  <2> QED
    BY <2>1, <2>2
<1>4. faces'[b] = new /\ call'[b] = Done(call[b].font, face) /\ call'[b].font = call[b].font
  BY <1>2, <1>3 DEF Places, Done
<1> HIDE DEF new
<1>5. Loads(b)
  BY <1>1, <1>2, <1>3, <1>4 DEF Loads
<1> USE DEF new
<1> QED
  BY <1>4, <1>5

\* The outcomes of a search in the shared cache.
LEMMA SearchCases ==
  ASSUME Places, NEW b \in Backends, Search(b)
  PROVE  LET font == call[b].font
             k == KeyOf(b)
         IN /\ Loads(b) /\ call'[b].font = font /\ Useless(font)
            /\ UNCHANGED <<shared, fallback>>
            /\ first' = IF k \in DOMAIN first THEN first ELSE Put(first, k, Len(provided))
            /\ \/ /\ k \notin DOMAIN fallback /\ faces' = faces
                  /\ call'[b] = [step |-> "probe", font |-> font]
               \/ /\ k \in DOMAIN fallback /\ call'[b] = Done(font, fallback[k])
                  /\ faces'[b] = IF fallback[k] = None THEN faces[b] ELSE Put(faces[b], k, fallback[k])
<1>1. at[b] # Nowhere /\ call[b].font \in document[at[b]] /\ Useless(call[b].font)
  BY DEF Search, Places
<1>2. CASE KeyOf(b) \notin DOMAIN fallback
  <2>1. call'[b] = [call[b] EXCEPT !.step = "probe"] /\ faces'[b] = faces[b] /\ faces' = faces
    BY <1>2 DEF Search, Places
  <2>2. call'[b] = [step |-> "probe", font |-> call[b].font]
    BY <2>1, CallIsRecord DEF Search
  <2>3. faces' = [faces EXCEPT ![b] = faces'[b]] /\ call' = [call EXCEPT ![b] = call'[b]]
    BY <1>2, <2>1 DEF Search, Places
  <2>4. Loads(b)
    BY <1>1, <2>2, <2>3 DEF Search, Loads
  <2> QED
    BY <1>1, <1>2, <2>1, <2>2, <2>4 DEF Search
<1>3. CASE KeyOf(b) \in DOMAIN fallback
  <2>1. /\ Draw(b, fallback[KeyOf(b)]) /\ call[b].step # "idle"
        /\ UNCHANGED <<document, at, provided, opened, recycled, shared, fallback>>
    BY <1>3 DEF Search
  <2> QED
    BY <1>1, <1>3, <2>1, DrawCases DEF Search
<1> QED
  BY <1>2, <1>3

\* The outcomes of a search among registered fonts, those compiled in and files.
Chosen(b, font, face) ==
  \/ /\ \E i \in Best(provided, b, font) : provided[i].usable /\ face = Registered(i)
     /\ fallback' = fallback
  \/ /\ NoneProvided(b, font) /\ Category(b, font) \in Embedded[b]
     /\ face = CompiledIn(Category(b, font)) /\ fallback' = fallback
  \/ /\ NoneProvided(b, font) /\ Category(b, font) \notin Embedded[b]
     /\ face = OnDiskFor(b, font) /\ fallback' = Put(fallback, Key(b, font), face)

LEMMA ProbeCases ==
  ASSUME Places, NEW b \in Backends, Probe(b)
  PROVE  LET font == call[b].font
             k == KeyOf(b)
         IN /\ Loads(b) /\ call'[b].font = font /\ Useless(font) /\ UNCHANGED <<shared, first>>
            /\ \E face : /\ call'[b] = Done(font, face) /\ Chosen(b, font, face)
                         /\ faces'[b] = IF face = None THEN faces[b] ELSE Put(faces[b], k, face)
<1>1. /\ call[b].step # "idle" /\ Useless(call[b].font)
      /\ UNCHANGED <<document, at, shared, provided, opened, recycled, first>>
  BY DEF Probe, Places
<1>2. PICK face : Draw(b, face) /\ Chosen(b, call[b].font, face)
  BY DEF Probe, Chosen, KeyOf
<1> QED
  BY <1>1, <1>2, DrawCases

\* Every step keeps where the back ends are.
LEMMA NextPlaces == Places /\ [Next]_vars => Places'
<1> SUFFICES ASSUME Places, [Next]_vars PROVE Places'
  OBVIOUS
<1>1. ASSUME NEW a \in Addresses, NEW d \in Docs, Open(a, d) PROVE Places'
  <2>1. \A b \in Backends : at[b] # a
    BY <1>1, AddressAssumption DEF Open, Places, Nowhere
  <2> QED
    BY <1>1, <2>1 DEF Open, Places
<1>2. ASSUME NEW a \in Addresses, Close(a) PROVE Places'
  <2>1. /\ document' \in [Addresses -> Docs \union {{}}]
        /\ at' \in [Backends -> Addresses \union {Nowhere}]
        /\ faces' = [b \in Backends |-> faces'[b]] /\ call' = [b \in Backends |-> call'[b]]
        /\ recycled' = recycled
    BY <1>2 DEF Close, Places
  <2> DEFINE Stays(b) ==
        /\ at'[b] # Nowhere => document'[at'[b]] \in Docs /\ document'[at'[b]] # {}
        /\ at'[b] = Nowhere => call'[b].step = "idle" /\ DOMAIN faces'[b] = {}
        /\ call'[b].step \in {"idle", "decode", "search", "probe", "done"}
        /\ call'[b].step # "idle" => call'[b].font \in document'[at'[b]]
        /\ call'[b].step \in {"decode", "search", "probe"} =>
             call'[b] = [step |-> call'[b].step, font |-> call'[b].font]
        /\ call'[b].step = "decode" => call'[b].font.program # None
        /\ call'[b].step \in {"search", "probe"} => Useless(call'[b].font)
  <2>2. ASSUME NEW b \in Backends PROVE Stays(b)
    <3>1. CASE at[b] = a
      <4>1. at'[b] = Nowhere /\ call'[b] = Idle /\ DOMAIN faces'[b] = {}
        BY <1>2, <3>1 DEF Close, Places, Empty
      <4>2. call'[b].step = "idle"
        BY <4>1 DEF Idle
      <4> QED
        BY <4>1, <4>2
    <3>2. CASE at[b] # a
      <4>1. at'[b] = at[b] /\ call'[b] = call[b] /\ faces'[b] = faces[b]
        BY <1>2, <3>2 DEF Close, Places
      <4>2. at[b] # Nowhere => document'[at[b]] = document[at[b]]
        BY <1>2, <3>2 DEF Close, Places
      <4>3. call[b].step # "idle" => at[b] # Nowhere
        BY DEF Places
      <4> QED
        BY <4>1, <4>2, <4>3 DEF Places
    <3> QED
      BY <3>1, <3>2
  <2> QED
    BY <2>1, <2>2 DEF Places
<1>3. ASSUME NEW b \in Backends, NEW a \in Addresses, Attach(b, a) PROVE Places'
  BY <1>3, AddressAssumption DEF Attach, Places, Nowhere
<1>4. ASSUME NEW c, RegisterFont(c) PROVE Places'
  BY <1>4 DEF RegisterFont, Places
<1>5. ASSUME NEW b \in Backends, NEW font, UseFont(b, font) PROVE Places'
  <2>1. Loads(b) /\ call'[b].font = font
    BY <1>5, UseFontCases
  <2>2. \/ \E face : call'[b] = Done(font, face)
        \/ call'[b] = [step |-> "search", font |-> font] /\ Useless(font)
        \/ call'[b] = [step |-> "decode", font |-> font] /\ font.program # None
    BY <1>5, UseFontCases DEF Useless
  <2> QED
    BY <2>1, <2>2, PlacesAfterDone, PlacesAfterStep
<1>6. ASSUME NEW b \in Backends, Decode(b) PROVE Places'
  <2>1. Loads(b) /\ call'[b].font = call[b].font
    BY <1>6, DecodeCases
  <2>2. \/ \E face : call'[b] = Done(call[b].font, face)
        \/ call'[b] = [step |-> "search", font |-> call[b].font] /\ Useless(call[b].font)
    BY <1>6, DecodeCases DEF Useless
  <2> QED
    BY <2>1, <2>2, PlacesAfterDone, PlacesAfterStep
<1>7. ASSUME NEW b \in Backends, Search(b) PROVE Places'
  <2>1. Loads(b) /\ call'[b].font = call[b].font /\ Useless(call[b].font)
    BY <1>7, SearchCases
  <2>2. \/ \E face : call'[b] = Done(call[b].font, face)
        \/ call'[b] = [step |-> "probe", font |-> call[b].font]
    BY <1>7, SearchCases
  <2> QED
    BY <2>1, <2>2, PlacesAfterDone, PlacesAfterStep
<1>8. ASSUME NEW b \in Backends, Probe(b) PROVE Places'
  <2>1. Loads(b) /\ \E face : call'[b] = Done(call[b].font, face)
    BY <1>8, ProbeCases
  <2> QED
    BY <2>1, PlacesAfterDone
<1>9. CASE UNCHANGED vars
  BY <1>9 DEF vars, Places
<1> QED
  BY <1>1, <1>2, <1>3, <1>4, <1>5, <1>6, <1>7, <1>8, <1>9 DEF Next, Load

LEMMA InitPlaces == Init => Places
  BY DEF Init, Places, Empty, Idle

---------------------------------------------------------------------------
(* Embedded fonts. *)

\* A face is the program of a font that one of the back ends gives the key.
OwnProgram(a, k, face) ==
  \E c \in Backends : \E g \in document[a] :
    g.program # None /\ ~g.damaged /\ Key(c, g) = k /\ face = g.program

\* The key stands for a font that needs a substitute.
Stands(b, k) == \E g \in document[at[b]] : Useless(g) /\ Key(b, g) = k

Sound(b, k, face) == OwnProgram(at[b], k, face) \/ Stands(b, k)

SharedOwned ==
  \A s \in DOMAIN shared :
    /\ s[1] \in Addresses /\ shared[s].kind = "program"
    /\ s[1] \notin recycled /\ document[s[1]] # {} => OwnProgram(s[1], s[2], shared[s])

FacesOwned ==
  \A b \in Backends : at[b] \notin recycled =>
    /\ \A k \in DOMAIN faces[b] : Sound(b, k, faces[b][k])
    /\ call[b].step = "done" => Sound(b, KeyOf(b), call[b].face)

OwnInv == Places /\ SharedOwned /\ FacesOwned

\* A step of a load keeps OwnInv when what it leaves its back end is sound.
LEMMA OwnAfterLoad ==
  ASSUME OwnInv, Places', NEW b \in Backends, Loads(b), SharedOwned',
         at[b] \notin recycled =>
           /\ \A k \in DOMAIN faces'[b] : Sound(b, k, faces'[b][k])
           /\ call'[b].step = "done" => Sound(b, Key(b, call'[b].font), call'[b].face)
  PROVE  OwnInv'
<1>1. \A c \in Backends : c # b => faces'[c] = faces[c] /\ call'[c] = call[c]
  BY DEF Loads, OwnInv, Places
<1>2. document' = document /\ at' = at /\ recycled' = recycled
  BY DEF Loads
<1>3. FacesOwned'
  BY <1>1, <1>2 DEF OwnInv, FacesOwned, Sound, OwnProgram, Stands, KeyOf
<1> QED
  BY <1>3 DEF OwnInv

LEMMA NextOwn == OwnInv /\ [Next]_vars => OwnInv'
<1> SUFFICES ASSUME OwnInv, [Next]_vars PROVE OwnInv'
  OBVIOUS
<1>0. Places /\ Places' /\ \A a \in Addresses : a # Nowhere
  BY NextPlaces, AddressAssumption DEF OwnInv, Nowhere
<1>1. ASSUME NEW a \in Addresses, NEW d \in Docs, Open(a, d) PROVE OwnInv'
  <2>1. /\ \A b \in Backends : at[b] # a
        /\ \A x \in Addresses : x # a => document'[x] = document[x]
        /\ document[a] = {} /\ UNCHANGED <<at, faces, call, shared>>
        /\ recycled \subseteq recycled'
    BY <1>0, <1>1 DEF Open, Places
  <2>2. SharedOwned'
    <3>1. \A s \in DOMAIN shared : s[1] = a => a \in recycled'
      BY <1>1 DEF Open
    <3> QED
      BY <2>1, <3>1 DEF OwnInv, SharedOwned, OwnProgram
  <2>3. FacesOwned'
    <3>1. ASSUME NEW b \in Backends, at[b] \notin recycled'
          PROVE  /\ \A k \in DOMAIN faces[b] : Sound(b, k, faces[b][k])'
                 /\ call[b].step = "done" => Sound(b, KeyOf(b), call[b].face)'
      <4>1. at[b] \notin recycled /\ at'[b] = at[b] /\ at[b] # a
        BY <2>1, <3>1
      <4>2. CASE at[b] = Nowhere
        BY <1>0, <4>2 DEF Places
      <4>3. CASE at[b] # Nowhere
        <5>1. document'[at[b]] = document[at[b]]
          BY <1>0, <2>1, <4>1, <4>3 DEF Places
        <5> QED
          BY <2>1, <3>1, <4>1, <5>1 DEF OwnInv, FacesOwned, Sound, OwnProgram, Stands, KeyOf
      <4> QED
        BY <4>2, <4>3
    <3> QED
      BY <2>1, <3>1 DEF FacesOwned
  <2> QED
    BY <1>0, <2>2, <2>3 DEF OwnInv
<1>2. ASSUME NEW a \in Addresses, Close(a) PROVE OwnInv'
  <2>1. SharedOwned'
    BY <1>0, <1>2 DEF Close, OwnInv, SharedOwned, OwnProgram, Places
  <2>2. FacesOwned'
    <3>1. ASSUME NEW b \in Backends, at'[b] \notin recycled'
          PROVE  /\ \A k \in DOMAIN faces'[b] : Sound(b, k, faces[b][k])'
                 /\ call'[b].step = "done" => Sound(b, KeyOf(b), call[b].face)'
      <4>1. CASE at[b] = a
        BY <1>0, <1>2, <4>1 DEF Close, Places, Empty, Idle
      <4>2. CASE at[b] # a
        <5>1. at'[b] = at[b] /\ call'[b] = call[b] /\ faces'[b] = faces[b] /\ recycled' = recycled
          BY <1>0, <1>2, <4>2 DEF Close, Places
        <5>2. CASE at[b] = Nowhere
          BY <1>0, <5>1, <5>2 DEF Places
        <5>3. CASE at[b] # Nowhere
          <6>1. document'[at[b]] = document[at[b]]
            BY <1>0, <1>2, <4>2, <5>3 DEF Close, Places
          <6> QED
            BY <3>1, <5>1, <6>1 DEF OwnInv, FacesOwned, Sound, OwnProgram, Stands, KeyOf
        <5> QED
          BY <5>2, <5>3
      <4> QED
        BY <4>1, <4>2
    <3> QED
      BY <3>1 DEF FacesOwned
  <2> QED
    BY <1>0, <2>1, <2>2 DEF OwnInv
<1>3. ASSUME NEW b \in Backends, NEW a \in Addresses, Attach(b, a) PROVE OwnInv'
  <2>1. \A c \in Backends : at'[c] = at[c] \/ (c = b /\ DOMAIN faces[b] = {} /\ call[b].step = "idle")
    BY <1>0, <1>3 DEF Attach, Places
  <2> QED
    BY <1>0, <1>3, <2>1 DEF Attach, OwnInv, SharedOwned, FacesOwned, Sound, OwnProgram, Stands, KeyOf
<1>4. CASE UNCHANGED vars \/ \E c : RegisterFont(c)
  <2>1. UNCHANGED <<document, faces, at, call, shared, recycled>>
    BY <1>4 DEF vars, RegisterFont
  <2> QED
    BY <1>0, <2>1 DEF OwnInv, SharedOwned, FacesOwned, Sound, OwnProgram, Stands, KeyOf
<1>5. ASSUME NEW b \in Backends, NEW font, UseFont(b, font) PROVE OwnInv'
  <2> DEFINE k == Key(b, font)
  <2>1. Loads(b) /\ call'[b].font = font /\ font \in document[at[b]] /\ shared' = shared
    BY <1>0, <1>5, UseFontCases
  <2>2. SharedOwned'
    BY <2>1 DEF OwnInv, SharedOwned, Loads, OwnProgram
  <2>3. at[b] \in Addresses /\ document[at[b]] # {}
    BY <1>0, <2>1 DEF Loads, Places
  <2>4. at[b] \notin recycled => \A x \in DOMAIN faces[b] : Sound(b, x, faces[b][x])
    BY DEF OwnInv, FacesOwned
  <2>5. CASE k \in DOMAIN faces[b] /\ faces' = faces /\ call'[b] = Done(font, faces[b][k])
    <3>1. call'[b].face = faces[b][k]
      BY <2>5 DEF Done
    <3> QED
      BY <1>0, <2>1, <2>2, <2>4, <2>5, <3>1, OwnAfterLoad
  <2>6. CASE /\ <<at[b], k>> \in DOMAIN shared
             /\ faces'[b] = Put(faces[b], k, shared[<<at[b], k>>])
             /\ call'[b] = Done(font, shared[<<at[b], k>>])
    <3>1. at[b] \notin recycled => Sound(b, k, shared[<<at[b], k>>])
      BY <2>3, <2>6 DEF OwnInv, SharedOwned, Sound
    <3>2. call'[b].face = shared[<<at[b], k>>]
      BY <2>6 DEF Done
    <3>3. at[b] \notin recycled => \A x \in DOMAIN faces'[b] : Sound(b, x, faces'[b][x])
      <4>1. /\ DOMAIN faces'[b] = DOMAIN faces[b] \union {k}
            /\ faces'[b][k] = shared[<<at[b], k>>]
            /\ \A x \in DOMAIN faces[b] : x # k => faces'[b][x] = faces[b][x]
        BY <2>6 DEF Put
      <4> HIDE DEF k
      <4> QED
        BY <2>4, <3>1, <4>1
    <3> HIDE DEF k
    <3>4. at[b] \notin recycled /\ call'[b].step = "done" => Sound(b, k, call'[b].face)
      BY <3>1, <3>2
    <3> QED
      BY <1>0, <2>1, <2>2, <3>3, <3>4, OwnAfterLoad DEF k
  <2>7. CASE /\ faces' = faces
             /\ \E step \in {"search", "decode"} : call'[b] = [step |-> step, font |-> font]
    <3>1. call'[b].step # "done"
      BY <2>7
    <3> QED
      BY <1>0, <2>1, <2>2, <2>4, <2>7, <3>1, OwnAfterLoad
  <2> QED
    BY <1>0, <1>5, <2>5, <2>6, <2>7, UseFontCases
<1>6. ASSUME NEW b \in Backends, Decode(b) PROVE OwnInv'
  <2> DEFINE font == call[b].font
             k == KeyOf(b)
  <2>1. Loads(b) /\ call'[b].font = font /\ font.program # None /\ font \in document[at[b]]
    BY <1>0, <1>6, DecodeCases DEF Loads
  <2>2. at[b] \notin recycled => \A x \in DOMAIN faces[b] : Sound(b, x, faces[b][x])
    BY DEF OwnInv, FacesOwned
  <2>3. CASE /\ ~font.damaged /\ call'[b] = Done(font, font.program)
             /\ faces'[b] = Put(faces[b], k, font.program)
             /\ shared' = Put(shared, <<at[b], k>>, font.program)
    <3>1. OwnProgram(at[b], k, font.program)
      BY <2>1, <2>3 DEF OwnProgram, KeyOf
    <3>2. font.program.kind = "program" /\ at[b] \in Addresses
      <4>1. document[at[b]] \in Docs /\ at[b] \in Addresses
        BY <1>0, <2>1 DEF Loads, Places
      <4>2. font \in UNION Docs
        BY <2>1, <4>1
      <4> QED
        BY <2>1, <4>1, <4>2, DocsAssumption
    <3>3. SharedOwned'
      <4>1. document' = document /\ recycled' = recycled
        BY <2>1 DEF Loads
      <4>2. <<at[b], k>>[1] = at[b] /\ <<at[b], k>>[2] = k
        OBVIOUS
      <4> DEFINE s0 == <<at[b], k>>
                 p == font.program
      <4>4. shared' = Put(shared, s0, p)
        BY <2>3
      <4> HIDE DEF k, font, s0, p
      <4>5. /\ DOMAIN shared' = DOMAIN shared \union {s0} /\ shared'[s0] = p
            /\ \A x \in DOMAIN shared : x # s0 => shared'[x] = shared[x]
        BY <4>4 DEF Put
      <4>3. s0 = <<at[b], k>> /\ p = font.program
        BY DEF s0, p
      <4>6. ASSUME NEW s \in DOMAIN shared'
            PROVE  /\ s[1] \in Addresses /\ shared'[s].kind = "program"
                   /\ s[1] \notin recycled /\ document[s[1]] # {} => OwnProgram(s[1], s[2], shared'[s])
        <5>1. CASE s = s0
          BY <3>1, <3>2, <4>2, <4>3, <4>5, <5>1
        <5>2. CASE s # s0
          BY <4>5, <5>2 DEF OwnInv, SharedOwned
        <5> QED
          BY <5>1, <5>2
      <4> QED
        BY <4>1, <4>6 DEF SharedOwned, OwnProgram
    <3>4. at[b] \notin recycled => \A x \in DOMAIN faces'[b] : Sound(b, x, faces'[b][x])
      <4>1. /\ DOMAIN faces'[b] = DOMAIN faces[b] \union {k}
            /\ faces'[b][k] = font.program
            /\ \A x \in DOMAIN faces[b] : x # k => faces'[b][x] = faces[b][x]
        BY <2>3 DEF Put
      <4> HIDE DEF k, font
      <4> QED
        BY <2>2, <3>1, <4>1 DEF Sound
    <3>5. call'[b].face = font.program
      BY <2>3 DEF Done
    <3>6. Sound(b, Key(b, call'[b].font), call'[b].face)
      BY <2>1, <3>1, <3>5 DEF Sound, KeyOf
    <3> QED
      BY <1>0, <2>1, <3>3, <3>4, <3>6, OwnAfterLoad
  <2>4. CASE shared' = shared /\ faces' = faces /\ call'[b] = [step |-> "search", font |-> font]
    <3>1. SharedOwned'
      BY <2>1, <2>4 DEF OwnInv, SharedOwned, Loads, OwnProgram
    <3>2. call'[b].step # "done"
      BY <2>4
    <3> QED
      BY <1>0, <2>1, <2>2, <2>4, <3>1, <3>2, OwnAfterLoad
  <2> QED
    BY <1>0, <1>6, <2>3, <2>4, DecodeCases
<1>7. ASSUME NEW b \in Backends, Search(b) \/ Probe(b) PROVE OwnInv'
  <2> DEFINE font == call[b].font
             k == KeyOf(b)
  <2>1. /\ Loads(b) /\ call'[b].font = font /\ Useless(font) /\ font \in document[at[b]]
        /\ shared' = shared
    BY <1>0, <1>7, SearchCases, ProbeCases DEF Loads
  <2>2. SharedOwned'
    BY <2>1 DEF OwnInv, SharedOwned, Loads, OwnProgram
  <2>3. \A face : Sound(b, k, face)
    BY <2>1 DEF Sound, Stands, KeyOf
  <2>4. faces'[b] = faces[b] \/ \E face : faces'[b] = Put(faces[b], k, face)
    BY <1>0, <1>7, SearchCases, ProbeCases
  <2>5. at[b] \notin recycled => \A x \in DOMAIN faces'[b] : Sound(b, x, faces'[b][x])
    <3>1. CASE faces'[b] = faces[b]
      BY <3>1 DEF OwnInv, FacesOwned
    <3>2. ASSUME NEW face, faces'[b] = Put(faces[b], k, face)
          PROVE  at[b] \notin recycled => \A x \in DOMAIN faces'[b] : Sound(b, x, faces'[b][x])
      <4>1. /\ DOMAIN faces'[b] = DOMAIN faces[b] \union {k}
            /\ \A x \in DOMAIN faces[b] : x # k => faces'[b][x] = faces[b][x]
        BY <3>2 DEF Put
      <4> HIDE DEF k
      <4> QED
        BY <2>3, <4>1 DEF OwnInv, FacesOwned
    <3> QED
      BY <2>4, <3>1, <3>2
  <2>6. Sound(b, Key(b, call'[b].font), call'[b].face)
    BY <2>1, <2>3 DEF KeyOf
  <2> QED
    BY <1>0, <2>1, <2>2, <2>5, <2>6, OwnAfterLoad
<1> QED
  BY <1>1, <1>2, <1>3, <1>4, <1>5, <1>6, <1>7 DEF Next, Load

LEMMA InitOwn == Init => OwnInv
  BY InitPlaces DEF Init, OwnInv, SharedOwned, FacesOwned, Empty, Idle

\* An embedded font is drawn with its own program where no document lay at the address of
\* its own before, where the back end's key is of this font alone, and where no name of
\* a font is the identity of another.
THEOREM EmbeddedFontsAreOwn ==
  ASSUME NamesTellApart
  PROVE  Spec => []OwnFaces
<1>1. ASSUME OwnInv PROVE OwnFaces
  <2> SUFFICES ASSUME NEW b \in Backends, Drawn(b), at[b] \notin recycled,
                      KeyIsOwn(b, call[b].font), call[b].font.program # None,
                      ~call[b].font.damaged
               PROVE  call[b].face = call[b].font.program
    BY DEF OwnFaces
  <2> DEFINE font == call[b].font
  <2>1. font \in document[at[b]] /\ document[at[b]] \in Docs
    BY <1>1 DEF OwnInv, Places, Drawn
  <2>2. ~Stands(b, KeyOf(b))
    BY DEF Stands, KeyIsOwn, Useless, KeyOf
  <2>3. OwnProgram(at[b], KeyOf(b), call[b].face)
    BY <1>1, <2>2 DEF OwnInv, FacesOwned, Sound, Drawn
  <2>4. PICK c \in Backends : \E g \in document[at[b]] :
          g.program # None /\ Key(c, g) = KeyOf(b) /\ call[b].face = g.program
    BY <2>3 DEF OwnProgram
  <2>5. PICK g \in document[at[b]] :
          g.program # None /\ Key(c, g) = KeyOf(b) /\ call[b].face = g.program
    BY <2>4
  <2>6. CASE Key(b, g) = KeyOf(b)
    BY <2>5, <2>6 DEF KeyIsOwn, KeyOf
  <2>7. CASE Key(b, g) # KeyOf(b)
    <3>1. font.identity = g.name \/ g.identity = font.name
      BY <2>5, <2>7 DEF Key, KeyOf
    <3> QED
      BY <2>1, <2>5, <3>1 DEF NamesTellApart
  <2> QED
    BY <2>6, <2>7
<1> QED
  BY InitOwn, NextOwn, <1>1, PTL DEF Spec

---------------------------------------------------------------------------
(* Substitutes.  A fallback that is remembered was chosen by a seeker of   *)
(* its key for want of a registered font, and fonts that are registered    *)
(* later change neither that nor the choices that were made before.  Where *)
(* the seekers judge alike, none is registered while one of them searches, *)
(* so a file is remembered only before the first of them draws a           *)
(* registered font, and found by all that search afterwards.               *)

Fits(b, k, face) ==
  face.kind # "program" =>
    k \in DOMAIN first /\ (FitsFile(k, face) \/ FitsCompiled(b, k, face) \/ FitsRegistered(b, k, face))

Agrees(k, face) ==
  /\ face.kind \in {"file", "none"} => k \in DOMAIN fallback
  /\ k \in DOMAIN fallback /\ Alike(k) => face.kind # "registered"

\* What a back end holds under a key is remembered if it is a file, and fits.
FacesFit ==
  \A b \in Backends :
    /\ \A k \in DOMAIN faces[b] : Fits(b, k, faces[b][k]) /\ Agrees(k, faces[b][k])
    /\ call[b].step = "done" => Fits(b, KeyOf(b), call[b].face) /\ Agrees(KeyOf(b), call[b].face)

FallbackFits ==
  \A k \in DOMAIN fallback : k \in DOMAIN first /\ FitsFile(k, fallback[k])

Counted ==
  /\ provided \in Seq(Blobs)
  /\ \A k \in DOMAIN first : first[k] \in 0..Len(provided)

\* A back end still searches for a key that is remembered only if nothing is registered
\* for it.
ProbesFit ==
  \A b \in Backends : call[b].step = "probe" =>
    /\ KeyOf(b) \in DOMAIN first
    /\ KeyOf(b) \in DOMAIN fallback /\ Alike(KeyOf(b)) =>
         OfCategory(provided, Category(b, call[b].font)) = {}

SubInv == Places /\ SharedOwned /\ Counted /\ FallbackFits /\ ProbesFit /\ FacesFit

\* A font that a back end searches for makes it a seeker of its key.
LEMMA SeeksItsKey ==
  ASSUME Places, NEW b \in Backends, at[b] # Nowhere, NEW f \in document[at[b]], Useless(f)
  PROVE  <<b, f>> \in Seekers(Key(b, f))
<1>1. f \in AllFonts
  BY DEF Places, AllFonts
<1> QED
  BY <1>1 DEF Seekers, Useless

\* A best match is of the category.
LEMMA BestIsOfCategory ==
  ASSUME NEW fonts, NEW b, NEW f, NEW i \in Best(fonts, b, f)
  PROVE  i \in OfCategory(fonts, Category(b, f))
  BY DEF Best

\* A seeker that is left without a registered font has none that came in time.
LEMMA NoneInTime ==
  ASSUME NEW b, NEW f, NoneProvided(b, f), NEW k
  PROVE  ~InTime(k, <<b, f>>)
<1>1. CASE OfCategory(provided, Category(b, f)) = {}
  BY <1>1 DEF InTime
<1>2. CASE \E i \in Best(provided, b, f) : ~provided[i].usable
  <2>1. \E i \in OfCategory(provided, Category(b, f)) : ~provided[i].usable
    BY <1>2, BestIsOfCategory
  <2> QED
    BY <2>1 DEF InTime, AllUsable
<1> QED
  BY <1>1, <1>2 DEF NoneProvided

\* Where the seekers of a key judge alike, one that finds none that is usable finds none.
LEMMA NoneAtAll ==
  ASSUME NEW k, Alike(k), NEW b, NEW f, <<b, f>> \in Seekers(k), NoneProvided(b, f)
  PROVE  OfCategory(provided, Category(b, f)) = {}
<1>1. AllUsable(Category(b, f))
  BY DEF Alike
<1>2. \A i \in Best(provided, b, f) : provided[i].usable
  BY <1>1, BestIsOfCategory DEF AllUsable
<1> QED
  BY <1>2 DEF NoneProvided

LEMMA SameCategory ==
  ASSUME NEW k, Alike(k), NEW u \in Seekers(k), NEW v \in Seekers(k)
  PROVE  Category(u[1], u[2]) = Category(v[1], v[2])
  BY DEF Alike

LEMMA FileKinds ==
  ASSUME NEW k, NEW face, FitsFile(k, face)
  PROVE  face.kind \in {"file", "none"}
<1>1. \A b, f : OnDiskFor(b, f).kind \in {"file", "none"}
  BY DEF OnDiskFor, File, None
<1> QED
  BY <1>1 DEF FitsFile

\* While first only grows and a back end keeps its document, what fits still does.
LEMMA FitsStays ==
  ASSUME NEW b, NEW k, NEW face, Fits(b, k, face), provided' = provided,
         \A x \in DOMAIN first : x \in DOMAIN first' /\ first'[x] = first[x],
         document'[at'[b]] = document[at[b]]
  PROVE  Fits(b, k, face)'
<1> SUFFICES ASSUME face.kind # "program"
             PROVE  k \in DOMAIN first' /\ (FitsFile(k, face)' \/ FitsCompiled(b, k, face)'
                                            \/ FitsRegistered(b, k, face)')
  BY DEF Fits
<1>1. k \in DOMAIN first /\ first'[k] = first[k] /\ k \in DOMAIN first'
  BY DEF Fits
<1>2. \A u : InTime(k, u)' <=> InTime(k, u)
  BY <1>1 DEF InTime, AllUsable
<1>3. CASE FitsFile(k, face)
  BY <1>1, <1>2, <1>3 DEF FitsFile
<1>4. CASE FitsCompiled(b, k, face)
  BY <1>1, <1>2, <1>4 DEF FitsCompiled
<1>5. CASE FitsRegistered(b, k, face)
  BY <1>1, <1>5 DEF FitsRegistered
<1> QED
  BY <1>1, <1>3, <1>4, <1>5 DEF Fits

LEMMA FileStays ==
  ASSUME NEW k \in DOMAIN first, NEW face, FitsFile(k, face), provided' = provided,
         \A x \in DOMAIN first : x \in DOMAIN first' /\ first'[x] = first[x]
  PROVE  FitsFile(k, face)'
<1>1. \A u : InTime(k, u)' <=> InTime(k, u)
  BY DEF InTime, AllUsable
<1> QED
  BY <1>1 DEF FitsFile

LEMMA AlikeStays ==
  ASSUME provided' = provided, NEW k
  PROVE  Alike(k)' <=> Alike(k)
  BY DEF Alike, AllUsable

\* The steps that load nothing and register nothing.
LEMMA SubApart ==
  ASSUME SubInv, Places', SharedOwned', UNCHANGED <<fallback, provided, first>>,
         \A b \in Backends :
           \/ /\ faces'[b] = faces[b] /\ call'[b] = call[b]
              /\ document'[at'[b]] = document[at[b]]
           \/ DOMAIN faces'[b] = {} /\ call'[b].step = "idle"
  PROVE  SubInv'
<1>1. Counted' /\ FallbackFits'
  BY FileStays DEF SubInv, Counted, FallbackFits
<1>2. ProbesFit'
  BY AlikeStays DEF SubInv, ProbesFit, KeyOf
<1>3. ASSUME NEW b \in Backends
      PROVE  /\ \A k \in DOMAIN faces'[b] : Fits(b, k, faces[b][k])' /\ Agrees(k, faces[b][k])'
             /\ call'[b].step = "done" =>
                  Fits(b, KeyOf(b), call[b].face)' /\ Agrees(KeyOf(b), call[b].face)'
  <2>1. CASE DOMAIN faces'[b] = {} /\ call'[b].step = "idle"
    BY <2>1
  <2>2. CASE /\ faces'[b] = faces[b] /\ call'[b] = call[b] /\ document'[at'[b]] = document[at[b]]
    <3>1. ASSUME NEW k, NEW face, Fits(b, k, face), Agrees(k, face)
          PROVE  Fits(b, k, face)' /\ Agrees(k, face)'
      BY <2>2, <3>1, FitsStays, AlikeStays DEF Agrees
    <3>2. ASSUME NEW k \in DOMAIN faces[b] PROVE Fits(b, k, faces[b][k])' /\ Agrees(k, faces[b][k])'
      <4>1. Fits(b, k, faces[b][k]) /\ Agrees(k, faces[b][k])
        BY DEF SubInv, FacesFit
      <4>2. \A face : face = faces[b][k] => Fits(b, k, face)' /\ Agrees(k, face)'
        BY <3>1, <4>1
      <4> QED
        BY <2>2, <4>2 DEF Fits, Agrees, FitsFile, FitsCompiled, FitsRegistered
    <3>3. ASSUME call[b].step = "done"
          PROVE  Fits(b, KeyOf(b), call[b].face)' /\ Agrees(KeyOf(b), call[b].face)'
      <4>1. Fits(b, KeyOf(b), call[b].face) /\ Agrees(KeyOf(b), call[b].face)
        BY <3>3 DEF SubInv, FacesFit
      <4>2. \A k, face : k = KeyOf(b) /\ face = call[b].face => Fits(b, k, face)' /\ Agrees(k, face)'
        BY <3>1, <4>1
      <4> QED
        BY <2>2, <4>2 DEF KeyOf, Fits, Agrees, FitsFile, FitsCompiled, FitsRegistered
    <3> QED
      BY <2>2, <3>2, <3>3
  <2> QED
    BY <2>1, <2>2
<1>4. FacesFit'
  BY <1>3 DEF FacesFit
<1> QED
  BY <1>1, <1>2, <1>4 DEF SubInv

Held(b, k, face) == Fits(b, k, face) /\ Agrees(k, face)

\* A step of a load keeps FacesFit when what it draws is fit to be held, and what the
\* others hold stays so.
LEMMA FacesAfterLoad ==
  ASSUME SubInv, Places', NEW b \in Backends, Loads(b), NEW k, NEW face,
         k = Key(b, call'[b].font),
         \A c \in Backends : \A x, y : Held(c, x, y) => Held(c, x, y)',
         \/ faces'[b] = faces[b]
         \/ faces'[b] = Put(faces[b], k, face) /\ call'[b].step = "done",
         call'[b].step = "done" => call'[b].face = face /\ Held(b, k, face)'
  PROVE  FacesFit'
<1>1. \A c \in Backends : c # b => faces'[c] = faces[c] /\ call'[c] = call[c]
  BY DEF Loads, SubInv, Places
<1>2. ASSUME NEW c \in Backends, NEW x \in DOMAIN faces'[c], NEW y, y = faces'[c][x]
      PROVE  Held(c, x, y)'
  <2>1. CASE c # b \/ faces'[b] = faces[b]
    <3>1. faces'[c] = faces[c]
      BY <1>1, <2>1
    <3>2. Held(c, x, y)
      BY <1>2, <3>1 DEF SubInv, FacesFit, Held
    <3> QED
      BY <3>2
  <2>2. CASE c = b /\ faces'[b] = Put(faces[b], k, face) /\ call'[b].step = "done"
    <3>1. /\ DOMAIN faces'[b] = DOMAIN faces[b] \union {k} /\ faces'[b][k] = face
          /\ \A z \in DOMAIN faces[b] : z # k => faces'[b][z] = faces[b][z]
      BY <2>2 DEF Put
    <3>2. CASE x = k
      <4>1. y = face
        BY <1>2, <2>2, <3>1, <3>2
      <4> QED
        BY <2>2, <3>2, <4>1
    <3>3. CASE x # k
      <4>1. x \in DOMAIN faces[b] /\ y = faces[b][x]
        BY <1>2, <2>2, <3>1, <3>3
      <4>2. Held(c, x, y)
        BY <2>2, <4>1 DEF SubInv, FacesFit, Held
      <4> QED
        BY <4>2
    <3> QED
      BY <3>2, <3>3
  <2> QED
    BY <2>1, <2>2
<1>3. ASSUME NEW c \in Backends, call'[c].step = "done", NEW x, NEW y,
             x = Key(c, call'[c].font), y = call'[c].face
      PROVE  Held(c, x, y)'
  <2>1. CASE c = b
    BY <1>3, <2>1
  <2>2. CASE c # b
    <3>1. Held(c, x, y)
      BY <1>1, <1>3, <2>2 DEF SubInv, FacesFit, Held, KeyOf
    <3> QED
      BY <3>1
  <2> QED
    BY <2>1, <2>2
<1>4. ASSUME NEW c \in Backends, NEW x \in DOMAIN faces'[c]
      PROVE  Fits(c, x, faces[c][x])' /\ Agrees(x, faces[c][x])'
  <2>1. \A y : y = faces'[c][x] => Held(c, x, y)'
    BY <1>2
  <2> QED
    BY <2>1 DEF Held, Fits, Agrees, FitsFile, FitsCompiled, FitsRegistered
<1>5. ASSUME NEW c \in Backends, call'[c].step = "done"
      PROVE  Fits(c, KeyOf(c), call[c].face)' /\ Agrees(KeyOf(c), call[c].face)'
  <2>1. \A x, y : x = Key(c, call'[c].font) /\ y = call'[c].face => Held(c, x, y)'
    BY <1>3, <1>5
  <2> QED
    BY <2>1 DEF KeyOf, Held, Fits, Agrees, FitsFile, FitsCompiled, FitsRegistered
<1> QED
  BY <1>4, <1>5 DEF FacesFit

\* What is held stays so while nothing new is remembered.
LEMMA HeldStays ==
  ASSUME UNCHANGED <<document, at, provided, fallback>>,
         \A x \in DOMAIN first : x \in DOMAIN first' /\ first'[x] = first[x]
  PROVE  \A c \in Backends : \A x, y : Held(c, x, y) => Held(c, x, y)'
<1> SUFFICES ASSUME NEW c \in Backends, NEW x, NEW y, Held(c, x, y) PROVE Held(c, x, y)'
  OBVIOUS
<1> QED
  BY FitsStays, AlikeStays DEF Held, Agrees

LEMMA ProgramHeld ==
  ASSUME NEW b, NEW k, NEW face, face.kind = "program"
  PROVE  Held(b, k, face)'
  BY DEF Held, Fits, Agrees

\* Steps that neither begin nor end a search.
LEMMA RestAfterLoad ==
  ASSUME SubInv, Places', NEW b \in Backends, Loads(b), UNCHANGED <<first, fallback>>,
         call'[b].step # "probe"
  PROVE  Counted' /\ FallbackFits' /\ ProbesFit'
<1>1. \A c \in Backends : c # b => call'[c] = call[c]
  BY DEF Loads, SubInv, Places
<1>2. provided' = provided
  BY DEF Loads
<1>3. Counted' /\ FallbackFits'
  BY <1>2, FileStays DEF SubInv, Counted, FallbackFits
<1>4. ProbesFit'
  BY <1>1, <1>2, AlikeStays DEF SubInv, ProbesFit, KeyOf
<1> QED
  BY <1>3, <1>4

LEMMA UseFontFits ==
  ASSUME SubInv, Places', SharedOwned', NEW b \in Backends, NEW font, UseFont(b, font)
  PROVE  SubInv'
<1> DEFINE k == Key(b, font)
<1>1. Loads(b) /\ call'[b].font = font /\ UNCHANGED <<shared, fallback, first>>
  BY UseFontCases DEF SubInv
<1>2. \A c \in Backends : \A x, y : Held(c, x, y) => Held(c, x, y)'
  BY <1>1, HeldStays DEF Loads
<1>3. CASE k \in DOMAIN faces[b] /\ faces' = faces /\ call'[b] = Done(font, faces[b][k])
  <2>1. call'[b].step = "done" /\ call'[b].face = faces[b][k]
    BY <1>3 DEF Done
  <2>2. ASSUME NEW face, face = faces[b][k] PROVE FacesFit'
    <3>1. Held(b, k, face)
      BY <1>3, <2>2 DEF SubInv, FacesFit, Held
    <3> QED
      BY <1>1, <1>2, <1>3, <2>1, <2>2, <3>1, FacesAfterLoad
  <2> QED
    BY <1>1, <2>1, <2>2, RestAfterLoad DEF SubInv
<1>4. CASE /\ <<at[b], k>> \in DOMAIN shared
           /\ faces'[b] = Put(faces[b], k, shared[<<at[b], k>>])
           /\ call'[b] = Done(font, shared[<<at[b], k>>])
  <2>1. call'[b].step = "done" /\ call'[b].face = shared[<<at[b], k>>]
    BY <1>4 DEF Done
  <2>2. ASSUME NEW face, face = shared[<<at[b], k>>] PROVE FacesFit'
    <3>1. face.kind = "program"
      BY <1>4, <2>2 DEF SubInv, SharedOwned
    <3> QED
      BY <1>1, <1>2, <1>4, <2>1, <2>2, <3>1, ProgramHeld, FacesAfterLoad
  <2> QED
    BY <1>1, <2>1, <2>2, RestAfterLoad DEF SubInv
<1>5. CASE /\ faces' = faces
           /\ \E step \in {"search", "decode"} : call'[b] = [step |-> step, font |-> font]
  <2>1. call'[b].step # "done" /\ call'[b].step # "probe"
    BY <1>5
  <2>2. FacesFit'
    BY <1>1, <1>2, <1>5, <2>1, FacesAfterLoad
  <2> QED
    BY <1>1, <2>1, <2>2, RestAfterLoad DEF SubInv
<1> QED
  BY <1>3, <1>4, <1>5, UseFontCases DEF SubInv

LEMMA DecodeFits ==
  ASSUME SubInv, Places', SharedOwned', NEW b \in Backends, Decode(b)
  PROVE  SubInv'
<1> DEFINE font == call[b].font
           k == KeyOf(b)
<1>1. /\ Loads(b) /\ call'[b].font = font /\ UNCHANGED <<fallback, first>>
      /\ font.program # None /\ font \in document[at[b]]
  BY DecodeCases DEF SubInv, Loads
<1>2. \A c \in Backends : \A x, y : Held(c, x, y) => Held(c, x, y)'
  BY <1>1, HeldStays DEF Loads
<1>3. CASE call'[b] = Done(font, font.program) /\ faces'[b] = Put(faces[b], k, font.program)
  <2>1. call'[b].step = "done" /\ call'[b].face = font.program
    BY <1>3 DEF Done
  <2>2. font.program.kind = "program"
    <3>1. font \in UNION Docs
      BY <1>1 DEF SubInv, Places, Loads
    <3> QED
      BY <1>1, <3>1, DocsAssumption
  <2>3. ASSUME NEW face, face = font.program PROVE FacesFit'
    <3>1. Held(b, k, face)'
      BY <2>2, <2>3, ProgramHeld
    <3> QED
      BY <1>1, <1>2, <1>3, <2>1, <2>3, <3>1, FacesAfterLoad DEF KeyOf
  <2> QED
    BY <1>1, <2>1, <2>3, RestAfterLoad DEF SubInv
<1>4. CASE faces' = faces /\ call'[b] = [step |-> "search", font |-> font]
  <2>1. call'[b].step # "done" /\ call'[b].step # "probe"
    BY <1>4
  <2>2. FacesFit'
    BY <1>1, <1>2, <1>4, <2>1, FacesAfterLoad
  <2> QED
    BY <1>1, <2>1, <2>2, RestAfterLoad DEF SubInv
<1> QED
  BY <1>3, <1>4, DecodeCases DEF SubInv

LEMMA SearchFits ==
  ASSUME SubInv, Places', SharedOwned', NEW b \in Backends, Search(b)
  PROVE  SubInv'
<1> DEFINE font == call[b].font
           k == KeyOf(b)
<1>1. /\ Loads(b) /\ call'[b].font = font /\ UNCHANGED <<shared, fallback>>
      /\ first' = IF k \in DOMAIN first THEN first ELSE Put(first, k, Len(provided))
      /\ provided' = provided
  BY SearchCases DEF SubInv, Loads
<1>2. \A x \in DOMAIN first : x \in DOMAIN first' /\ first'[x] = first[x]
  BY <1>1 DEF Put
<1>3. \A c \in Backends : \A x, y : Held(c, x, y) => Held(c, x, y)'
  BY <1>1, <1>2, HeldStays DEF Loads
<1>4. Counted' /\ k \in DOMAIN first'
  BY <1>1 DEF SubInv, Counted, Put
<1>5. FallbackFits'
  BY <1>1, <1>2, FileStays DEF SubInv, FallbackFits
<1>6. \A c \in Backends : c # b => call'[c] = call[c]
  BY <1>1 DEF Loads, SubInv, Places
<1>7. CASE /\ k \in DOMAIN fallback /\ call'[b] = Done(font, fallback[k])
           /\ faces'[b] = IF fallback[k] = None THEN faces[b] ELSE Put(faces[b], k, fallback[k])
  <2>1. call'[b].step = "done" /\ call'[b].face = fallback[k]
    BY <1>7 DEF Done
  <2>2. ASSUME NEW x, NEW face, x = KeyOf(b), face = fallback[x] PROVE FacesFit'
    <3>1. x \in DOMAIN first /\ FitsFile(x, face)
      BY <1>7, <2>2 DEF SubInv, FallbackFits
    <3>2. FitsFile(x, face)' /\ face.kind \in {"file", "none"}
      BY <1>1, <1>2, <3>1, FileStays, FileKinds
    <3>3. Held(b, x, face)'
      BY <1>1, <1>2, <1>7, <2>2, <3>1, <3>2 DEF Held, Fits, Agrees
    <3>4. faces'[b] = faces[b] \/ faces'[b] = Put(faces[b], x, face)
      BY <1>7, <2>2
    <3>5. x = Key(b, call'[b].font)
      BY <1>1, <2>2 DEF KeyOf
    <3> QED
      BY <1>1, <1>3, <2>1, <2>2, <3>3, <3>4, <3>5, FacesAfterLoad
  <2>3. ProbesFit'
    BY <1>1, <1>2, <1>6, <2>1, AlikeStays DEF SubInv, ProbesFit, KeyOf
  <2> QED
    BY <1>4, <1>5, <2>2, <2>3 DEF SubInv
<1>8. CASE /\ k \notin DOMAIN fallback /\ faces' = faces
           /\ call'[b] = [step |-> "probe", font |-> font]
  <2>1. call'[b].step # "done"
    BY <1>8
  <2>2. FacesFit'
    BY <1>1, <1>3, <1>8, <2>1, FacesAfterLoad
  <2>3. ProbesFit'
    BY <1>1, <1>2, <1>4, <1>6, <1>8, AlikeStays DEF SubInv, ProbesFit, KeyOf
  <2> QED
    BY <1>4, <1>5, <2>2, <2>3 DEF SubInv
<1> QED
  BY <1>7, <1>8, SearchCases DEF SubInv

\* A registered font that fits is one of its category.
LEMMA RegisteredIsThere ==
  ASSUME Counted, NEW b, NEW k \in DOMAIN first, NEW f, NEW i,
         NEW n \in first[k]..Len(provided), i \in Best(SubSeq(provided, 1, n), b, f)
  PROVE  i \in OfCategory(provided, Category(b, f)) /\ i \in 1..n
<1>1. n \in Nat /\ n <= Len(provided)
  BY DEF Counted
<1> DEFINE part == SubSeq(provided, 1, n)
<1>2. DOMAIN part = 1..n /\ \A j \in 1..n : part[j] = provided[j]
  BY <1>1 DEF Counted
<1>3. i \in OfCategory(part, Category(b, f))
  BY BestIsOfCategory
<1> QED
  BY <1>1, <1>2, <1>3 DEF OfCategory, Counted

\* Where the seekers of a key judge alike and nothing is registered for one of them, no
\* registered font is held under the key.
LEMMA NoneHeld ==
  ASSUME Counted, NEW k, Alike(k), NEW u \in Seekers(k),
         OfCategory(provided, Category(u[1], u[2])) = {}, NEW c, NEW face, Fits(c, k, face)
  PROVE  face.kind # "registered"
<1> SUFFICES ASSUME face.kind = "registered" PROVE FALSE
  OBVIOUS
<1>1. ~FitsFile(k, face)
  BY FileKinds
<1>2. ~FitsCompiled(c, k, face)
  <2>1. \A x : CompiledIn(x).kind = "compiled"
    BY DEF CompiledIn
  <2> QED
    BY <2>1 DEF FitsCompiled
<1>3. k \in DOMAIN first /\ FitsRegistered(c, k, face)
  BY <1>1, <1>2 DEF Fits
<1>4. PICK f \in document[at[c]], n \in first[k]..Len(provided) :
        <<c, f>> \in Seekers(k) /\ face.of \in Best(SubSeq(provided, 1, n), c, f)
  BY <1>3 DEF FitsRegistered
<1>5. face.of \in OfCategory(provided, Category(c, f))
  BY <1>3, <1>4, RegisteredIsThere
<1>6. Category(c, f) = Category(u[1], u[2])
  BY <1>4, SameCategory
<1> QED
  BY <1>5, <1>6

\* What a search draws fits its key.
LEMMA ChosenFits ==
  ASSUME SubInv, NEW b \in Backends, at[b] # Nowhere, NEW f \in document[at[b]], Useless(f),
         NEW k, k = Key(b, f), k \in DOMAIN first, NEW face, Chosen(b, f, face)
  PROVE  /\ Fits(b, k, face)
         /\ face.kind # "registered" /\ face.kind # "compiled" => FitsFile(k, face)
<1>1. <<b, f>> \in Seekers(k)
  BY SeeksItsKey DEF SubInv
<1>2. CASE \E i \in Best(provided, b, f) : provided[i].usable /\ face = Registered(i)
  <2>1. PICK i \in Best(provided, b, f) : provided[i].usable /\ face = Registered(i)
    BY <1>2
  <2>2. face.of = i /\ face.kind = "registered"
    BY <2>1 DEF Registered
  <2>3. Len(provided) \in first[k]..Len(provided) /\ SubSeq(provided, 1, Len(provided)) = provided
    BY DEF SubInv, Counted
  <2>4. FitsRegistered(b, k, face)
    BY <1>1, <2>1, <2>2, <2>3 DEF FitsRegistered
  <2> QED
    BY <2>2, <2>4 DEF Fits
<1>3. CASE /\ NoneProvided(b, f) /\ Category(b, f) \in Embedded[b]
           /\ face = CompiledIn(Category(b, f))
  <2>1. FitsCompiled(b, k, face)
    BY <1>1, <1>3, NoneInTime DEF FitsCompiled
  <2> QED
    BY <1>3, <2>1 DEF Fits, CompiledIn
<1>4. CASE NoneProvided(b, f) /\ Category(b, f) \notin Embedded[b] /\ face = OnDiskFor(b, f)
  <2>1. <<b, f>>[1] = b /\ <<b, f>>[2] = f
    OBVIOUS
  <2>2. FitsFile(k, face)
    BY <1>1, <1>4, <2>1, NoneInTime DEF FitsFile
  <2> QED
    BY <2>2 DEF Fits
<1> QED
  BY <1>2, <1>3, <1>4 DEF Chosen

LEMMA ProbeFits ==
  ASSUME SubInv, Places', SharedOwned', NEW b \in Backends, Probe(b)
  PROVE  SubInv'
<1>1. PICK f : f = call[b].font
  OBVIOUS
<1>2. PICK k : k = KeyOf(b)
  OBVIOUS
<1>3. /\ Loads(b) /\ call'[b].font = f /\ Useless(f) /\ UNCHANGED <<shared, first>>
      /\ provided' = provided /\ call[b].step = "probe"
  BY <1>1, ProbeCases DEF SubInv, Loads, Probe
<1>4. PICK face : /\ call'[b] = Done(f, face) /\ Chosen(b, f, face)
                  /\ faces'[b] = IF face = None THEN faces[b] ELSE Put(faces[b], k, face)
  BY <1>1, <1>2, ProbeCases DEF SubInv
<1>5. call'[b].step = "done" /\ call'[b].face = face
  BY <1>4 DEF Done
<1>6. /\ f \in document[at[b]] /\ at[b] # Nowhere /\ k = Key(b, f) /\ k \in DOMAIN first
      /\ <<b, f>> \in Seekers(k)
  <2>1. f \in document[at[b]] /\ at[b] # Nowhere /\ k = Key(b, f) /\ k \in DOMAIN first
    BY <1>1, <1>2, <1>3 DEF Loads, KeyOf, SubInv, ProbesFit
  <2> QED
    BY <1>3, <2>1, SeeksItsKey DEF SubInv
<1>7. Fits(b, k, face) /\ (face.kind # "registered" /\ face.kind # "compiled" => FitsFile(k, face))
  BY <1>3, <1>4, <1>6, ChosenFits
<1>8. Fits(b, k, face)'
  BY <1>3, <1>7, FitsStays DEF Loads
<1>9. \A c \in Backends : c # b => call'[c] = call[c]
  BY <1>3 DEF Loads, SubInv, Places
<1>10. Counted'
  BY <1>3 DEF SubInv, Counted
<1>11. CASE fallback' = fallback /\ face.kind \in {"registered", "compiled"}
  <2>1. Held(b, k, face)'
    <3>1. ASSUME face.kind = "registered", k \in DOMAIN fallback, Alike(k) PROVE FALSE
      <4>1. OfCategory(provided, Category(b, f)) = {}
        BY <1>1, <1>2, <1>3, <3>1 DEF SubInv, ProbesFit
      <4>2. <<b, f>>[1] = b /\ <<b, f>>[2] = f
        OBVIOUS
      <4> QED
        BY <1>6, <1>7, <3>1, <4>1, <4>2, NoneHeld DEF SubInv
    <3>2. Agrees(k, face)'
      BY <1>3, <1>11, <3>1, AlikeStays DEF Agrees
    <3> QED
      BY <1>8, <3>2 DEF Held
  <2>2. \A c \in Backends : \A x, y : Held(c, x, y) => Held(c, x, y)'
    BY <1>3, <1>11, HeldStays DEF Loads
  <2>3. FacesFit'
    BY <1>3, <1>4, <1>5, <1>6, <2>1, <2>2, FacesAfterLoad
  <2>4. FallbackFits' /\ ProbesFit'
    BY <1>3, <1>5, <1>11, RestAfterLoad
  <2> QED
    BY <1>10, <2>3, <2>4 DEF SubInv
<1>12. CASE /\ NoneProvided(b, f) /\ face.kind \in {"file", "none"}
            /\ fallback' = Put(fallback, k, face)
  <2>1. /\ DOMAIN fallback' = DOMAIN fallback \union {k} /\ fallback'[k] = face
        /\ \A x \in DOMAIN fallback : x # k => fallback'[x] = fallback[x]
    BY <1>12 DEF Put
  <2>2. ASSUME Alike(k)
        PROVE  OfCategory(provided, Category(b, f)) = {}
    BY <1>6, <1>12, <2>2, NoneAtAll
  <2>3. ASSUME NEW c \in Backends, NEW x, NEW y, Held(c, x, y) PROVE Held(c, x, y)'
    <3>1. Fits(c, x, y)'
      BY <1>3, <2>3, FitsStays DEF Loads, Held
    <3>2. ASSUME x = k, Alike(k) PROVE y.kind # "registered"
      <4>1. <<b, f>>[1] = b /\ <<b, f>>[2] = f
        OBVIOUS
      <4> QED
        BY <1>6, <2>2, <2>3, <3>2, <4>1, NoneHeld DEF SubInv, Held
    <3>3. Agrees(x, y)'
      BY <1>3, <2>1, <2>3, <3>2, AlikeStays DEF Agrees, Held
    <3> QED
      BY <3>1, <3>3 DEF Held
  <2>4. Held(b, k, face)'
    BY <1>8, <1>12, <2>1 DEF Held, Agrees
  <2>5. FacesFit'
    BY <1>3, <1>4, <1>5, <1>6, <2>3, <2>4, FacesAfterLoad
  <2>6. FallbackFits'
    <3>1. ASSUME NEW x \in DOMAIN fallback', NEW y, y = fallback'[x]
          PROVE  x \in DOMAIN first /\ FitsFile(x, y)'
      <4>1. CASE x = k
        BY <1>3, <1>6, <1>7, <1>12, <2>1, <3>1, <4>1, FileStays
      <4>2. CASE x # k
        <5>1. x \in DOMAIN first /\ FitsFile(x, y)
          BY <2>1, <3>1, <4>2 DEF SubInv, FallbackFits
        <5> QED
          BY <1>3, <5>1, FileStays
      <4> QED
        BY <4>1, <4>2
    <3>2. ASSUME NEW x \in DOMAIN fallback' PROVE x \in DOMAIN first /\ FitsFile(x, fallback[x])'
      <4>1. \A y : y = fallback'[x] => x \in DOMAIN first /\ FitsFile(x, y)'
        BY <3>1
      <4> QED
        BY <4>1 DEF FitsFile
    <3> QED
      BY <1>3, <3>2 DEF FallbackFits
  <2>7. ProbesFit'
    <3>1. ASSUME NEW c \in Backends, call'[c].step = "probe"
          PROVE  /\ Key(c, call'[c].font) \in DOMAIN first
                 /\ Key(c, call'[c].font) \in DOMAIN fallback' /\ Alike(Key(c, call'[c].font)) =>
                      OfCategory(provided, Category(c, call'[c].font)) = {}
      <4>1. c # b /\ call'[c] = call[c] /\ call[c].step = "probe"
        BY <1>5, <1>9, <3>1
      <4>2. PICK g : g = call[c].font
        OBVIOUS
      <4>3. Key(c, g) \in DOMAIN first
        BY <4>1, <4>2 DEF SubInv, ProbesFit, KeyOf
      <4>4. CASE Key(c, g) \in DOMAIN fallback
        BY <4>1, <4>2, <4>4 DEF SubInv, ProbesFit, KeyOf
      <4>5. CASE Key(c, g) = k
        <5>1. <<c, g>> \in Seekers(k)
          BY <4>1, <4>2, <4>5, SeeksItsKey DEF SubInv, Places
        <5>2. Alike(k) => Category(c, g) = Category(b, f)
          <6>1. \A x, y : <<x, y>>[1] = x /\ <<x, y>>[2] = y
            OBVIOUS
          <6> QED
            BY <1>6, <5>1, <6>1, SameCategory
        <5> QED
          BY <2>2, <4>1, <4>2, <4>3, <4>5, <5>2
      <4> QED
        BY <2>1, <4>1, <4>2, <4>3, <4>4, <4>5
    <3> QED
      BY <1>3, <3>1, AlikeStays DEF ProbesFit, KeyOf
  <2> QED
    BY <1>10, <2>5, <2>6, <2>7 DEF SubInv
<1>13. \A c, h : CompiledIn(c).kind = "compiled" /\ OnDiskFor(c, h).kind \in {"file", "none"}
                 /\ Registered(c).kind = "registered"
  BY DEF CompiledIn, OnDiskFor, File, None, Registered
<1> QED
  BY <1>4, <1>6, <1>11, <1>12, <1>13 DEF Chosen

\* A font that is registered changes nothing that was chosen before.
LEMMA RegisterFits ==
  ASSUME SubInv, Places', SharedOwned', NEW blob \in Blobs, RegisterFont(blob)
  PROVE  SubInv'
<1>1. /\ provided' = Append(provided, blob) /\ \A b \in Backends : call[b].step # "probe"
      /\ UNCHANGED <<document, faces, at, call, fallback, first>>
  BY DEF RegisterFont
<1>2. /\ provided \in Seq(Blobs) /\ Len(provided) \in Nat /\ Len(provided') = Len(provided) + 1
      /\ \A i \in 1..Len(provided) : provided'[i] = provided[i]
      /\ DOMAIN provided = 1..Len(provided) /\ DOMAIN provided' = 1..Len(provided)+1
  BY <1>1 DEF SubInv, Counted
<1>3. Counted'
  <2>1. provided' \in Seq(Blobs)
    BY <1>1, <1>2
  <2> QED
    BY <1>1, <1>2, <2>1 DEF SubInv, Counted
<1>4. \A c : AllUsable(c)' => AllUsable(c)
  BY <1>2 DEF AllUsable, OfCategory
<1>5. \A k : Alike(k)' => Alike(k)
  BY <1>4 DEF Alike
<1>6. ASSUME NEW k \in DOMAIN first, NEW u, InTime(k, u)' PROVE InTime(k, u)
  <2>1. first[k] \in Nat /\ first[k] <= Len(provided) /\ first'[k] = first[k]
    BY <1>1 DEF SubInv, Counted
  <2>2. PICK i \in OfCategory(provided', Category(u[1], u[2])) : i <= first[k]
    BY <1>6, <2>1 DEF InTime
  <2>3. i \in OfCategory(provided, Category(u[1], u[2]))
    BY <1>2, <2>1, <2>2 DEF OfCategory
  <2> QED
    BY <1>4, <1>6, <2>2, <2>3 DEF InTime
<1>7. ASSUME NEW k \in DOMAIN first, NEW face, FitsFile(k, face) PROVE FitsFile(k, face)'
  BY <1>6, <1>7 DEF FitsFile
<1>8. ASSUME NEW b, NEW k, NEW face, Fits(b, k, face) PROVE Fits(b, k, face)'
  <2> SUFFICES ASSUME face.kind # "program"
               PROVE  k \in DOMAIN first /\ (FitsFile(k, face)' \/ FitsCompiled(b, k, face)'
                                             \/ FitsRegistered(b, k, face)')
    BY <1>1 DEF Fits
  <2>1. k \in DOMAIN first
    BY <1>8 DEF Fits
  <2>2. CASE FitsFile(k, face)
    BY <1>7, <2>1, <2>2
  <2>3. CASE FitsCompiled(b, k, face)
    BY <1>1, <1>6, <2>1, <2>3 DEF FitsCompiled
  <2>4. CASE FitsRegistered(b, k, face)
    <3>1. PICK f \in document[at[b]], n \in first[k]..Len(provided) :
            /\ <<b, f>> \in Seekers(k) /\ face.kind = "registered"
            /\ face.of \in Best(SubSeq(provided, 1, n), b, f) /\ provided[face.of].usable
      BY <2>4 DEF FitsRegistered
    <3>2. first[k] \in Nat /\ n \in Nat /\ n <= Len(provided) /\ n \in first[k]..Len(provided')
      BY <1>2, <2>1 DEF SubInv, Counted
    <3>3. SubSeq(provided', 1, n) = SubSeq(provided, 1, n)
      <4>1. \A i \in 1..n : provided'[i] = provided[i]
        BY <1>2, <3>2
      <4> QED
        BY <1>2, <1>3, <3>2, <4>1 DEF Counted
    <3>4. face.of \in 1..n
      BY <2>1, <3>1, RegisteredIsThere DEF SubInv
    <3>5. provided'[face.of].usable
      BY <1>2, <3>1, <3>2, <3>4
    <3> QED
      BY <1>1, <2>1, <3>1, <3>2, <3>3, <3>5 DEF FitsRegistered
  <2> QED
    BY <1>8, <2>1, <2>2, <2>3, <2>4 DEF Fits
<1>9. FallbackFits'
  <2>1. \A k \in DOMAIN fallback : FitsFile(k, fallback[k])'
    <3> SUFFICES ASSUME NEW k \in DOMAIN fallback PROVE FitsFile(k, fallback[k])'
      OBVIOUS
    <3>1. \A y : y = fallback[k] => FitsFile(k, y)'
      BY <1>7 DEF SubInv, FallbackFits
    <3> QED
      BY <1>1, <3>1
  <2> QED
    BY <1>1, <2>1 DEF SubInv, FallbackFits
<1>10. \A b, k, face : Held(b, k, face) => Held(b, k, face)'
  BY <1>1, <1>5, <1>8 DEF Held, Agrees
<1>11. FacesFit'
  <2>1. ASSUME NEW b \in Backends, NEW k \in DOMAIN faces[b], NEW y, y = faces[b][k]
        PROVE  Held(b, k, y)'
    BY <1>10, <2>1 DEF SubInv, FacesFit, Held
  <2>2. ASSUME NEW b \in Backends, call[b].step = "done", NEW k, NEW y,
               k = KeyOf(b), y = call[b].face
        PROVE  Held(b, k, y)'
    BY <1>10, <2>2 DEF SubInv, FacesFit, Held
  <2>3. ASSUME NEW b \in Backends, NEW k \in DOMAIN faces[b]
        PROVE  Fits(b, k, faces[b][k])' /\ Agrees(k, faces[b][k])'
    <3>1. \A y : y = faces[b][k] => Held(b, k, y)'
      BY <2>1
    <3> QED
      BY <1>1, <3>1 DEF Held, Fits, Agrees, FitsFile, FitsCompiled, FitsRegistered
  <2>4. ASSUME NEW b \in Backends, call[b].step = "done"
        PROVE  Fits(b, KeyOf(b), call[b].face)' /\ Agrees(KeyOf(b), call[b].face)'
    <3>1. \A k, y : k = KeyOf(b) /\ y = call[b].face => Held(b, k, y)'
      BY <2>2, <2>4
    <3> QED
      BY <1>1, <3>1 DEF KeyOf, Held, Fits, Agrees, FitsFile, FitsCompiled, FitsRegistered
  <2> QED
    BY <1>1, <2>3, <2>4 DEF FacesFit
<1>12. ProbesFit'
  BY <1>1 DEF ProbesFit
<1> QED
  BY <1>3, <1>9, <1>11, <1>12 DEF SubInv

LEMMA NextSub == OwnInv /\ SubInv /\ [Next]_vars => OwnInv' /\ SubInv'
<1> SUFFICES ASSUME OwnInv, SubInv, [Next]_vars PROVE SubInv'
  BY NextOwn
<1>0. Places /\ Places' /\ SharedOwned'
  BY NextOwn DEF OwnInv
<1>1. ASSUME NEW a \in Addresses, NEW d \in Docs, Open(a, d) PROVE SubInv'
  <2>1. /\ UNCHANGED <<fallback, provided, first, faces, call, at>> /\ document[a] = {}
        /\ document' = [document EXCEPT ![a] = d]
    BY <1>1 DEF Open
  <2>2. ASSUME NEW b \in Backends
        PROVE  \/ document'[at'[b]] = document[at[b]]
               \/ DOMAIN faces'[b] = {} /\ call'[b].step = "idle"
    BY <1>0, <2>1 DEF Places
  <2> QED
    BY <1>0, <2>1, <2>2, SubApart
<1>2. ASSUME NEW a \in Addresses, Close(a) PROVE SubInv'
  <2>1. UNCHANGED <<fallback, provided, first>>
    BY <1>2 DEF Close
  <2>2. ASSUME NEW b \in Backends
        PROVE  \/ /\ faces'[b] = faces[b] /\ call'[b] = call[b]
                  /\ document'[at'[b]] = document[at[b]]
               \/ DOMAIN faces'[b] = {} /\ call'[b].step = "idle"
    <3>1. CASE at[b] = a
      BY <1>0, <1>2, <3>1 DEF Close, Places, Empty, Idle
    <3>2. CASE at[b] # a
      <4>1. faces'[b] = faces[b] /\ call'[b] = call[b] /\ at'[b] = at[b]
        BY <1>0, <1>2, <3>2 DEF Close, Places
      <4>2. CASE at[b] = Nowhere
        BY <1>0, <4>1, <4>2 DEF Places
      <4>3. CASE at[b] # Nowhere
        BY <1>0, <1>2, <3>2, <4>1, <4>3 DEF Close, Places
      <4> QED
        BY <4>2, <4>3
    <3> QED
      BY <3>1, <3>2
  <2> QED
    BY <1>0, <2>1, <2>2, SubApart
<1>3. ASSUME NEW b \in Backends, NEW a \in Addresses, Attach(b, a) PROVE SubInv'
  <2>1. /\ UNCHANGED <<fallback, provided, first, faces, call, document>> /\ at[b] = Nowhere
        /\ at' = [at EXCEPT ![b] = a]
    BY <1>3 DEF Attach
  <2>2. ASSUME NEW c \in Backends
        PROVE  \/ document'[at'[c]] = document[at[c]]
               \/ DOMAIN faces'[c] = {} /\ call'[c].step = "idle"
    BY <1>0, <2>1 DEF Places
  <2> QED
    BY <1>0, <2>1, <2>2, SubApart
<1>4. ASSUME NEW blob \in Blobs, RegisterFont(blob) PROVE SubInv'
  BY <1>0, <1>4, RegisterFits
<1>5. CASE UNCHANGED vars
  BY <1>0, <1>5, SubApart DEF vars
<1> QED
  BY <1>0, <1>1, <1>2, <1>3, <1>4, <1>5, UseFontFits, DecodeFits, SearchFits, ProbeFits
     DEF Next, Load

LEMMA InitSub == Init => OwnInv /\ SubInv
<1> SUFFICES ASSUME Init PROVE SubInv
  BY InitOwn
<1>1. Places /\ SharedOwned
  BY InitOwn DEF OwnInv
<1>2. Counted
  BY DEF Init, Counted, Empty
<1> QED
  BY <1>1, <1>2 DEF Init, SubInv, FallbackFits, ProbesFit, FacesFit, Empty, Idle

\* Type correctness: no back end uses a document that was deleted.
THEOREM FontTypes == Spec => []TypeOK
<1>1. ASSUME OwnInv, SubInv PROVE TypeOK
  <2>1. \A b \in Backends : call[b].step # "idle" => at[b] # Nowhere
    BY <1>1 DEF OwnInv, Places
  <2>2. \A k \in DOMAIN fallback : fallback[k].kind \in {"file", "none"}
    BY <1>1, FileKinds DEF SubInv, FallbackFits
  <2> QED
    BY <1>1, <2>1, <2>2 DEF OwnInv, Places, SharedOwned, TypeOK
<1> QED
  BY InitSub, NextSub, <1>1, PTL DEF Spec

\* A substitute is what some back end that searches for its key chooses, each by its own
\* categories, registered fonts and files (load_fallback_font_with_hint of the three),
\* and never a file where a registered font came in time for all of them.
THEOREM SubstitutesAreSound == Spec => []SubstitutesSound
<1>1. ASSUME SubInv, TypeOK PROVE SubstitutesSound
  BY <1>1 DEF SubInv, FacesFit, Fits, SubstitutesSound, Drawn
<1> QED
  BY InitSub, NextSub, FontTypes, <1>1, PTL DEF Spec

\* Where the back ends judge a key alike, two of them never draw a file and another
\* face, whatever is registered while they run.
THEOREM BackendsAgree == Spec => []SubstitutesAgree
<1>1. ASSUME SubInv PROVE SubstitutesAgree
  <2> SUFFICES ASSUME NEW b \in Backends, NEW d \in Backends, Drawn(b), Drawn(d),
                      KeyOf(b) = KeyOf(d), Alike(KeyOf(b)), call[b].face.kind # "program",
                      call[d].face.kind # "program",
                      ~(call[b].face.kind = "registered" /\ call[d].face.kind = "registered")
               PROVE  call[b].face = call[d].face
    BY DEF SubstitutesAgree
  <2> DEFINE k == KeyOf(b)
  <2>1. ASSUME NEW c \in {b, d}
        PROVE  /\ Fits(c, k, call[c].face) /\ Agrees(k, call[c].face)
               /\ ~FitsCompiled(c, k, call[c].face)
               /\ FitsRegistered(c, k, call[c].face) => call[c].face.kind = "registered"
    <3>1. Fits(c, k, call[c].face) /\ Agrees(k, call[c].face)
      BY <1>1 DEF SubInv, FacesFit, Drawn
    <3>2. ~FitsCompiled(c, k, call[c].face)
      <4>1. \A f : <<c, f>>[1] = c /\ <<c, f>>[2] = f
        OBVIOUS
      <4> QED
        BY <4>1 DEF FitsCompiled, Alike
    <3>3. \A i : Registered(i).kind = "registered"
      BY DEF Registered
    <3> QED
      BY <3>1, <3>2, <3>3 DEF FitsRegistered
  <2>2. \A c \in {b, d} : call[c].face.kind = "registered" \/ FitsFile(k, call[c].face)
    BY <2>1 DEF Fits
  <2>3. \A c \in {b, d} : FitsFile(k, call[c].face) => k \in DOMAIN fallback
    BY <2>1, FileKinds DEF Agrees
  <2>4. \A c \in {b, d} : FitsFile(k, call[c].face)
    BY <2>1, <2>2, <2>3 DEF Agrees
  <2> QED
    BY <2>4 DEF FitsFile, Alike
<1> QED
  BY InitSub, NextSub, <1>1, PTL DEF Spec
=============================================================================
