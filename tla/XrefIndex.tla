----------------------------- MODULE XrefIndex -----------------------------
(***************************************************************************)
(* Pdf::build_object_offset_cache of src/nanopdf.cc: the walk of the       *)
(* cross-reference chain that fills object_offsets (objects with a body of *)
(* their own) and object_stream_entries (objects inside object streams),   *)
(* merges the trailers, and falls back to a scan of the whole file.        *)
(*                                                                         *)
(* A file is a set of cross-reference sections, each named by its offset.  *)
(* Updates are appended, so a higher offset is a later revision, and the   *)
(* body that revision s wrote for object o is identified by s.  All        *)
(* objects have generation 0.                                              *)
(***************************************************************************)
EXTENDS Naturals, Sequences, FiniteSets

CONSTANTS
  MaxObject,  \* object numbers are 32 bits wide
  Objects,    \* object numbers
  DataSize,   \* size of the file
  Offsets,    \* offsets of the cross-reference sections
  Files,      \* the files considered
  None        \* no offset: a missing /Prev, /XRefStm or startxref

(***************************************************************************)
(* What a section says of an object:                                       *)
(*   "n"      in use, the entry leads to the body                          *)
(*   "wrong"  in use, but the entry does not lead to "N G obj"             *)
(*   "c"      compressed, inside an object stream                          *)
(*   "f"      free                                                         *)
(*   "lost"   a body was written, its entry is beyond the damage           *)
(*   "absent" the revision does not mention the object                     *)
(***************************************************************************)
EntryKinds == {"n", "wrong", "c", "f", "lost", "absent"}

Section == [kind    : {"table", "stream"},
            entry   : [Objects -> EntryKinds],
            intact  : BOOLEAN,              \* parsing reaches the trailer
            prev    : Offsets \cup {None},
            xrefstm : Offsets \cup {None},
            root    : Objects \cup {0},     \* 0: no /Root
            size    : Nat]                  \* 0: no /Size

File == [start : Offsets \cup {None}, section : [Offsets -> Section]]

ASSUME ObjectsAssumption == MaxObject \in Nat /\ Objects \subseteq 1..MaxObject
ASSUME OffsetsAssumption == DataSize \in Nat /\ Offsets \subseteq 0..DataSize - 1
ASSUME NoneAssumption == None \notin Offsets
ASSUME FilesAssumption == Files \subseteq File

VARIABLES
  file,           \* the bytes, never written
  phase,          \* "idle", "claimed", "walk", "done" or "over"
  worklist,       \* offsets still to read, first in first out
  visited,        \* visited_offsets
  offsets,        \* object_offsets: object -> revision whose body it is
  entries,        \* object_stream_entries: object -> revision
  any_entries,
  root, size,     \* merged trailer fields
  built, failed   \* object_offsets_built, object_offsets_failed

index == <<worklist, visited, offsets, entries, any_entries, root, size>>
xref == <<file, phase, worklist, visited, offsets, entries, any_entries,
          root, size, built, failed>>

Sec(s) == file.section[s]
Plain(s, o) == Sec(s).entry[o] = "n"
Compressed(s, o) == Sec(s).entry[o] = "c"
HasBody(s, o) == Sec(s).entry[o] \in {"n", "wrong", "lost"}

SetMax(S) == CHOOSE x \in S : \A y \in S : y <= x
SetMin(S) == CHOOSE x \in S : \A y \in S : x <= y

\* The function f with the entries of g added or, on a clash, overwritten.
Override(f, g) == [x \in DOMAIN f \cup DOMAIN g |->
                     IF x \in DOMAIN g THEN g[x] ELSE f[x]]
Keep_Overwrites(f, g) == Override(f, g)         \* mutant: operator[] for emplace
Keep(f, g) == Override(g, f)

\* The section holds an in-use entry, whether or not it leads anywhere.
Vouches(s) == \E o \in Objects : Sec(s).entry[o] \in {"n", "wrong", "c"}

PlainOf(s) == [o \in {p \in Objects : Plain(s, p)} |-> s]
CompressedOf(s) == [o \in {p \in Objects : Compressed(s, p)} |-> s]

Push(t) == IF t = None THEN <<>> ELSE <<t>>

\* handle_trailer_offsets pushes /Prev first, then /XRefStm.
Linked_NoXRefStm(s) == Push(Sec(s).prev)        \* mutant: hybrid links are not followed
Linked(s) == Push(Sec(s).prev) \o Push(Sec(s).xrefstm)

IndexInit ==
  /\ file \in Files
  /\ phase = "idle"
  /\ worklist = <<>>
  /\ visited = {}
  /\ offsets = <<>>
  /\ entries = <<>>
  /\ any_entries = FALSE
  /\ root = 0
  /\ size = 0
  /\ built = FALSE
  /\ failed = FALSE

(***************************************************************************)
(* load_object and load_document_structure claim the build by setting the  *)
(* failed flag, so that whoever comes next does not build again.  The      *)
(* build begins by clearing what it is about to fill.                      *)
(***************************************************************************)
Claim ==
  /\ ~built /\ ~failed
  /\ failed' = TRUE
  /\ phase' = "claimed"
  /\ UNCHANGED <<file, index, built>>

Begin ==
  /\ phase = "claimed"
  /\ phase' = "walk"
  /\ offsets' = <<>>
  /\ entries' = <<>>
  /\ visited' = {}
  /\ any_entries' = FALSE
  /\ worklist' = IF file.start = None THEN <<>> ELSE <<file.start>>
  /\ UNCHANGED <<file, root, size, built, failed>>

\* No usable startxref: the build gives up, without the fallback scan.
GiveUp ==
  /\ phase = "walk"
  /\ file.start = None
  /\ phase' = "done"
  /\ UNCHANGED <<file, index, built, failed>>

SkipVisited ==
  /\ phase = "walk"
  /\ worklist # <<>>
  /\ Head(worklist) \in visited
  /\ worklist' = Tail(worklist)
  /\ UNCHANGED <<file, phase, visited, offsets, entries, any_entries, root,
                 size, built, failed>>

(***************************************************************************)
(* update_trailer: the first /Root seen stays, the largest /Size wins.  A  *)
(* section that is damaged before its trailer contributes entries only.    *)
(***************************************************************************)
MergeTrailer_LastWins(s) ==         \* mutant: an older trailer replaces /Root
  /\ root' = IF Sec(s).root = 0 THEN root ELSE Sec(s).root
  /\ size' = SetMax({size, Sec(s).size})

MergeTrailer(s) ==
  /\ root' = IF root = 0 THEN Sec(s).root ELSE root
  /\ size' = SetMax({size, Sec(s).size})

FollowTrailer(s) ==
  IF Sec(s).intact
    THEN /\ MergeTrailer(s)
         /\ worklist' = Tail(worklist) \o Linked(s)
    ELSE /\ worklist' = Tail(worklist)
         /\ UNCHANGED <<root, size>>

(***************************************************************************)
(* parse_traditional_xref and parse_xref_stream.  store_entry keeps the    *)
(* offset it has (emplace); a compressed entry overwrites the one it has   *)
(* (operator[]).  any_entries is set for an in-use entry even when         *)
(* store_entry rejects it.                                                 *)
(***************************************************************************)
Visit_Again ==                      \* mutant: no check of visited_offsets
  /\ phase = "walk"
  /\ worklist # <<>>
  /\ LET s == Head(worklist) IN
     /\ visited' = visited \cup {s}
     /\ offsets' = Keep(offsets, PlainOf(s))
     /\ entries' = Override(entries, CompressedOf(s))
     /\ any_entries' = (any_entries \/ Vouches(s))
     /\ FollowTrailer(s)
  /\ UNCHANGED <<file, phase, built, failed>>

Visit ==
  /\ phase = "walk"
  /\ worklist # <<>>
  /\ LET s == Head(worklist) IN
     /\ s \notin visited
     /\ visited' = visited \cup {s}
     /\ offsets' = Keep(offsets, PlainOf(s))
     /\ entries' = Override(entries, CompressedOf(s))
     /\ any_entries' = (any_entries \/ Vouches(s))
     /\ FollowTrailer(s)
  /\ UNCHANGED <<file, phase, built, failed>>

NeedFallback == ~any_entries /\ DOMAIN offsets = {} /\ DOMAIN entries = {}

BodiesOf(o) == {s \in Offsets : HasBody(s, o)}
ScanLast_First(o) == SetMin(BodiesOf(o))        \* mutant: the first body stays
ScanLast(o) == SetMax(BodiesOf(o))
Tables == {s \in Offsets : Sec(s).kind = "table"}

\* update_trailer_fallback: the last "trailer" keyword of the file.
LastTrailer ==
  IF Tables = {} THEN [root |-> 0, size |-> 0]
  ELSE LET s == SetMax(Tables) IN [root |-> Sec(s).root, size |-> Sec(s).size]

(***************************************************************************)
(* The scan for "N G obj": of several bodies of an object the last one in  *)
(* the file stays.  Without a /Root some object is taken for the catalog:  *)
(* the first that looks like one, in hash order, or else the first.        *)
(***************************************************************************)
Fallback ==
  /\ phase = "walk"
  /\ file.start # None
  /\ worklist = <<>>
  /\ NeedFallback
  /\ phase' = "done"
  /\ offsets' = [o \in {p \in Objects : BodiesOf(p) # {}} |-> ScanLast(o)]
  /\ any_entries' = (DOMAIN offsets' # {})
  /\ LET r == IF root = 0 THEN LastTrailer.root ELSE root IN
       IF r # 0 \/ DOMAIN offsets' = {}
         THEN root' = r
         ELSE root' \in DOMAIN offsets'
  /\ LET z == SetMax({size, LastTrailer.size}) IN
       size' = IF z = 0 /\ DOMAIN offsets' # {} THEN SetMax(DOMAIN offsets') + 1 ELSE z
  /\ UNCHANGED <<file, worklist, visited, entries, built, failed>>

WalkEnds ==
  /\ phase = "walk"
  /\ file.start # None
  /\ worklist = <<>>
  /\ ~NeedFallback
  /\ phase' = "done"
  /\ UNCHANGED <<file, index, built, failed>>

\* The claimant publishes a successful build; after a failed one the flag stays.
Publish_Unchecked ==                \* mutant: an empty index is published
  /\ phase = "done"
  /\ phase' = "over"
  /\ built' = TRUE
  /\ failed' = FALSE
  /\ UNCHANGED <<file, index>>

Publish ==
  /\ phase = "done"
  /\ phase' = "over"
  /\ IF any_entries /\ (DOMAIN offsets # {} \/ DOMAIN entries # {})
       THEN built' = TRUE /\ failed' = FALSE
       ELSE UNCHANGED <<built, failed>>
  /\ UNCHANGED <<file, index>>

BuildStep == Begin \/ GiveUp \/ SkipVisited \/ Visit \/ Fallback \/ WalkEnds \/ Publish
IndexNext == Claim \/ BuildStep

\* The build is a loop of the thread that claimed it and never waits.
IndexSpec == IndexInit /\ [][IndexNext]_xref /\ WF_xref(IndexNext)

(***************************************************************************)
(* Where load_object finds o once the build is over: object_offsets, then  *)
(* object_stream_entries, then the first "N G obj" of the file.            *)
(***************************************************************************)
ScanFirst(o) == IF BodiesOf(o) = {} THEN None ELSE SetMin(BodiesOf(o))

Located(o) ==
  IF built /\ o \in DOMAIN offsets THEN offsets[o]
  ELSE IF o \in DOMAIN entries THEN entries[o]
  ELSE ScanFirst(o)

---------------------------------------------------------------------------
IndexTypeOK ==
  /\ file \in File
  /\ phase \in {"idle", "claimed", "walk", "done", "over"}
  /\ worklist \in Seq(Offsets)
  /\ visited \subseteq Offsets
  /\ DOMAIN offsets \subseteq Objects /\ \A o \in DOMAIN offsets : offsets[o] \in Offsets
  /\ DOMAIN entries \subseteq Objects /\ \A o \in DOMAIN entries : entries[o] \in Offsets
  /\ any_entries \in BOOLEAN
  /\ root \in Objects \cup {0}
  /\ size \in Nat
  /\ built \in BOOLEAN /\ failed \in BOOLEAN

\* Whatever the links say, a cycle of /Prev included, the walk ends.
BuildEnds == <>(phase = "over")

\* The walk is complete: it starts at startxref, and where a section could be
\* read to its trailer, the sections that trailer names were visited too.
ChainWalked ==
  phase = "over" /\ file.start # None =>
    /\ file.start \in visited
    /\ \A s \in visited : Sec(s).intact =>
         {Sec(s).prev, Sec(s).xrefstm} \subseteq visited \cup {None}

Forward(f) == \A s \in Offsets :
  /\ f.section[s].xrefstm = None
  /\ f.section[s].prev # None => f.section[s].prev < s

\* In a file whose updates were appended, and without hybrid sections, the
\* body found for an object with a body of its own is the newest one that a
\* visited section vouches for: an update never reverts to its predecessor.
NewestBodyWins ==
  Forward(file) =>
    \A v \in visited, o \in Objects : Plain(v, o) =>
      o \in DOMAIN offsets /\ v <= offsets[o]

\* /Root is that of the newest readable trailer that has one, and /Size bounds
\* what every readable trailer promised.
TrailerOfNewest ==
  Forward(file) /\ phase = "over" =>
    \A v \in visited : Sec(v).intact =>
      /\ Sec(v).size <= size
      /\ Sec(v).root # 0 /\ (\A w \in visited : w > v /\ Sec(w).intact => Sec(w).root = 0)
           => root = Sec(v).root

\* A table that vouches for nothing does not hide the bodies of the file: the
\* scan indexes every one, the last revision of each.
ScanRecovers ==
  phase = "over" /\ file.start # None /\ (\A s \in visited : ~Vouches(s))
    => \A o \in Objects : BodiesOf(o) # {} => built /\ Located(o) = SetMax(BodiesOf(o))

\* Nothing is published from a build that found nothing, and the two flags
\* never say both.
PublishedMeansUsable ==
  /\ built => ~failed /\ phase = "over" /\ (DOMAIN offsets # {} \/ DOMAIN entries # {})
  /\ phase = "over" => built \/ failed

\* What a caller of load_object may rely on in an index, at any moment of its build.
IndexSound == IndexTypeOK /\ PublishedMeansUsable

InUse(s, o) == Plain(s, o) \/ Compressed(s, o)

\* What the comment in store_entry promises: the newest revision of an object is
\* the one that is loaded, and an older section never overwrites it.
EditsNeverRevert ==
  built => \A o \in Objects :
    LET R == {s \in visited : InUse(s, o)}
    IN  R # {} => Located(o) = SetMax(R)
============================================================================
