------------------------- MODULE ObjectStoreProofs -------------------------
(***************************************************************************)
(* What build_object_offset_cache makes of any file, and what load_object  *)
(* guarantees on any number of threads, for any document, any objects and  *)
(* any capacity: the index is built once and keeps what the build alone    *)
(* promises, the stream cache keeps its bound, and every call in a parsed  *)
(* document answers what a lone caller would get.                          *)
(***************************************************************************)
EXTENDS ObjectStore, Integers, WellFoundedInduction, SequenceTheorems, TLAPS

---------------------------------------------------------------------------
(***************************************************************************)
(* Extrema of sets of numbers.                                             *)
(***************************************************************************)
LEMMA LeastNatural ==
  ASSUME NEW S, S \subseteq Nat, S # {}
  PROVE  \E m \in S : \A y \in S : m <= y
<1> DEFINE Less == OpToRel(<, Nat)
<1>1. \A x, y \in Nat : x < y <=> <<x, y>> \in Less
  BY DEF OpToRel
<1>2. IsWellFoundedOn(Less, Nat)
  BY NatLessThanWellFounded
<1> HIDE DEF Less
<1>3. PICK m \in S : \A y \in S : <<y, m>> \notin Less
  BY <1>2, WFMin
<1>4. \A y \in S : y \in Nat /\ m \in Nat /\ ~(y < m)
  BY <1>1, <1>3
<1> QED
  BY <1>4

\* The least upper bound of a bounded set belongs to it.
LEMMA GreatestNatural ==
  ASSUME NEW n \in Nat, NEW S, S \subseteq 0..n, S # {}
  PROVE  \E m \in S : \A y \in S : y <= m
<1> DEFINE B == {b \in Nat : \A y \in S : y <= b}
<1>1. n \in B
  OBVIOUS
<1>2. PICK m \in B : \A b \in B : m <= b
  BY <1>1, LeastNatural
<1>3. m \in S
  <2> SUFFICES ASSUME m \notin S PROVE FALSE
    OBVIOUS
  <2>1. \A y \in S : y <= m - 1 /\ m - 1 \in Nat
    OBVIOUS
  <2>2. m - 1 \in B
    BY <2>1
  <2> QED
    BY <1>2, <2>2
<1> QED
  BY <1>2, <1>3

LEMMA SetMaxIsGreatest ==
  ASSUME NEW n \in Nat, NEW S, S \subseteq 0..n, S # {}
  PROVE  SetMax(S) \in S /\ \A y \in S : y <= SetMax(S)
  BY GreatestNatural DEF SetMax

LEMMA MaxOfTwo ==
  ASSUME NEW a \in Nat, NEW b \in Nat
  PROVE  SetMax({a, b}) \in Nat /\ a <= SetMax({a, b}) /\ b <= SetMax({a, b})
<1> DEFINE n == a + b
<1>1. n \in Nat /\ {a, b} \subseteq 0..n
  OBVIOUS
<1> HIDE DEF n
<1> QED
  BY <1>1, SetMaxIsGreatest
---------------------------------------------------------------------------
(***************************************************************************)
(* The strengthening.  NewestBodyWins is not inductive: a visit keeps the  *)
(* offset it finds, so the proof needs that what is found came from a      *)
(* visited section (Sourced) and that the walk only goes backwards         *)
(* (Backwards).  The fallback may rewrite the offsets because it runs only *)
(* when no visited section vouches for anything.                           *)
(***************************************************************************)
Found == any_entries /\ (DOMAIN offsets # {} \/ DOMAIN entries # {})

Flags ==
  /\ phase = "idle" => ~built /\ ~failed
  /\ phase \in {"claimed", "walk", "done"} => ~built /\ failed
  /\ phase = "over" => IF Found THEN built /\ ~failed ELSE ~built /\ failed

Fresh ==
  /\ phase \in {"idle", "claimed"} => visited = {} /\ root = 0
  /\ file.start = None => visited = {} /\ worklist = <<>>

Sourced ==
  phase = "walk" =>
    /\ \A o \in DOMAIN offsets : offsets[o] \in visited /\ Plain(offsets[o], o)
    /\ \A o \in DOMAIN entries : entries[o] \in visited /\ Compressed(entries[o], o)
    /\ any_entries <=> \E v \in visited : Vouches(v)
    /\ root # 0 => \E v \in visited : Sec(v).intact /\ Sec(v).root # 0

Backwards ==
  Forward(file) /\ phase = "walk" =>
    /\ Len(worklist) <= 1
    /\ worklist # <<>> => \A v \in visited : Head(worklist) < v

Trailers ==
  \A v \in visited : Sec(v).intact =>
    /\ Sec(v).size <= size
    /\ root = 0 => Sec(v).root = 0
    /\ Forward(file) /\ Sec(v).root # 0
         /\ (\A w \in visited : w > v /\ Sec(w).intact => Sec(w).root = 0)
         => root = Sec(v).root

Scanned ==
  phase \in {"done", "over"} /\ file.start # None /\ (\A v \in visited : ~Vouches(v)) =>
    /\ offsets = [o \in {p \in Objects : BodiesOf(p) # {}} |-> ScanLast(o)]
    /\ any_entries <=> DOMAIN offsets # {}

Members(q) == {q[i] : i \in 1..Len(q)}

Chained ==
  phase \in {"walk", "done", "over"} /\ file.start # None =>
    /\ file.start \in visited \cup Members(worklist)
    /\ \A v \in visited : Sec(v).intact =>
         {Sec(v).prev, Sec(v).xrefstm} \subseteq visited \cup Members(worklist) \cup {None}
    /\ phase # "walk" => worklist = <<>>

IInv == /\ IndexTypeOK /\ Flags /\ Fresh /\ Sourced /\ Backwards
        /\ NewestBodyWins /\ Trailers /\ Scanned /\ Chained

\* What IInv says when the build is over.
LEMMA IInvImplies ==
  IInv => IndexTypeOK /\ NewestBodyWins /\ TrailerOfNewest /\ ScanRecovers
            /\ PublishedMeansUsable /\ ChainWalked
<1> SUFFICES ASSUME IInv
             PROVE  TrailerOfNewest /\ ScanRecovers /\ PublishedMeansUsable /\ ChainWalked
  BY DEF IInv
<1>1. TrailerOfNewest
  BY DEF IInv, Trailers, TrailerOfNewest
<1>2. ScanRecovers
  <2> SUFFICES ASSUME phase = "over", file.start # None, \A s \in visited : ~Vouches(s),
                      NEW o \in Objects, BodiesOf(o) # {}
               PROVE  built /\ Located(o) = SetMax(BodiesOf(o))
    BY DEF ScanRecovers
  <2>1. o \in DOMAIN offsets /\ offsets[o] = ScanLast(o) /\ any_entries
    BY DEF IInv, Scanned
  <2>2. built
    BY <2>1 DEF IInv, Flags, Found
  <2> QED
    BY <2>1, <2>2 DEF Located, ScanLast
<1>3. PublishedMeansUsable
  BY DEF IInv, IndexTypeOK, Flags, Found, PublishedMeansUsable
<1>4. ChainWalked
  <2> SUFFICES ASSUME phase = "over", file.start # None
               PROVE  /\ file.start \in visited
                      /\ \A s \in visited : Sec(s).intact =>
                           {Sec(s).prev, Sec(s).xrefstm} \subseteq visited \cup {None}
    BY DEF ChainWalked
  <2>1. Members(worklist) = {}
    BY DEF IInv, Chained, Members
  <2> QED
    BY <2>1 DEF IInv, Chained
<1> QED
  BY <1>1, <1>2, <1>3, <1>4

\* The parts of a section have the types the file format gives them.
LEMMA SectionTypes ==
  ASSUME file \in File, NEW s \in Offsets
  PROVE  /\ Sec(s).intact \in BOOLEAN
         /\ Sec(s).prev \in Offsets \cup {None}
         /\ Sec(s).xrefstm \in Offsets \cup {None}
         /\ Sec(s).root \in Objects \cup {0}
         /\ Sec(s).size \in Nat
  BY DEF File, Section, Sec

\* The links of a section, oldest last, are offsets.
LEMMA LinkedTypes ==
  ASSUME file \in File, NEW s \in Offsets
  PROVE  Linked(s) \in Seq(Offsets)
<1>1. \A t \in Offsets \cup {None} : Push(t) \in Seq(Offsets)
  BY DEF Push
<1> QED
  BY <1>1, SectionTypes, ConcatProperties DEF Linked

\* emplace and operator[] yield maps with values of either map.
LEMMA OverrideTypes ==
  ASSUME NEW f, NEW g
  PROVE  /\ DOMAIN Override(f, g) = DOMAIN f \cup DOMAIN g
         /\ \A x \in DOMAIN g : Override(f, g)[x] = g[x]
         /\ \A x \in DOMAIN f \ DOMAIN g : Override(f, g)[x] = f[x]
  BY DEF Override

LEMMA OffsetsAreNumbers == Offsets \subseteq Nat
  BY OffsetsAssumption

\* Some body of an object is its last.
LEMMA ScanLastIsLast ==
  ASSUME NEW o, BodiesOf(o) # {}
  PROVE  ScanLast(o) \in BodiesOf(o) /\ ScanLast(o) \in Offsets
<1>1. BodiesOf(o) \subseteq Offsets /\ BodiesOf(o) \subseteq 0..DataSize - 1
  BY OffsetsAssumption DEF BodiesOf
<1>2. PICK b \in BodiesOf(o) : b \in 0..DataSize - 1
  BY <1>1
<1>3. DataSize - 1 \in Nat
  BY <1>2, OffsetsAssumption
<1> QED
  BY <1>1, <1>3, SetMaxIsGreatest DEF ScanLast

\* What is in a queue when its head is taken, or links are appended.
LEMMA MembersOfTail ==
  ASSUME NEW S, NEW q \in Seq(S), q # <<>>
  PROVE  Members(q) = Members(Tail(q)) \cup {Head(q)}
<1>1. Len(q) \in Nat \ {0} /\ Head(q) = q[1] /\ Len(Tail(q)) = Len(q) - 1
  OBVIOUS
<1>2. \A i \in 1..Len(q) - 1 : Tail(q)[i] = q[i + 1]
  OBVIOUS
<1>3. \A i \in 1..Len(q) : i = 1 \/ (i - 1 \in 1..Len(q) - 1 /\ q[i] = Tail(q)[i - 1])
  BY <1>1, <1>2
<1> QED
  BY <1>1, <1>2, <1>3 DEF Members

LEMMA MembersOfConcat ==
  ASSUME NEW S, NEW p \in Seq(S), NEW q \in Seq(S)
  PROVE  Members(p) \cup Members(q) \subseteq Members(p \o q)
<1>1. \A i \in 1..Len(p) : i \in 1..Len(p \o q) /\ (p \o q)[i] = p[i]
  OBVIOUS
<1>2. \A i \in 1..Len(q) : i + Len(p) \in 1..Len(p \o q) /\ (p \o q)[i + Len(p)] = q[i]
  OBVIOUS
<1> QED
  BY <1>1, <1>2 DEF Members

\* Every link of a section is queued.
LEMMA MembersOfLinked ==
  ASSUME file \in File, NEW s \in Offsets
  PROVE  {Sec(s).prev, Sec(s).xrefstm} \subseteq Members(Linked(s)) \cup {None}
<1>1. \A t \in Offsets \cup {None} : Push(t) \in Seq(Offsets) /\ (t = None \/ t \in Members(Push(t)))
  BY DEF Push, Members
<1>2. Members(Push(Sec(s).prev)) \cup Members(Push(Sec(s).xrefstm)) \subseteq Members(Linked(s))
  BY <1>1, SectionTypes, MembersOfConcat DEF Linked
<1> QED
  BY <1>1, <1>2, SectionTypes

\* The walk of one section, in terms the proofs of the invariants share.
LEMMA VisitEffect ==
  ASSUME IndexTypeOK, Visit
  PROVE  \E s \in Offsets :
           /\ phase = "walk" /\ worklist # <<>> /\ s = Head(worklist) /\ s \notin visited
           /\ visited' = visited \cup {s}
           /\ DOMAIN offsets' = DOMAIN offsets \cup {o \in Objects : Plain(s, o)}
           /\ \A o \in DOMAIN offsets : offsets'[o] = offsets[o]
           /\ \A o \in DOMAIN offsets' \ DOMAIN offsets : offsets'[o] = s /\ Plain(s, o)
           /\ DOMAIN entries' = DOMAIN entries \cup {o \in Objects : Compressed(s, o)}
           /\ \A o \in DOMAIN entries' :
                 \/ entries'[o] = s /\ Compressed(s, o)
                 \/ o \in DOMAIN entries /\ entries'[o] = entries[o]
           /\ any_entries' = (any_entries \/ Vouches(s))
           /\ FollowTrailer(s)
           /\ UNCHANGED <<file, phase, built, failed>>
<1> DEFINE s == Head(worklist)
<1>1. s \in Offsets
  BY DEF IndexTypeOK, Visit
<1>2. offsets' = Override(PlainOf(s), offsets) /\ entries' = Override(entries, CompressedOf(s))
  BY DEF Visit, Keep
<1>3. /\ DOMAIN PlainOf(s) = {o \in Objects : Plain(s, o)}
      /\ \A o \in DOMAIN PlainOf(s) : PlainOf(s)[o] = s
      /\ DOMAIN CompressedOf(s) = {o \in Objects : Compressed(s, o)}
      /\ \A o \in DOMAIN CompressedOf(s) : CompressedOf(s)[o] = s
  BY DEF PlainOf, CompressedOf
<1>4. /\ phase = "walk" /\ worklist # <<>> /\ s \notin visited
      /\ visited' = visited \cup {s}
      /\ any_entries' = (any_entries \/ Vouches(s))
      /\ FollowTrailer(s)
      /\ UNCHANGED <<file, phase, built, failed>>
  BY DEF Visit
<1>5. /\ DOMAIN offsets' = DOMAIN offsets \cup {o \in Objects : Plain(s, o)}
      /\ \A o \in DOMAIN offsets : offsets'[o] = offsets[o]
      /\ \A o \in DOMAIN offsets' \ DOMAIN offsets : offsets'[o] = s /\ Plain(s, o)
  <2> DEFINE f == PlainOf(s)
             P == {o \in Objects : Plain(s, o)}
  <2>0. DOMAIN f = P /\ (\A o \in P : f[o] = s /\ Plain(s, o)) /\ offsets' = Override(f, offsets)
    BY <1>2, <1>3
  <2> HIDE DEF f, P
  <2>1. /\ DOMAIN offsets' = DOMAIN f \cup DOMAIN offsets
        /\ \A o \in DOMAIN offsets : offsets'[o] = offsets[o]
        /\ \A o \in DOMAIN f \ DOMAIN offsets : offsets'[o] = f[o]
    BY <2>0 DEF Override
  <2>3. /\ DOMAIN offsets' = DOMAIN offsets \cup P
        /\ \A o \in DOMAIN offsets' \ DOMAIN offsets : offsets'[o] = s /\ Plain(s, o)
    BY <2>0, <2>1
  <2> QED
    BY <2>1, <2>3 DEF P
<1>6. /\ DOMAIN entries' = DOMAIN entries \cup {o \in Objects : Compressed(s, o)}
      /\ \A o \in DOMAIN entries' :
            \/ entries'[o] = s /\ Compressed(s, o)
            \/ o \in DOMAIN entries /\ entries'[o] = entries[o]
  BY <1>2, <1>3, OverrideTypes
<1> HIDE DEF s
<1>7. s = Head(worklist)
  BY DEF s
<1> QED
  BY <1>1, <1>4, <1>5, <1>6, <1>7

\* Base, step and conclusion, for any file.
THEOREM InitIInv == IndexInit => IInv
<1> SUFFICES ASSUME IndexInit PROVE IInv
  OBVIOUS
<1>1. IndexTypeOK
  <2>1. file \in File
    BY FilesAssumption DEF IndexInit
  <2>2. worklist \in Seq(Offsets) /\ DOMAIN offsets = {} /\ DOMAIN entries = {}
    BY DEF IndexInit
  <2> QED
    BY <2>1, <2>2 DEF IndexInit, IndexTypeOK
<1> QED
  BY <1>1 DEF IndexInit, IInv, Flags, Fresh, Sourced, Backwards, NewestBodyWins, Trailers, Scanned, Chained

---------------------------------------------------------------------------
\* Steps that neither read a section nor scan: what is found stays as it is.
LEMMA QuietSteps ==
  ASSUME IInv, Claim \/ GiveUp \/ SkipVisited \/ WalkEnds \/ Publish
  PROVE  IInv'
<1> USE DEF IInv, Sec, Plain, Compressed, Vouches, Forward, index
<1>1. CASE Claim
  BY <1>1 DEF Claim, IndexTypeOK, Flags, Fresh, Sourced, Backwards, NewestBodyWins, Trailers, Scanned,
     Chained
<1>2. CASE GiveUp
  <2>1. IndexTypeOK' /\ Flags' /\ Fresh' /\ Sourced' /\ Backwards' /\ Trailers'
    BY <1>2 DEF GiveUp, IndexTypeOK, Flags, Fresh, Sourced, Backwards, Trailers
  <2>2. NewestBodyWins' /\ Scanned'
    BY <1>2 DEF GiveUp, NewestBodyWins, Scanned
  <2>3. Chained'
    BY <1>2 DEF GiveUp, Chained
  <2> QED
    BY <2>1, <2>2, <2>3
<1>3. CASE SkipVisited
  <2>1. IndexTypeOK'
    BY <1>3 DEF SkipVisited, IndexTypeOK
  <2>2. Flags' /\ Sourced' /\ Trailers' /\ NewestBodyWins'
    BY <1>3 DEF SkipVisited, Flags, Found, Sourced, Trailers, NewestBodyWins
  <2>3. Fresh' /\ Scanned'
    BY <1>3 DEF SkipVisited, Fresh, Scanned
  <2>4. Backwards'
    <3>1. Head(worklist) \in visited /\ visited \subseteq Nat
      BY <1>3, OffsetsAreNumbers DEF SkipVisited, IndexTypeOK
    <3> QED
      BY <1>3, <3>1 DEF SkipVisited, Backwards
  <2>5. Chained'
    <3>1. Members(worklist) \subseteq visited \cup Members(worklist')
      BY <1>3, MembersOfTail DEF SkipVisited, IndexTypeOK
    <3> QED
      BY <1>3, <3>1 DEF SkipVisited, Chained
  <2> QED
    BY <2>1, <2>2, <2>3, <2>4, <2>5
<1>4. CASE WalkEnds
  <2>1. IndexTypeOK' /\ Flags' /\ Fresh' /\ Sourced' /\ Backwards' /\ Trailers' /\ NewestBodyWins'
    BY <1>4 DEF WalkEnds, IndexTypeOK, Flags, Fresh, Sourced, Backwards, Trailers, NewestBodyWins
  <2>2. Scanned'
    <3>1. \E v \in visited : Vouches(v)
      <4>1. any_entries \/ DOMAIN offsets # {} \/ DOMAIN entries # {}
        BY <1>4 DEF WalkEnds, NeedFallback
      <4>2. CASE any_entries
        BY <1>4, <4>2 DEF WalkEnds, Sourced
      <4>3. ASSUME NEW o \in DOMAIN offsets PROVE Vouches(offsets[o]) /\ offsets[o] \in visited
        BY <1>4, <4>3 DEF WalkEnds, Sourced, IndexTypeOK
      <4>4. ASSUME NEW o \in DOMAIN entries PROVE Vouches(entries[o]) /\ entries[o] \in visited
        BY <1>4, <4>4 DEF WalkEnds, Sourced, IndexTypeOK
      <4> QED
        BY <4>1, <4>2, <4>3, <4>4
    <3> QED
      BY <1>4, <3>1 DEF WalkEnds, Scanned
  <2>3. Chained'
    BY <1>4 DEF WalkEnds, Chained, Members
  <2> QED
    BY <2>1, <2>2, <2>3
<1>5. CASE Publish
  <2>1. IndexTypeOK' /\ Flags' /\ Fresh' /\ Sourced' /\ Backwards' /\ Trailers'
    BY <1>5 DEF Publish, IndexTypeOK, Flags, Found, Fresh, Sourced, Backwards, Trailers
  <2>2. NewestBodyWins' /\ Scanned'
    BY <1>5 DEF Publish, NewestBodyWins, Scanned, BodiesOf, HasBody, ScanLast
  <2>3. Chained'
    BY <1>5 DEF Publish, Chained, Members
  <2> QED
    BY <2>1, <2>2, <2>3
<1> QED
  BY <1>1, <1>2, <1>3, <1>4, <1>5

LEMMA BeginStep ==
  ASSUME IInv, Begin
  PROVE  IInv'
<1> USE DEF IInv, Begin, Sec, Forward
<1>1. IndexTypeOK'
  <2>1. file.start \in Offsets \cup {None}
    BY DEF IndexTypeOK, File
  <2>2. worklist' \in Seq(Offsets) /\ DOMAIN offsets' = {} /\ DOMAIN entries' = {}
    BY <2>1
  <2> QED
    BY <2>2 DEF IndexTypeOK
<1>2. Flags' /\ Fresh' /\ NewestBodyWins' /\ Trailers' /\ Scanned'
  BY DEF Flags, Fresh, NewestBodyWins, Trailers, Scanned
<1>3. Sourced' /\ Backwards'
  <2>1. DOMAIN offsets' = {} /\ DOMAIN entries' = {} /\ Len(worklist') <= 1
    OBVIOUS
  <2> QED
    BY <2>1 DEF Fresh, Sourced, Backwards
<1>4. Chained'
  BY DEF Chained, Members
<1> QED
  BY <1>1, <1>2, <1>3, <1>4

LEMMA LastTrailerTypes ==
  ASSUME file \in File
  PROVE  LastTrailer.root \in Objects \cup {0} /\ LastTrailer.size \in Nat
<1>1. CASE Tables = {}
  BY <1>1 DEF LastTrailer
<1>2. CASE Tables # {}
  <2>1. Tables \subseteq Offsets /\ Tables \subseteq 0..DataSize - 1
    BY OffsetsAssumption DEF Tables
  <2>2. PICK s \in Tables : s \in 0..DataSize - 1
    BY <1>2, <2>1
  <2>3. DataSize - 1 \in Nat
    BY <2>2, OffsetsAssumption
  <2>4. SetMax(Tables) \in Offsets
    BY <1>2, <2>1, <2>3, SetMaxIsGreatest
  <2>5. LastTrailer = [root |-> Sec(SetMax(Tables)).root, size |-> Sec(SetMax(Tables)).size]
    BY <1>2 DEF LastTrailer
  <2> QED
    BY <2>4, <2>5, SectionTypes
<1> QED
  BY <1>1, <1>2

LEMMA FallbackStep ==
  ASSUME IInv, Fallback
  PROVE  IInv'
<1> USE DEF IInv
<1>1. /\ phase = "walk" /\ phase' = "done" /\ file.start # None /\ NeedFallback
      /\ UNCHANGED <<file, worklist, visited, entries, built, failed>>
      /\ offsets' = [o \in {p \in Objects : BodiesOf(p) # {}} |-> ScanLast(o)]
      /\ any_entries' = (DOMAIN offsets' # {})
  BY DEF Fallback
<1>2. \A v \in visited : ~Vouches(v)
  BY <1>1 DEF NeedFallback, Sourced
<1>3. DOMAIN offsets' \subseteq Objects /\ \A o \in DOMAIN offsets' : offsets'[o] \in Offsets
  BY <1>1, ScanLastIsLast
<1>4. root' \in Objects \cup {0} /\ (root # 0 => root' = root)
  <2> DEFINE r == IF root = 0 THEN LastTrailer.root ELSE root
  <2>1. IF r # 0 \/ DOMAIN offsets' = {} THEN root' = r ELSE root' \in DOMAIN offsets'
    BY DEF Fallback
  <2>2. r \in Objects \cup {0} /\ (root # 0 => r = root)
    BY LastTrailerTypes DEF IndexTypeOK
  <2>3. 0 \notin Objects
    BY ObjectsAssumption
  <2> HIDE DEF r
  <2> QED
    BY <1>3, <2>1, <2>2, <2>3
<1>5. size' \in Nat /\ size <= size'
  <2> DEFINE z == SetMax({size, LastTrailer.size})
  <2>1. size' = IF z = 0 /\ DOMAIN offsets' # {} THEN SetMax(DOMAIN offsets') + 1 ELSE z
    BY DEF Fallback
  <2>2. size \in Nat /\ z \in Nat /\ size <= z
    BY MaxOfTwo, LastTrailerTypes DEF IndexTypeOK
  <2>3. DOMAIN offsets' # {} => SetMax(DOMAIN offsets') \in Nat
    <3>1. MaxObject \in Nat /\ Objects \subseteq 0..MaxObject
      BY ObjectsAssumption
    <3>2. DOMAIN offsets' \subseteq 0..MaxObject
      BY <1>3, <3>1
    <3> QED
      BY <3>1, <3>2, SetMaxIsGreatest
  <2> HIDE DEF z
  <2> QED
    BY <2>1, <2>2, <2>3
<1>6. IndexTypeOK'
  BY <1>1, <1>3, <1>4, <1>5 DEF IndexTypeOK
<1>7. Flags' /\ Fresh' /\ Sourced' /\ Backwards'
  BY <1>1 DEF Flags, Fresh, Sourced, Backwards
<1>8. NewestBodyWins'
  BY <1>1, <1>2 DEF NewestBodyWins, Plain, Vouches, Sec
<1>9. Trailers'
  <2>1. size \in Nat /\ \A v \in visited : v \in Offsets /\ Sec(v).size \in Nat
    BY SectionTypes DEF IndexTypeOK
  <2>2. \A v \in visited : Sec(v)' = Sec(v)
    BY <1>1 DEF Sec
  <2> QED
    BY <1>1, <1>4, <1>5, <2>1, <2>2 DEF Trailers
<1>10. Scanned'
  BY <1>1 DEF Scanned, BodiesOf, HasBody, ScanLast, Sec
<1>11. Chained'
  <2>1. worklist = <<>>
    BY DEF Fallback
  <2> QED
    BY <1>1, <2>1 DEF Chained, Members, Sec
<1> QED
  BY <1>6, <1>7, <1>8, <1>9, <1>10, <1>11

\* What a section's trailer adds, in terms the proofs of the invariants share.
LEMMA FollowEffect ==
  ASSUME IndexTypeOK, NEW s \in Offsets, worklist # <<>>, s = Head(worklist), FollowTrailer(s)
  PROVE  /\ worklist' \in Seq(Offsets) /\ root' \in Objects \cup {0} /\ size' \in Nat
         /\ size <= size' /\ (Sec(s).intact => Sec(s).size <= size')
         /\ root' = IF Sec(s).intact /\ root = 0 THEN Sec(s).root ELSE root
<1>1. Tail(worklist) \in Seq(Offsets) /\ size \in Nat /\ root \in Objects \cup {0}
  BY DEF IndexTypeOK
<1>2. Sec(s).size \in Nat /\ Sec(s).root \in Objects \cup {0} /\ Sec(s).intact \in BOOLEAN
  BY SectionTypes DEF IndexTypeOK
<1>3. CASE Sec(s).intact
  <2>1. Tail(worklist) \o Linked(s) \in Seq(Offsets)
    BY <1>1, LinkedTypes, ConcatProperties DEF IndexTypeOK
  <2> QED
    BY <1>1, <1>2, <1>3, <2>1, MaxOfTwo DEF FollowTrailer, MergeTrailer
<1>4. CASE ~Sec(s).intact
  BY <1>1, <1>2, <1>4 DEF FollowTrailer
<1> QED
  BY <1>3, <1>4

LEMMA VisitStep ==
  ASSUME IInv, Visit
  PROVE  IInv'
<1> USE DEF IInv
<1>1. PICK s \in Offsets :
        /\ phase = "walk" /\ worklist # <<>> /\ s = Head(worklist) /\ s \notin visited
        /\ visited' = visited \cup {s}
        /\ DOMAIN offsets' = DOMAIN offsets \cup {o \in Objects : Plain(s, o)}
        /\ \A o \in DOMAIN offsets : offsets'[o] = offsets[o]
        /\ \A o \in DOMAIN offsets' \ DOMAIN offsets : offsets'[o] = s /\ Plain(s, o)
        /\ DOMAIN entries' = DOMAIN entries \cup {o \in Objects : Compressed(s, o)}
        /\ \A o \in DOMAIN entries' :
              \/ entries'[o] = s /\ Compressed(s, o)
              \/ o \in DOMAIN entries /\ entries'[o] = entries[o]
        /\ any_entries' = (any_entries \/ Vouches(s))
        /\ FollowTrailer(s)
        /\ UNCHANGED <<file, phase, built, failed>>
  BY VisitEffect
<1>2. /\ worklist' \in Seq(Offsets) /\ root' \in Objects \cup {0} /\ size' \in Nat
      /\ size <= size' /\ (Sec(s).intact => Sec(s).size <= size')
      /\ root' = IF Sec(s).intact /\ root = 0 THEN Sec(s).root ELSE root
  BY <1>1, FollowEffect
<1>3. /\ \A v \in Offsets : Sec(v)' = Sec(v) /\ (Vouches(v)' <=> Vouches(v))
      /\ \A v \in Offsets, o \in Objects :
            (Plain(v, o)' <=> Plain(v, o)) /\ (Compressed(v, o)' <=> Compressed(v, o))
  BY <1>1 DEF Sec, Plain, Compressed, Vouches
<1>4. IndexTypeOK'
  BY <1>1, <1>2 DEF IndexTypeOK
<1>5. Flags' /\ Fresh' /\ Scanned'
  BY <1>1 DEF Flags, Fresh, Scanned, IndexTypeOK
<1>6. Sourced'
  <2>1. ASSUME NEW o \in DOMAIN offsets' PROVE offsets'[o] \in visited' /\ Plain(offsets'[o], o)
    BY <1>1, <2>1 DEF Sourced
  <2>2. ASSUME NEW o \in DOMAIN entries' PROVE entries'[o] \in visited' /\ Compressed(entries'[o], o)
    BY <1>1, <2>2 DEF Sourced
  <2>3. any_entries' <=> \E v \in visited' : Vouches(v)'
    BY <1>1, <1>3 DEF Sourced, IndexTypeOK
  <2>4. root' # 0 => \E v \in visited' : Sec(v)'.intact /\ Sec(v)'.root # 0
    BY <1>1, <1>2, <1>3 DEF Sourced, IndexTypeOK
  <2> QED
    BY <1>1, <2>1, <2>2, <2>3, <2>4 DEF Sourced, Plain, Compressed, Sec
<1>7. Backwards'
  <2> SUFFICES ASSUME Forward(file)
               PROVE  Len(worklist') <= 1 /\ (worklist' # <<>> => \A v \in visited' : Head(worklist') < v)
    BY <1>1 DEF Backwards
  <2>1. Tail(worklist) = <<>> /\ \A v \in visited : s < v
    BY <1>1 DEF Backwards, IndexTypeOK
  <2>2. CASE ~Sec(s).intact
    <3>1. worklist' = <<>>
      BY <1>1, <2>1, <2>2 DEF FollowTrailer
    <3> HIDE DEF IInv
    <3> QED
      BY <3>1
  <2>3. CASE Sec(s).intact
    <3>1. worklist' = Push(Sec(s).prev)
      <4>1. Sec(s).xrefstm = None /\ Sec(s).prev \in Offsets \cup {None}
        BY SectionTypes DEF Forward, Sec, IndexTypeOK
      <4>2. Push(None) = <<>> /\ Push(Sec(s).prev) \in Seq(Offsets)
        BY <4>1 DEF Push
      <4>3. <<>> \o (Push(Sec(s).prev) \o <<>>) = Push(Sec(s).prev)
        BY <4>2, ConcatEmptySeq
      <4> QED
        BY <1>1, <2>1, <2>3, <4>1, <4>2, <4>3 DEF FollowTrailer, Linked
    <3>2. CASE Sec(s).prev = None
      BY <3>1, <3>2 DEF Push
    <3>3. CASE Sec(s).prev # None
      <4>1. worklist' = <<Sec(s).prev>> /\ Sec(s).prev < s
        BY <3>1, <3>3 DEF Push, Forward, Sec
      <4>2. Sec(s).prev \in Nat /\ s \in Nat /\ \A v \in visited : v \in Nat
        BY <3>3, OffsetsAreNumbers, SectionTypes DEF IndexTypeOK
      <4> QED
        BY <1>1, <2>1, <4>1, <4>2
    <3> QED
      BY <3>2, <3>3
  <2> QED
    BY <2>2, <2>3
<1>8. NewestBodyWins'
  <2> SUFFICES ASSUME Forward(file), NEW v \in visited', NEW o \in Objects, Plain(v, o)
               PROVE  o \in DOMAIN offsets' /\ v <= offsets'[o]
    BY <1>1, <1>3, <1>4 DEF NewestBodyWins, IndexTypeOK
  <2>1. CASE v \in visited
    BY <1>1, <2>1 DEF NewestBodyWins
  <2>2. CASE v = s
    <3>1. o \in DOMAIN offsets'
      BY <1>1, <2>2
    <3>2. CASE o \in DOMAIN offsets
      <4>1. offsets[o] \in visited /\ \A w \in visited : s < w
        BY <1>1, <3>2 DEF Sourced, Backwards
      <4>2. s \in Nat /\ offsets[o] \in Nat
        BY <3>2, OffsetsAreNumbers DEF IndexTypeOK
      <4> QED
        BY <1>1, <2>2, <3>1, <3>2, <4>1, <4>2
    <3>3. CASE o \notin DOMAIN offsets
      BY <1>1, <2>2, <3>1, <3>3, OffsetsAreNumbers
    <3> QED
      BY <3>2, <3>3
  <2> QED
    BY <1>1, <2>1, <2>2
<1>9. Trailers'
  <2> SUFFICES ASSUME NEW v \in visited', Sec(v).intact
               PROVE  /\ Sec(v).size <= size'
                      /\ root' = 0 => Sec(v).root = 0
                      /\ Forward(file) /\ Sec(v).root # 0
                           /\ (\A w \in visited' : w > v /\ Sec(w).intact => Sec(w).root = 0)
                           => root' = Sec(v).root
    BY <1>1, <1>3, <1>4 DEF Trailers, IndexTypeOK
  <2>1. v \in Offsets /\ Sec(v).size \in Nat /\ size \in Nat
    BY <1>1, SectionTypes DEF IndexTypeOK
  <2>2. CASE v \in visited
    <3>1. Sec(v).size <= size'
      BY <1>2, <2>1, <2>2 DEF Trailers
    <3>2. root' = 0 => Sec(v).root = 0
      BY <1>2, <2>2 DEF Trailers
    <3>3. Sec(v).root # 0 => root # 0 /\ root' = root
      BY <1>2, <2>2 DEF Trailers
    <3> QED
      BY <1>1, <2>2, <3>1, <3>2, <3>3 DEF Trailers
  <2>3. CASE v = s
    <3>1. ASSUME Forward(file), Sec(v).root # 0,
                 \A w \in visited' : w > v /\ Sec(w).intact => Sec(w).root = 0
          PROVE  root' = Sec(v).root
      <4>1. \A w \in visited : s < w /\ w \in Nat /\ s \in Nat
        BY <1>1, <3>1, OffsetsAreNumbers DEF Backwards, IndexTypeOK
      <4>2. \A w \in visited : Sec(w).intact => Sec(w).root = 0
        BY <1>1, <2>3, <3>1, <4>1
      <4>3. root = 0
        BY <1>1, <4>2 DEF Sourced
      <4> QED
        BY <1>2, <2>3, <4>3
    <3> QED
      BY <1>2, <2>3, <3>1
  <2> QED
    BY <1>1, <2>2, <2>3
<1>10. Chained'
  <2>1. Members(worklist) = Members(Tail(worklist)) \cup {s}
    BY <1>1, MembersOfTail DEF IndexTypeOK
  <2>2. Tail(worklist) \in Seq(Offsets)
    BY <1>1 DEF IndexTypeOK
  <2>3. Members(Tail(worklist)) \subseteq Members(worklist')
    <3>1. CASE Sec(s).intact
      BY <1>1, <2>2, <3>1, LinkedTypes, MembersOfConcat DEF FollowTrailer, IndexTypeOK
    <3>2. CASE ~Sec(s).intact
      BY <1>1, <3>2 DEF FollowTrailer
    <3> QED
      BY <3>1, <3>2
  <2>4. Sec(s).intact => {Sec(s).prev, Sec(s).xrefstm} \subseteq Members(worklist') \cup {None}
    <3>1. Sec(s).intact => Members(Linked(s)) \subseteq Members(worklist')
      BY <1>1, <2>2, LinkedTypes, MembersOfConcat DEF FollowTrailer, IndexTypeOK
    <3>2. {Sec(s).prev, Sec(s).xrefstm} \subseteq Members(Linked(s)) \cup {None}
      BY MembersOfLinked DEF IndexTypeOK
    <3> QED
      BY <3>1, <3>2
  <2>5. visited \cup Members(worklist) \subseteq visited' \cup Members(worklist')
    BY <1>1, <2>1, <2>3
  <2>6. file.start # None => file.start \in visited' \cup Members(worklist')
    BY <1>1, <2>5 DEF Chained
  <2>7. ASSUME file.start # None, NEW v \in visited', Sec(v).intact
        PROVE  {Sec(v).prev, Sec(v).xrefstm} \subseteq visited' \cup Members(worklist') \cup {None}
    BY <1>1, <2>4, <2>5, <2>7 DEF Chained
  <2> QED
    BY <1>1, <2>6, <2>7 DEF Chained, Members, Sec
<1> QED
  BY <1>4, <1>5, <1>6, <1>7, <1>8, <1>9, <1>10

\* A step of the build keeps what was found, and what was found is still right.
THEOREM NextIInv == IInv /\ [IndexNext]_xref => IInv'
<1> SUFFICES ASSUME IInv, [IndexNext]_xref PROVE IInv'
  OBVIOUS
<1>1. CASE UNCHANGED xref
  BY <1>1 DEF xref, IInv, IndexTypeOK, Flags, Found, Fresh, Sourced, Backwards, NewestBodyWins,
     Trailers, Scanned, Chained, Members, Sec, Plain, Compressed, Vouches, Forward, BodiesOf,
     HasBody, ScanLast
<1>2. CASE IndexNext
  BY <1>2, QuietSteps, BeginStep, VisitStep, FallbackStep DEF IndexNext, BuildStep
<1> QED
  BY <1>1, <1>2

\* So IInv holds throughout a build that runs alone.
THEOREM BuildInvariance == IndexSpec => []IInv
  BY InitIInv, NextIInv, PTL DEF IndexSpec

---------------------------------------------------------------------------
\* build_object_offset_cache keeps its data well-formed: every offset it stores
\* or follows lies in the file.
THEOREM IndexTypes == IndexSpec => []IndexTypeOK
  BY BuildInvariance, IInvImplies, PTL

\* store_entry's promise, for objects with bodies of their own and files without
\* hybrid sections: an update never reverts to its predecessor.
THEOREM UpdatesPrevail == IndexSpec => []NewestBodyWins
  BY BuildInvariance, IInvImplies, PTL

\* The walk is complete: it misses no section that a readable trailer names.
THEOREM WalkIsComplete == IndexSpec => []ChainWalked
  BY BuildInvariance, IInvImplies, PTL

\* update_trailer merges the trailers so that the newest readable /Root stays.
THEOREM TrailersMerge == IndexSpec => []TrailerOfNewest
  BY BuildInvariance, IInvImplies, PTL

\* The fallback scan indexes every body of a file whose tables are useless.
THEOREM ScanFindsAll == IndexSpec => []ScanRecovers
  BY BuildInvariance, IInvImplies, PTL

\* object_offsets_built and object_offsets_failed say what the build found.
THEOREM FlagsAgree == IndexSpec => []PublishedMeansUsable
  BY BuildInvariance, IInvImplies, PTL

\* What build_object_offset_cache leaves behind can be relied on: its offsets lie in
\* the file and its flags say what it found.
THEOREM IndexIsSound == IndexSpec => []IndexSound
  BY IndexTypes, FlagsAgree, PTL DEF IndexSound

---------------------------------------------------------------------------
(***************************************************************************)
(* The same index when threads that load objects claim and run its build.  *)
(* What its readers depend on: whoever finds it neither built nor failed   *)
(* is the first, and what is compressed is in an object stream that is not *)
(* (StreamsArePlain).                                                      *)
(***************************************************************************)
Inside(s, o) == file.section[s].entry[o] = "c"

IndexInv ==
  /\ IInv
  /\ file \in Files
  /\ \A o \in DOMAIN entries : Inside(entries[o], o)

LEMMA FirstBody ==
  ASSUME NEW o, BodiesOf(o) # {}
  PROVE  ScanFirst(o) \in Offsets
<1>1. BodiesOf(o) \subseteq Offsets
  BY DEF BodiesOf
<1> QED
  BY <1>1, OffsetsAreNumbers, LeastNatural DEF ScanFirst, SetMin

\* Nothing touches the index when its build is over.
LEMMA IndexIsFinal ==
  ASSUME IInv, phase = "over"
  PROVE  ~Claim /\ ~BuildStep
  BY DEF IInv, Flags, Claim, BuildStep, Begin, GiveUp, SkipVisited, Visit, Fallback, WalkEnds, Publish

\* Any step of the store is one of the build or leaves the index alone.
LEMMA StoreMeansBuild == [Next]_vars => [IndexNext]_xref
  BY DEF Next, vars, ParseClaims, BuildRuns, Step, Lookup, ClaimBuild, BuildDone, Find, FindEntry,
     StreamHit, StreamMiss, InsertStream, Store, Call, SetCapacity, IndexNext

LEMMA IndexStep ==
  ASSUME IndexInv, [Next]_vars
  PROVE  /\ IndexInv'
         /\ phase = "over" => UNCHANGED xref
         /\ file' = file
<1>1. [IndexNext]_xref /\ IInv'
  BY StoreMeansBuild, NextIInv DEF IndexInv
<1>2. file' = file
  BY <1>1 DEF xref, IndexNext, Claim, BuildStep, Begin, GiveUp, SkipVisited, Visit, Fallback,
     WalkEnds, Publish
<1>3. \A o \in DOMAIN entries' : Inside(entries'[o], o)
  <2>1. CASE Visit
    <3> DEFINE g == CompressedOf(Head(worklist))
    <3>1. entries' = Override(entries, g)
      BY <2>1 DEF Visit
    <3>2. \A o \in DOMAIN g : Inside(g[o], o)
      BY DEF CompressedOf, Compressed, Sec, Inside
    <3> HIDE DEF g
    <3>3. \A o \in DOMAIN entries' :
            \/ o \in DOMAIN g /\ entries'[o] = g[o]
            \/ o \in DOMAIN entries /\ entries'[o] = entries[o]
      BY <3>1 DEF Override
    <3> QED
      BY <3>2, <3>3 DEF IndexInv
  <2>2. CASE ~Visit
    <3>1. DOMAIN entries' = {} \/ entries' = entries
      BY <1>1, <2>2 DEF xref, IndexNext, Claim, BuildStep, Begin, GiveUp, SkipVisited, Fallback,
         WalkEnds, Publish, index
    <3> QED
      BY <3>1 DEF IndexInv
  <2> QED
    BY <2>1, <2>2
<1>4. phase = "over" => UNCHANGED xref
  BY <1>1, IndexIsFinal DEF IndexInv, IndexNext
<1> QED
  BY <1>1, <1>2, <1>3, <1>4 DEF IndexInv, Inside

---------------------------------------------------------------------------
(* The order of the stream cache. *)

\* A position of k has a first one.
LEMMA FirstPosition ==
  ASSUME NEW K, NEW q \in Seq(K), NEW k, \E i \in DOMAIN q : q[i] = k
  PROVE  \E j \in DOMAIN q : q[j] = k /\ \A h \in 1..j - 1 : q[h] # k
<1> DEFINE T == {i \in DOMAIN q : q[i] = k}
<1>1. T \subseteq Nat /\ T # {}
  OBVIOUS
<1>2. PICK j \in T : \A h \in T : j <= h
  BY <1>1, LeastNatural
<1>3. j \in DOMAIN q /\ q[j] = k /\ \A h \in 1..j - 1 : h \in DOMAIN q /\ ~(j <= h)
  BY <1>2
<1> QED
  BY <1>2, <1>3

\* touch_cache_entry takes k out once; everything else stays.
LEMMA WithoutKeeps ==
  ASSUME NEW K, NEW q \in Seq(K), NEW k
  PROVE  /\ Without(q, k) \in Seq(K)
         /\ (\E i \in DOMAIN q : q[i] = k) => Len(Without(q, k)) = Len(q) - 1
         /\ \A i \in DOMAIN q : q[i] = k \/ \E j \in DOMAIN Without(q, k) : Without(q, k)[j] = q[i]
<1>1. CASE \E i \in DOMAIN q : q[i] = k
  <2> DEFINE n == CHOOSE j \in DOMAIN q : q[j] = k /\ \A h \in 1..j - 1 : q[h] # k
             a == SubSeq(q, 1, n - 1)
             b == SubSeq(q, n + 1, Len(q))
  <2>1. n \in DOMAIN q /\ q[n] = k
    BY <1>1, FirstPosition
  <2>2. Without(q, k) = a \o b
    BY <1>1 DEF Without
  <2> HIDE DEF n
  <2>3. n \in 1..Len(q)
    BY <2>1
  <2>4. /\ a \in Seq(K) /\ Len(a) = n - 1 /\ \A i \in 1..n - 1 : a[i] = q[i]
        /\ b \in Seq(K) /\ Len(b) = Len(q) - n /\ \A i \in 1..Len(q) - n : b[i] = q[n + i]
    BY <2>3
  <2> HIDE DEF a, b
  <2>5. a \o b \in Seq(K) /\ Len(a \o b) = Len(q) - 1
    <3>1. a \o b \in Seq(K) /\ Len(a \o b) = Len(a) + Len(b)
      BY <2>4, ConcatProperties
    <3>2. (n - 1) + (Len(q) - n) = Len(q) - 1
      BY <2>3
    <3> QED
      BY <2>4, <3>1, <3>2
  <2>6. ASSUME NEW i \in DOMAIN q, q[i] # k
        PROVE  \E j \in DOMAIN (a \o b) : (a \o b)[j] = q[i]
    <3>1. CASE i < n
      BY <2>3, <2>4, <2>5, <3>1
    <3>2. CASE i > n
      <4>1. i - 1 \in DOMAIN (a \o b) /\ (a \o b)[i - 1] = b[i - n]
        BY <2>3, <2>4, <2>5, <3>2
      <4>2. i - n \in 1..Len(q) - n /\ n + (i - n) = i
        BY <2>3, <3>2
      <4>3. b[i - n] = q[i]
        BY <2>4, <4>2
      <4> QED
        BY <4>1, <4>3
    <3> QED
      BY <2>1, <2>3, <2>6, <3>1, <3>2
  <2> QED
    BY <2>2, <2>5, <2>6
<1>2. CASE ~ \E i \in DOMAIN q : q[i] = k
  BY <1>2 DEF Without
<1> QED
  BY <1>1, <1>2

\* Trimming to cap leaves at most cap keys, and every key that was not evicted.
LEMMA TrimKeeps ==
  ASSUME NEW K, NEW q \in Seq(K), NEW cap \in Nat
  PROVE  /\ Trim(q, cap) \in Seq(K)
         /\ Len(Trim(q, cap)) <= cap
         /\ \A i \in DOMAIN q :
              q[i] \in Evicted(q, cap) \/ \E j \in DOMAIN Trim(q, cap) : Trim(q, cap)[j] = q[i]
<1>1. CASE Len(q) > cap
  <2> DEFINE m == Len(q) - cap
             s == SubSeq(q, m + 1, Len(q))
  <2>1. m \in Nat /\ m <= Len(q) /\ Len(q) - m = cap
    BY <1>1
  <2>2. Trim(q, cap) = s
    BY <1>1 DEF Trim
  <2>3. s \in Seq(K) /\ Len(s) = cap /\ \A i \in 1..cap : s[i] = q[m + i]
    BY <2>1
  <2>4. ASSUME NEW i \in DOMAIN q, i > m
        PROVE  \E j \in DOMAIN s : s[j] = q[i]
    <3>1. i - m \in 1..cap /\ m + (i - m) = i
      BY <2>1, <2>4
    <3> HIDE DEF s, m
    <3> QED
      BY <2>3, <3>1
  <2> HIDE DEF s
  <2>5. ASSUME NEW i \in DOMAIN q, ~(i > m)
        PROVE  q[i] \in Evicted(q, cap)
    <3>1. i \in 1..Len(q) - Len(Trim(q, cap))
      BY <2>1, <2>2, <2>3, <2>5
    <3> QED
      BY <3>1 DEF Evicted
  <2> QED
    BY <2>2, <2>3, <2>4, <2>5
<1>2. CASE ~(Len(q) > cap)
  BY <1>2 DEF Trim
<1> QED
  BY <1>1, <1>2

\* Where k occurs in q.
Occurs(k, q) == \E i \in DOMAIN q : q[i] = k

\* A cache whose keys are in the queue stays so when the queue is trimmed.
LEMMA DropCovers ==
  ASSUME NEW K, NEW q \in Seq(K), NEW cap \in Nat, NEW c,
         \A k \in DOMAIN c : Occurs(k, q)
  PROVE  /\ DOMAIN Drop(c, Evicted(q, cap)) \subseteq DOMAIN c
         /\ \A k \in DOMAIN Drop(c, Evicted(q, cap)) :
              Drop(c, Evicted(q, cap))[k] = c[k] /\ Occurs(k, Trim(q, cap))
<1>1. /\ DOMAIN Drop(c, Evicted(q, cap)) = DOMAIN c \ Evicted(q, cap)
      /\ \A k \in DOMAIN c \ Evicted(q, cap) : Drop(c, Evicted(q, cap))[k] = c[k]
  BY DEF Drop
<1>2. ASSUME NEW k \in DOMAIN c, k \notin Evicted(q, cap)
      PROVE  Occurs(k, Trim(q, cap))
  <2>1. PICK i \in DOMAIN q : q[i] = k
    BY DEF Occurs
  <2> QED
    BY <1>2, <2>1, TrimKeeps DEF Occurs
<1> QED
  BY <1>1, <1>2

---------------------------------------------------------------------------
(***************************************************************************)
(* Types, the bound of the stream cache and what a call has in hand where  *)
(* it is.                                                                  *)
(***************************************************************************)
CacheInv ==
  /\ DOMAIN object_cache \subseteq Objects
  /\ \A o \in DOMAIN object_cache : object_cache[o] \in Offsets
  /\ DOMAIN stream_cache \subseteq Objects
  /\ \A k \in DOMAIN stream_cache : stream_cache[k] \in Offsets /\ Occurs(k, stream_order)
  /\ stream_order \in Seq(Objects)
  /\ capacity \in Nat \ {0}
  /\ Len(stream_order) <= capacity

CallTypes ==
  /\ pc \in [Threads -> PCs]
  /\ want \in [Threads -> Objects]
  /\ nested \in [Threads -> BOOLEAN]
  /\ entry \in [Threads -> Offsets \cup {None}]
  /\ body \in [Threads -> Offsets \cup {None}]
  /\ raced \in BOOLEAN

InHand(t) ==
  /\ nested[t] => entry[t] \in Offsets /\ pc[t] \notin {"idle", "answered"}
  /\ pc[t] \in {"stream", "insert"} => nested[t]
  /\ pc[t] \in {"store", "stream", "insert"} => body[t] \in Offsets

Shape == IndexInv /\ CacheInv /\ CallTypes /\ \A t \in Threads : InHand(t)

\* The target of a frame is an object, and that of an inner frame is not compressed.
LEMMA TargetTypes ==
  ASSUME Shape, NEW t \in Threads
  PROVE  /\ Target(t) \in Objects
         /\ nested[t] => Target(t) \notin DOMAIN entries
<1>1. Target(t) \in Objects
  BY StreamOfAssumption DEF Shape, CallTypes, InHand, Target
<1>2. ASSUME nested[t], Target(t) \in DOMAIN entries
      PROVE  FALSE
  <2>1. entry[t] \in Offsets /\ entries[Target(t)] \in Offsets /\ file \in Files
    BY <1>2 DEF Shape, InHand, IndexInv, IInv, IndexTypeOK
  <2>2. Inside(entries[Target(t)], Target(t)) /\ Target(t) = StreamOf[entry[t]]
    BY <1>2 DEF Shape, IndexInv, Target
  <2> QED
    BY <2>1, <2>2, StreamsArePlain DEF Inside
<1> QED
  BY <1>1, <1>2

LEMMA InitShape == Init => Shape
<1> SUFFICES ASSUME Init PROVE Shape
  OBVIOUS
<1>1. IndexInv
  BY InitIInv DEF Init, IndexInit, IndexInv
<1>2. CacheInv
  <2>1. DOMAIN object_cache = {} /\ DOMAIN stream_cache = {} /\ stream_order \in Seq(Objects)
        /\ Len(stream_order) = 0
    BY DEF Init
  <2> QED
    BY <2>1, CapacityAssumption DEF Init, CacheInv
<1>3. CallTypes /\ \A t \in Threads : InHand(t)
  BY DEF Init, CallTypes, PCs, InHand
<1> QED
  BY <1>1, <1>2, <1>3 DEF Shape

\* Trimming the order to a new capacity, and the cache with it.
LEMMA TrimmedCache ==
  ASSUME NEW q \in Seq(Objects), NEW cap \in Nat \ {0}, NEW c,
         DOMAIN c \subseteq Objects,
         \A k \in DOMAIN c : c[k] \in Offsets /\ Occurs(k, q),
         capacity' = cap, object_cache' = object_cache, CacheInv,
         stream_order' = Trim(q, cap), stream_cache' = Drop(c, Evicted(q, cap))
  PROVE  CacheInv'
<1>1. Trim(q, cap) \in Seq(Objects) /\ Len(Trim(q, cap)) <= cap
  BY TrimKeeps
<1>2. /\ DOMAIN Drop(c, Evicted(q, cap)) \subseteq DOMAIN c
      /\ \A k \in DOMAIN Drop(c, Evicted(q, cap)) :
           Drop(c, Evicted(q, cap))[k] = c[k] /\ Occurs(k, Trim(q, cap))
  BY DropCovers
<1> QED
  BY <1>1, <1>2 DEF CacheInv, Occurs

\* A used or a new key goes to the end of the order.
LEMMA AppendOccurs ==
  ASSUME NEW q \in Seq(Objects), NEW k \in Objects
  PROVE  /\ Append(q, k) \in Seq(Objects)
         /\ Occurs(k, Append(q, k))
         /\ \A j : Occurs(j, q) => Occurs(j, Append(q, k))
<1>1. Len(q) + 1 \in DOMAIN Append(q, k) /\ Append(q, k)[Len(q) + 1] = k
  OBVIOUS
<1>2. \A i \in DOMAIN q : i \in DOMAIN Append(q, k) /\ Append(q, k)[i] = q[i]
  OBVIOUS
<1> QED
  BY <1>1, <1>2 DEF Occurs

LEMMA TouchOccurs ==
  ASSUME NEW q \in Seq(Objects), NEW k \in Objects
  PROVE  /\ Append(Without(q, k), k) \in Seq(Objects)
         /\ \A j : Occurs(j, q) => Occurs(j, Append(Without(q, k), k))
<1>1. /\ Without(q, k) \in Seq(Objects)
      /\ \A j : Occurs(j, q) => j = k \/ Occurs(j, Without(q, k))
  BY WithoutKeeps DEF Occurs
<1> QED
  BY <1>1, AppendOccurs

LEMMA CachesStayBounded ==
  ASSUME Shape, Next
  PROVE  CacheInv'
<1> USE DEF Shape
<1>1. CASE UNCHANGED caches
  BY <1>1 DEF caches, CacheInv, Occurs
<1>2. CASE BuildRuns
  <2>1. CASE phase = "claimed"
    BY <1>2, <2>1 DEF BuildRuns, CacheInv
  <2>2. CASE phase # "claimed"
    BY <1>2, <2>2 DEF BuildRuns, CacheInv, Occurs
  <2> QED
    BY <2>1, <2>2
<1>3. ASSUME NEW n \in Capacities, SetCapacity(n)
      PROVE  CacheInv'
  <2> DEFINE cap == IF n = 0 THEN 1 ELSE n
  <2>1. cap \in Nat \ {0}
    BY CapacityAssumption
  <2>2. /\ capacity' = cap /\ object_cache' = object_cache
        /\ stream_order' = Trim(stream_order, cap)
        /\ stream_cache' = Drop(stream_cache, Evicted(stream_order, cap))
    BY <1>3 DEF SetCapacity
  <2> HIDE DEF cap
  <2> QED
    BY <2>1, <2>2, TrimmedCache DEF CacheInv
<1>4. ASSUME NEW t \in Threads, StreamHit(t)
      PROVE  CacheInv'
  <2> DEFINE q == Append(Without(stream_order, Target(t)), Target(t))
  <2>1. /\ capacity' = capacity /\ object_cache' = object_cache
        /\ stream_order' = Trim(q, capacity)
        /\ stream_cache' = Drop(stream_cache, Evicted(q, capacity))
    BY <1>4 DEF StreamHit
  <2>2. q \in Seq(Objects) /\ \A j : Occurs(j, stream_order) => Occurs(j, q)
    BY TouchOccurs, TargetTypes DEF CacheInv
  <2> HIDE DEF q
  <2> QED
    BY <2>1, <2>2, TrimmedCache DEF CacheInv
<1>5. ASSUME NEW t \in Threads, InsertStream(t)
      PROVE  CacheInv'
  <2> DEFINE k == Target(t)
             q == Append(stream_order, k)
             c == [j \in DOMAIN stream_cache \cup {k} |->
                     IF j \in DOMAIN stream_cache THEN stream_cache[j] ELSE body[t]]
  <2>1. /\ capacity' = capacity /\ object_cache' = object_cache
        /\ stream_order' = Trim(q, capacity)
        /\ stream_cache' = Drop(c, Evicted(q, capacity))
    BY <1>5 DEF InsertStream
  <2>2. /\ q \in Seq(Objects) /\ Occurs(k, q) /\ k \in Objects
        /\ \A j : Occurs(j, stream_order) => Occurs(j, q)
    BY AppendOccurs, TargetTypes DEF CacheInv
  <2>3. body[t] \in Offsets
    BY <1>5 DEF InsertStream, InHand
  <2> HIDE DEF q, k
  <2>4. DOMAIN c \subseteq Objects /\ \A j \in DOMAIN c : c[j] \in Offsets /\ Occurs(j, q)
    BY <2>2, <2>3 DEF CacheInv
  <2> HIDE DEF c
  <2> QED
    BY <2>1, <2>2, <2>4, TrimmedCache DEF CacheInv
<1>6. ASSUME NEW t \in Threads, Store(t)
      PROVE  CacheInv'
  <2>1. Target(t) \in Objects /\ body[t] \in Offsets
    BY <1>6, TargetTypes DEF Store, InHand
  <2>2. DOMAIN object_cache' \subseteq Objects /\ \A o \in DOMAIN object_cache' : object_cache'[o] \in Offsets
    BY <1>6, <2>1 DEF Store, CacheInv
  <2> QED
    BY <1>6, <2>2 DEF Store, CacheInv, Occurs
<1>7. \/ UNCHANGED caches \/ BuildRuns
      \/ \E n \in Capacities : SetCapacity(n)
      \/ \E t \in Threads : StreamHit(t) \/ InsertStream(t) \/ Store(t)
  BY DEF Next, Step, ParseClaims, Lookup, ClaimBuild, BuildDone, Find, FindEntry, StreamMiss, Call
<1> QED
  BY <1>1, <1>2, <1>3, <1>4, <1>5, <1>6, <1>7

\* The threads but t are where they were.
Others(t) ==
  \A s \in Threads \ {t} :
    /\ pc'[s] = pc[s] /\ want'[s] = want[s] /\ nested'[s] = nested[s]
    /\ entry'[s] = entry[s] /\ body'[s] = body[s]

\* A step of a call: types, the other threads, and what it has in hand.
LEMMA CallStep ==
  ASSUME Shape, NEW t \in Threads, Step(t) \/ \E o \in Objects : Call(t, o)
  PROVE  CallTypes' /\ Others(t) /\ InHand(t)'
<1> USE DEF CallTypes, Others
<1>1. CallTypes /\ InHand(t)
  BY DEF Shape
<1>2. ASSUME NEW o \in Objects, Call(t, o)
      PROVE  CallTypes' /\ Others(t) /\ InHand(t)'
  BY <1>1, <1>2 DEF Call, Goto, PCs, InHand
<1>3. ASSUME Lookup(t)
      PROVE  CallTypes' /\ Others(t) /\ InHand(t)'
  <2>1. CASE Target(t) \in DOMAIN object_cache
    <3>1. object_cache[Target(t)] \in Offsets /\ object_cache[Target(t)] # None
      BY <2>1, NoneAssumption DEF Shape, CacheInv
    <3> QED
      BY <1>1, <1>3, <2>1, <3>1 DEF Lookup, Return, Goto, PCs, InHand
  <2>2. CASE Target(t) \notin DOMAIN object_cache
    BY <1>1, <1>3, <2>2 DEF Lookup, Goto, PCs, InHand
  <2> QED
    BY <2>1, <2>2
<1>4. ASSUME ClaimBuild(t) \/ BuildDone(t)
      PROVE  CallTypes' /\ Others(t) /\ InHand(t)'
  BY <1>1, <1>4 DEF ClaimBuild, BuildDone, Goto, PCs, InHand
<1>5. ASSUME Find(t)
      PROVE  CallTypes' /\ Others(t) /\ InHand(t)'
  <2>1. \A o \in DOMAIN offsets : offsets[o] \in Offsets
    BY DEF Shape, IndexInv, IInv, IndexTypeOK
  <2> QED
    BY <1>1, <1>5, <2>1 DEF Find, Goto, PCs, InHand
<1>6. ASSUME FindEntry(t)
      PROVE  CallTypes' /\ Others(t) /\ InHand(t)'
  <2>1. \A o \in DOMAIN entries : entries[o] \in Offsets
    BY DEF Shape, IndexInv, IInv, IndexTypeOK
  <2>2. ScanFirst(Target(t)) \in Offsets \cup {None}
    BY FirstBody DEF ScanFirst
  <2> DEFINE r == ScanFirst(Target(t))
  <2>3. CASE Target(t) \in DOMAIN entries
    BY <1>1, <1>6, <2>1, <2>3 DEF FindEntry, Goto, PCs, InHand
  <2>4. ASSUME Target(t) \notin DOMAIN entries
        PROVE  CallTypes' /\ Others(t) /\ InHand(t)'
    <3>1. /\ pc[t] = "entry" /\ UNCHANGED <<want, raced, entry>>
          /\ IF r = None THEN Return(t, None)
             ELSE /\ body' = [body EXCEPT ![t] = r]
                  /\ Goto(t, "store")
                  /\ UNCHANGED nested
      BY <1>6, <2>4 DEF FindEntry
    <3> HIDE DEF r
    <3>2. r \in Offsets \cup {None}
      BY <2>2 DEF r
    <3> QED
      BY <1>1, <3>1, <3>2 DEF Return, Goto, PCs, InHand
  <2> QED
    BY <2>3, <2>4
<1>7. ASSUME NEW r \in Offsets, Extracted(t, r), nested' = [nested EXCEPT ![t] = FALSE],
             UNCHANGED <<want, entry, raced>>
      PROVE  CallTypes' /\ Others(t) /\ InHand(t)'
  <2> DEFINE o == Extract(want[t], Target(t), r)
  <2>1. o = r \/ o = None
    BY DEF Extract
  <2>2. body' = [body EXCEPT ![t] = o] /\ Goto(t, IF o = None THEN "answered" ELSE "store")
    BY <1>7 DEF Extracted
  <2> HIDE DEF o
  <2> QED
    BY <1>1, <1>7, <2>1, <2>2 DEF Goto, PCs, InHand
<1>8. ASSUME StreamHit(t)
      PROVE  CallTypes' /\ Others(t) /\ InHand(t)'
  <2>1. stream_cache[Target(t)] \in Offsets
    BY <1>8 DEF StreamHit, Shape, CacheInv
  <2> QED
    BY <1>7, <1>8, <2>1 DEF StreamHit
<1>9. ASSUME InsertStream(t)
      PROVE  CallTypes' /\ Others(t) /\ InHand(t)'
  <2>1. body[t] \in Offsets
    BY <1>1, <1>9 DEF InsertStream, InHand
  <2> QED
    BY <1>7, <1>9, <2>1 DEF InsertStream
<1>10. ASSUME StreamMiss(t)
       PROVE  CallTypes' /\ Others(t) /\ InHand(t)'
  BY <1>1, <1>10 DEF StreamMiss, Goto, PCs, InHand
<1>11. ASSUME Store(t)
       PROVE  CallTypes' /\ Others(t) /\ InHand(t)'
  <2>1. body[t] \in Offsets /\ body[t] # None
    BY <1>1, <1>11, NoneAssumption DEF Store, InHand
  <2> QED
    BY <1>1, <1>11, <2>1 DEF Store, Return, Goto, PCs, InHand
<1> QED
  BY <1>2, <1>3, <1>4, <1>5, <1>6, <1>8, <1>9, <1>10, <1>11 DEF Step

\* Every step of a call or of the build keeps the shape of index, caches and calls.
THEOREM NextShape == Shape /\ [Next]_vars => Shape'
<1> SUFFICES ASSUME Shape, [Next]_vars PROVE Shape'
  OBVIOUS
<1>1. IndexInv'
  BY IndexStep DEF Shape
<1>2. CASE UNCHANGED vars
  BY <1>1, <1>2 DEF vars, caches, local, Shape, CacheInv, Occurs, CallTypes, InHand
<1>3. CASE UNCHANGED <<local, raced>> /\ Next
  BY <1>1, <1>3, CachesStayBounded DEF local, Shape, CallTypes, InHand
<1>4. ASSUME Next, NEW t \in Threads, Step(t) \/ \E o \in Objects : Call(t, o)
      PROVE  Shape'
  <2>1. CallTypes' /\ Others(t) /\ InHand(t)'
    BY <1>4, CallStep
  <2>2. ASSUME NEW s \in Threads \ {t} PROVE InHand(s)'
    BY <2>1 DEF Others, Shape, InHand
  <2> QED
    BY <1>1, <1>4, <2>1, <2>2, CachesStayBounded DEF Shape
<1>5. Next => \/ UNCHANGED <<local, raced>>
              \/ \E t \in Threads : Step(t) \/ \E o \in Objects : Call(t, o)
  BY DEF Next, ParseClaims, BuildRuns, SetCapacity
<1> QED
  BY <1>2, <1>3, <1>4, <1>5

---------------------------------------------------------------------------
(***************************************************************************)
(* Before the index is built, a document that nobody used yet is at rest;  *)
(* after that, caches and calls hold what a lone caller would get.         *)
(***************************************************************************)
AtRest ==
  /\ DOMAIN object_cache = {} /\ DOMAIN stream_cache = {}
  /\ \A t \in Threads : pc[t] = "idle"

CachesAlone ==
  /\ \A o \in DOMAIN object_cache : object_cache[o] = Alone(o)
  /\ \A k \in DOMAIN stream_cache :
       stream_cache[k] = AlonePlain(k) /\ stream_cache[k] \notin Undecodable

Direct(o) == built /\ o \in DOMAIN offsets

OnTheWay(t) ==
  /\ nested[t] => ~Direct(want[t]) /\ want[t] \in DOMAIN entries /\ entry[t] = entries[want[t]]
  /\ pc[t] = "entry" => ~Direct(Target(t))
  /\ pc[t] = "store" => body[t] = Alone(Target(t))
  /\ pc[t] \in {"stream", "insert"} => body[t] = AlonePlain(Target(t))
  /\ pc[t] = "insert" => body[t] \notin Undecodable
  /\ pc[t] = "answered" => body[t] = Alone(want[t])

Undisturbed ==
  ~raced => IF phase = "over" THEN CachesAlone /\ \A t \in Threads : OnTheWay(t) ELSE AtRest

\* What a lone caller gets depends on the index alone.
LEMMA AloneStays ==
  ASSUME UNCHANGED xref
  PROVE  \A o : Alone(o)' = Alone(o) /\ AlonePlain(o)' = AlonePlain(o) /\ (Direct(o)' <=> Direct(o))
<1> TAKE o
<1>1. AlonePlain(o)' = AlonePlain(o)
  BY DEF xref, AlonePlain, ScanFirst, BodiesOf, HasBody, Sec
<1>2. Alone(o)' = Alone(o)
  BY DEF xref, Alone, AlonePlain, ScanFirst, BodiesOf, HasBody, Sec, Compressed
<1> QED
  BY <1>1, <1>2 DEF xref, Direct

\* The object in a stream that a lone caller gets is the one extracted here.
LEMMA NestedAlone ==
  ASSUME Shape, NEW t \in Threads, nested[t], OnTheWay(t)
  PROVE  LET k == Target(t)
             r == AlonePlain(k)
         IN  /\ Alone(k) = r
             /\ Alone(want[t]) = IF r = None \/ r \in Undecodable THEN None
                                ELSE Extract(want[t], k, r)
<1>1. Target(t) \notin DOMAIN entries
  BY TargetTypes
<1>2. Alone(Target(t)) = AlonePlain(Target(t))
  BY <1>1 DEF Alone
<1>3. Target(t) = StreamOf[entries[want[t]]] /\ want[t] \in DOMAIN entries /\ ~Direct(want[t])
  BY DEF Target, OnTheWay
<1>4. Alone(want[t]) = LET k == Target(t)
                           r == AlonePlain(k)
                       IN  IF r # None /\ r \notin Undecodable /\ StreamOf[r] = k /\ Compressed(r, want[t])
                             THEN r ELSE None
  BY <1>3 DEF Alone, Direct
<1> QED
  BY <1>2, <1>4 DEF Extract

\* Where the index is final, a thread that does not move stays on its way.
LEMMA OthersStay ==
  ASSUME UNCHANGED xref, NEW t, NEW s \in Threads \ {t}, Others(t), OnTheWay(s)
  PROVE  OnTheWay(s)'
<1>1. /\ pc'[s] = pc[s] /\ want'[s] = want[s] /\ nested'[s] = nested[s]
      /\ entry'[s] = entry[s] /\ body'[s] = body[s]
  BY DEF Others
<1>2. Target(s)' = Target(s)
  BY <1>1 DEF Target
<1>3. entries' = entries
  BY DEF xref
<1> QED
  BY <1>1, <1>2, <1>3, AloneStays DEF OnTheWay

Parsed == Shape /\ phase = "over" /\ CachesAlone /\ \A t \in Threads : OnTheWay(t)

\* The caches of a parsed document only ever get what a lone caller would get.
LEMMA CachesStayAlone ==
  ASSUME Parsed, Next, UNCHANGED xref
  PROVE  CachesAlone'
<1>1. CASE UNCHANGED caches
  BY <1>1, AloneStays DEF caches, Parsed, CachesAlone
<1>2. ASSUME NEW c, NEW K, stream_cache' = Drop(c, K), object_cache' = object_cache,
             \A k \in DOMAIN c : c[k] = AlonePlain(k) /\ c[k] \notin Undecodable
      PROVE  CachesAlone'
  <2>1. \A k \in DOMAIN stream_cache' : k \in DOMAIN c /\ stream_cache'[k] = c[k]
    BY <1>2 DEF Drop
  <2> QED
    BY <1>2, <2>1, AloneStays DEF Parsed, CachesAlone
<1>3. ASSUME NEW n \in Capacities, SetCapacity(n)
      PROVE  CachesAlone'
  BY <1>2, <1>3 DEF SetCapacity, Parsed, CachesAlone
<1>4. ASSUME NEW t \in Threads, StreamHit(t)
      PROVE  CachesAlone'
  BY <1>2, <1>4 DEF StreamHit, Parsed, CachesAlone
<1>5. ASSUME NEW t \in Threads, InsertStream(t)
      PROVE  CachesAlone'
  <2> DEFINE k == Target(t)
             c == [j \in DOMAIN stream_cache \cup {k} |->
                     IF j \in DOMAIN stream_cache THEN stream_cache[j] ELSE body[t]]
  <2>1. body[t] = AlonePlain(k) /\ body[t] \notin Undecodable
    BY <1>5 DEF InsertStream, Parsed, OnTheWay
  <2>2. /\ object_cache' = object_cache
        /\ \E K : stream_cache' = Drop(c, K)
    BY <1>5 DEF InsertStream
  <2> HIDE DEF k
  <2>3. \A j \in DOMAIN c : c[j] = AlonePlain(j) /\ c[j] \notin Undecodable
    BY <2>1 DEF Parsed, CachesAlone
  <2> HIDE DEF c
  <2> QED
    BY <1>2, <2>2, <2>3
<1>6. ASSUME NEW t \in Threads, Store(t)
      PROVE  CachesAlone'
  <2> DEFINE k == Target(t)
  <2>1. body[t] = Alone(k)
    BY <1>6 DEF Store, Parsed, OnTheWay
  <2>2. /\ stream_cache' = stream_cache
        /\ object_cache' = IF k \in Large THEN object_cache
                           ELSE [o \in DOMAIN object_cache \cup {k} |->
                                   IF o = k THEN body[t] ELSE object_cache[o]]
    BY <1>6 DEF Store
  <2> HIDE DEF k
  <2>3. \A o \in DOMAIN object_cache' : object_cache'[o] = Alone(o)
    BY <2>1, <2>2 DEF Parsed, CachesAlone
  <2> QED
    BY <2>2, <2>3, AloneStays DEF Parsed, CachesAlone
<1>7. \/ UNCHANGED caches
      \/ \E n \in Capacities : SetCapacity(n)
      \/ \E t \in Threads : StreamHit(t) \/ InsertStream(t) \/ Store(t)
  <2>1. ~BuildRuns
    BY IndexIsFinal DEF Parsed, Shape, IndexInv, BuildRuns
  <2> QED
    BY <2>1 DEF Next, Step, ParseClaims, Lookup, ClaimBuild, BuildDone, Find, FindEntry,
       StreamMiss, Call
<1> QED
  BY <1>1, <1>3, <1>4, <1>5, <1>6, <1>7

\* A call that took the object out of the right bytes of the right stream.
LEMMA ExtractedAlone ==
  ASSUME Parsed, UNCHANGED xref, NEW t \in Threads, nested[t], NEW r \in Offsets,
         r = AlonePlain(Target(t)), r \notin Undecodable, Extracted(t, r),
         nested' = [nested EXCEPT ![t] = FALSE], UNCHANGED <<want, entry>>
  PROVE  OnTheWay(t)'
<1> DEFINE o == Extract(want[t], Target(t), r)
<1>1. r # None
  BY NoneAssumption
<1>2. o = Alone(want[t])
  BY <1>1, NestedAlone DEF Parsed
<1>3. body' = [body EXCEPT ![t] = o] /\ Goto(t, IF o = None THEN "answered" ELSE "store")
  BY DEF Extracted
<1>4. pc \in [Threads -> PCs] /\ body \in [Threads -> Offsets \cup {None}] /\ nested \in [Threads -> BOOLEAN]
  BY DEF Parsed, Shape, CallTypes
<1> HIDE DEF o
<1>5. /\ body'[t] = Alone(want[t]) /\ pc'[t] \in {"answered", "store"} /\ nested'[t] = FALSE
      /\ want'[t] = want[t]
  BY <1>2, <1>3, <1>4 DEF Goto
<1>6. Target(t)' = want[t]
  BY <1>5 DEF Target
<1> QED
  BY <1>5, <1>6, AloneStays DEF OnTheWay

LEMMA CallStaysAlone ==
  ASSUME Parsed, UNCHANGED xref, NEW t \in Threads, Step(t) \/ \E o \in Objects : Call(t, o)
  PROVE  OnTheWay(t)'
<1>1. CallTypes /\ InHand(t) /\ OnTheWay(t) /\ Shape
  BY DEF Parsed, Shape
<1>2. entries' = entries
  BY DEF xref
<1> USE DEF CallTypes
<1>3. ASSUME NEW o \in Objects, Call(t, o)
      PROVE  OnTheWay(t)'
  BY <1>1, <1>3 DEF Call, Goto, InHand, OnTheWay
<1>4. ASSUME UNCHANGED <<want, entry>>, nested[t], nested' = [nested EXCEPT ![t] = FALSE],
             body' = [body EXCEPT ![t] = None], Goto(t, "answered"), Alone(want[t]) = None
      PROVE  OnTheWay(t)'
  BY <1>1, <1>4, AloneStays DEF Goto, OnTheWay
<1>5. ASSUME NEW v, Return(t, v), UNCHANGED <<want, entry>>, v = Alone(Target(t)),
             v \in Offsets \cup {None}
      PROVE  OnTheWay(t)'
  <2>1. CASE nested[t] /\ v # None
    <3>1. v = AlonePlain(Target(t))
      BY <1>1, <1>5, <2>1, NestedAlone
    <3>2. /\ body'[t] = v /\ pc'[t] = "stream" /\ nested'[t] = nested[t] /\ want'[t] = want[t]
          /\ entry'[t] = entry[t]
      BY <1>1, <1>5, <2>1 DEF Return, Goto
    <3>3. Target(t)' = Target(t)
      BY <3>2 DEF Target
    <3> QED
      BY <1>1, <1>2, <2>1, <3>1, <3>2, <3>3, AloneStays DEF OnTheWay
  <2>2. CASE nested[t] /\ v = None
    <3>1. Alone(want[t]) = None
      BY <1>1, <1>5, <2>2, NestedAlone
    <3> QED
      BY <1>4, <1>5, <2>2, <3>1 DEF Return
  <2>3. CASE ~nested[t]
    <3>1. body'[t] = v /\ pc'[t] = "answered" /\ nested'[t] = FALSE /\ want'[t] = want[t]
      BY <1>1, <1>5, <2>3 DEF Return, Goto
    <3>2. v = Alone(want[t])
      BY <1>5, <2>3 DEF Target
    <3> QED
      BY <3>1, <3>2, AloneStays DEF OnTheWay
  <2> QED
    BY <2>1, <2>2, <2>3
<1>6. ASSUME UNCHANGED <<want, entry, nested>>, pc'[t] \in {"claim", "find", "entry", "store"},
             pc'[t] = "entry" => ~Direct(Target(t)),
             pc'[t] = "store" => body'[t] = Alone(Target(t))
      PROVE  OnTheWay(t)'
  <2>1. Target(t)' = Target(t)
    BY <1>6 DEF Target
  <2> QED
    BY <1>1, <1>2, <1>6, <2>1, AloneStays DEF OnTheWay
<1>7. ASSUME Lookup(t)
      PROVE  OnTheWay(t)'
  <2>1. CASE Target(t) \in DOMAIN object_cache
    <3>1. /\ object_cache[Target(t)] = Alone(Target(t)) /\ object_cache[Target(t)] \in Offsets
          /\ Return(t, object_cache[Target(t)]) /\ UNCHANGED <<want, entry>>
      BY <1>7, <2>1 DEF Lookup, Parsed, CachesAlone, Shape, CacheInv
    <3> QED
      BY <1>5, <3>1
  <2>2. CASE Target(t) \notin DOMAIN object_cache
    BY <1>1, <1>6, <1>7, <2>2 DEF Lookup, Goto
  <2> QED
    BY <2>1, <2>2
<1>8. ASSUME ClaimBuild(t) \/ BuildDone(t)
      PROVE  OnTheWay(t)'
  <2>1. ~Claim
    BY IndexIsFinal DEF Parsed, Shape, IndexInv
  <2>2. pc'[t] = "find" /\ UNCHANGED <<want, entry, nested>>
    BY <1>1, <1>8, <2>1 DEF ClaimBuild, BuildDone, Goto
  <2> QED
    BY <1>6, <2>2
<1>9. ASSUME Find(t)
      PROVE  OnTheWay(t)'
  <2>1. CASE Direct(Target(t))
    <3>1. pc'[t] = "store" /\ body'[t] = offsets[Target(t)] /\ UNCHANGED <<want, entry, nested>>
      BY <1>1, <1>9, <2>1 DEF Find, Direct, Goto
    <3>2. Alone(Target(t)) = offsets[Target(t)]
      BY <2>1 DEF Direct, Alone, AlonePlain
    <3> QED
      BY <1>6, <3>1, <3>2
  <2>2. CASE ~Direct(Target(t))
    BY <1>1, <1>6, <1>9, <2>2 DEF Find, Direct, Goto
  <2> QED
    BY <2>1, <2>2
<1>10. ASSUME FindEntry(t)
       PROVE  OnTheWay(t)'
  <2>1. ~Direct(Target(t)) /\ UNCHANGED want
    BY <1>1, <1>10 DEF FindEntry, OnTheWay
  <2>2. CASE Target(t) \in DOMAIN entries
    <3>1. ~nested[t] /\ Target(t) = want[t]
      BY <1>1, <2>2, TargetTypes DEF Target
    <3>2. pc'[t] = "lookup" /\ entry'[t] = entries[want[t]] /\ want'[t] = want[t]
      BY <1>1, <1>10, <2>2, <3>1 DEF FindEntry, Goto
    <3> QED
      BY <1>2, <2>1, <2>2, <3>1, <3>2, AloneStays DEF OnTheWay
  <2>3. CASE Target(t) \notin DOMAIN entries
    <3> DEFINE r == ScanFirst(Target(t))
    <3>1. r = Alone(Target(t))
      BY <2>1, <2>3 DEF Alone, AlonePlain, Direct
    <3>2. /\ UNCHANGED entry
          /\ IF r = None THEN Return(t, None)
             ELSE /\ body' = [body EXCEPT ![t] = r]
                  /\ Goto(t, "store")
                  /\ UNCHANGED nested
      BY <1>10, <2>3 DEF FindEntry
    <3> HIDE DEF r
    <3>3. CASE r = None
      BY <1>5, <2>1, <3>1, <3>2, <3>3
    <3>4. CASE r # None
      <4>1. pc'[t] = "store" /\ body'[t] = r
        BY <1>1, <3>2, <3>4 DEF Goto
      <4> QED
        BY <1>6, <2>1, <3>1, <3>2, <3>4, <4>1
    <3> QED
      BY <3>3, <3>4
  <2> QED
    BY <2>2, <2>3
<1>11. ASSUME StreamHit(t)
       PROVE  OnTheWay(t)'
  <2> DEFINE r == stream_cache[Target(t)]
  <2>1. nested[t] /\ r \in Offsets /\ r = AlonePlain(Target(t)) /\ r \notin Undecodable
    BY <1>1, <1>11 DEF StreamHit, InHand, Shape, CacheInv, Parsed, CachesAlone
  <2>2. Extracted(t, r) /\ nested' = [nested EXCEPT ![t] = FALSE] /\ UNCHANGED <<want, entry>>
    BY <1>11 DEF StreamHit
  <2> HIDE DEF r
  <2> QED
    BY <2>1, <2>2, ExtractedAlone
<1>12. ASSUME StreamMiss(t)
       PROVE  OnTheWay(t)'
  <2>1. nested[t] /\ body[t] = AlonePlain(Target(t)) /\ pc[t] = "stream"
    BY <1>1, <1>12 DEF StreamMiss, InHand, OnTheWay
  <2>2. CASE body[t] \in Undecodable
    <3>1. Alone(want[t]) = None
      BY <1>1, <2>1, <2>2, NestedAlone
    <3> QED
      BY <1>4, <1>12, <2>1, <2>2, <3>1 DEF StreamMiss
  <2>3. CASE body[t] \notin Undecodable
    <3>1. /\ pc'[t] = "insert" /\ body'[t] = body[t] /\ nested'[t] = nested[t]
          /\ want'[t] = want[t] /\ entry'[t] = entry[t]
      BY <1>1, <1>12, <2>3 DEF StreamMiss, Goto
    <3>2. Target(t)' = Target(t)
      BY <3>1 DEF Target
    <3> QED
      BY <1>1, <1>2, <2>1, <2>3, <3>1, <3>2, AloneStays DEF OnTheWay
  <2> QED
    BY <2>2, <2>3
<1>13. ASSUME InsertStream(t)
       PROVE  OnTheWay(t)'
  <2>1. /\ nested[t] /\ body[t] \in Offsets /\ body[t] = AlonePlain(Target(t))
        /\ body[t] \notin Undecodable
    BY <1>1, <1>13 DEF InsertStream, InHand, OnTheWay
  <2>2. Extracted(t, body[t]) /\ nested' = [nested EXCEPT ![t] = FALSE] /\ UNCHANGED <<want, entry>>
    BY <1>13 DEF InsertStream
  <2> QED
    BY <2>1, <2>2, ExtractedAlone
<1>14. ASSUME Store(t)
       PROVE  OnTheWay(t)'
  <2>1. body[t] = Alone(Target(t)) /\ body[t] \in Offsets
    BY <1>1, <1>14 DEF Store, InHand, OnTheWay
  <2> QED
    BY <1>5, <1>14, <2>1 DEF Store
<1> QED
  BY <1>3, <1>7, <1>8, <1>9, <1>10, <1>11, <1>12, <1>13, <1>14 DEF Step

\* Before the index is built only its build and the capacity move.
LEMMA RestingStays ==
  ASSUME Shape, AtRest, phase # "over", Next, ~raced'
  PROVE  AtRest' /\ \A t \in Threads : nested'[t] = FALSE
<1>1. UNCHANGED local /\ (ParseClaims \/ BuildRuns \/ \E n \in Capacities : SetCapacity(n))
  <2>1. \A t \in Threads : ~Step(t)
    BY DEF AtRest, Step, Lookup, ClaimBuild, BuildDone, Find, FindEntry, StreamHit, StreamMiss,
       InsertStream, Store
  <2>2. \A t \in Threads, o \in Objects : ~Call(t, o)
    BY DEF Call
  <2> QED
    BY <2>1, <2>2 DEF Next, ParseClaims, BuildRuns, SetCapacity
<1>2. object_cache' = object_cache
  BY <1>1 DEF ParseClaims, BuildRuns, SetCapacity, caches
<1>3. DOMAIN stream_cache' = {}
  <2>1. ASSUME NEW K PROVE DOMAIN Drop(stream_cache, K) = {}
    BY DEF AtRest, Drop
  <2>2. stream_cache' = stream_cache \/ stream_cache' = <<>> \/ \E K : stream_cache' = Drop(stream_cache, K)
    BY <1>1 DEF ParseClaims, BuildRuns, SetCapacity, caches
  <2> QED
    BY <2>1, <2>2 DEF AtRest
<1>4. \A t \in Threads : nested[t] = FALSE
  BY DEF Shape, InHand, AtRest, CallTypes
<1> QED
  BY <1>1, <1>2, <1>3, <1>4 DEF AtRest, local

\* No thread's step disturbs what another thread has in hand or has put in a cache.
THEOREM NextUndisturbed == Shape /\ Undisturbed /\ [Next]_vars => Undisturbed'
<1> SUFFICES ASSUME Shape, Undisturbed, [Next]_vars, ~raced'
             PROVE  IF phase' = "over" THEN CachesAlone' /\ \A t \in Threads : OnTheWay(t)'
                    ELSE AtRest'
  BY DEF Undisturbed
<1>1. ~raced
  <2>1. raced' = raced \/ raced' = (raced \/ phase # "over")
    BY DEF Next, vars, Step, ParseClaims, BuildRuns, Lookup, ClaimBuild, BuildDone, Find, FindEntry,
       StreamHit, StreamMiss, InsertStream, Store, Call, SetCapacity
  <2> QED
    BY <2>1 DEF Shape, CallTypes
<1>2. CASE phase = "over"
  <2>1. Parsed /\ UNCHANGED xref
    BY <1>1, <1>2, IndexStep DEF Undisturbed, Parsed, Shape
  <2>2. CachesAlone' /\ \A t \in Threads : OnTheWay(t)'
    <3>1. CASE UNCHANGED vars
      <4>1. CachesAlone'
        BY <2>1, <3>1, AloneStays DEF vars, caches, Parsed, CachesAlone
      <4>2. ASSUME NEW t \in Threads PROVE OnTheWay(t)'
        BY <2>1, <3>1, <4>2, AloneStays DEF vars, local, xref, Parsed, OnTheWay, Target
      <4> QED
        BY <4>1, <4>2
    <3>2. CASE Next
      <4>1. CachesAlone'
        BY <2>1, <3>2, CachesStayAlone
      <4>2. CASE UNCHANGED local
        <5>1. ASSUME NEW t \in Threads PROVE OnTheWay(t)'
          BY <2>1, <4>2, <5>1, AloneStays DEF local, xref, Parsed, OnTheWay, Target
        <5> QED
          BY <4>1, <5>1
      <4>3. ASSUME NEW t \in Threads, Step(t) \/ \E o \in Objects : Call(t, o)
            PROVE  \A s \in Threads : OnTheWay(s)'
        <5>1. OnTheWay(t)' /\ Others(t)
          BY <2>1, <4>3, CallStaysAlone, CallStep DEF Parsed
        <5> QED
          BY <2>1, <5>1, OthersStay DEF Parsed
      <4>4. UNCHANGED local \/ \E t \in Threads : Step(t) \/ \E o \in Objects : Call(t, o)
        BY <3>2 DEF Next, ParseClaims, BuildRuns, SetCapacity
      <4> QED
        BY <4>1, <4>2, <4>3, <4>4
    <3> QED
      BY <3>1, <3>2
  <2>3. phase' = "over"
    BY <1>2, <2>1 DEF xref
  <2> QED
    BY <2>2, <2>3
<1>3. CASE phase # "over"
  <2>1. AtRest /\ \A t \in Threads : nested[t] = FALSE
    BY <1>1, <1>3 DEF Undisturbed, AtRest, Shape, InHand, CallTypes
  <2>2. AtRest' /\ \A t \in Threads : nested'[t] = FALSE
    <3>1. CASE UNCHANGED vars
      BY <2>1, <3>1 DEF AtRest, vars, caches, local
    <3> QED
      BY <1>3, <2>1, <3>1, RestingStays
  <2>3. CachesAlone' /\ \A t \in Threads : OnTheWay(t)'
    BY <2>2 DEF AtRest, CachesAlone, OnTheWay
  <2> QED
    BY <2>2, <2>3
<1> QED
  BY <1>2, <1>3

\* The inductive invariant, of which the properties below are consequences.
THEOREM Invariance == Spec => [](Shape /\ Undisturbed)
<1>1. Init => Shape /\ Undisturbed
  <2>1. Init => phase # "over" /\ AtRest
    BY DEF Init, IndexInit, AtRest
  <2> QED
    BY <2>1, InitShape DEF Undisturbed
<1> QED
  BY <1>1, NextShape, NextUndisturbed, PTL DEF Spec

---------------------------------------------------------------------------
\* "Thread-safe object and stream caches": in a document that was parsed before its
\* first use, load_object answers on every thread what it would have answered
\* alone, and object_cache holds no other answer.
THEOREM ThreadsAnswerAsOne == Spec => []AsAlone
<1>1. Shape /\ Undisturbed => AsAlone
  BY DEF Undisturbed, AtRest, CachesAlone, OnTheWay, AsAlone, AnswersAsAlone, CacheAsAlone,
     ThreadSafeCache
<1> QED
  BY Invariance, <1>1, PTL

\* The caches keep their types; every entry of object_stream_cache can be evicted,
\* though two threads may queue its key twice, and no call exceeds the capacity.
THEOREM StoreIsSound == Spec => []StoreSound
<1>1. Shape /\ Undisturbed => StoreSound
  BY DEF Shape, IndexInv, IInv, CacheInv, CallTypes, Occurs, Undisturbed, CachesAlone, StoreSound, TypeOK,
     StreamCacheBounded
<1> QED
  BY Invariance, <1>1, PTL

\* load_object and load_document_structure claim the build by object_offsets_failed:
\* it runs once, and what the readers of the index found stays as it is.
THEOREM IndexIsBuiltOnce == Spec => BuiltOnce
<1>1. Shape /\ [Next]_vars =>
        [phase = "over" => UNCHANGED <<phase, offsets, entries, built, failed>>]_vars
  BY IndexStep DEF Shape, xref
<1> QED
  BY Invariance, <1>1, PTL DEF Spec, BuiltOnce

\* To the index all this is one build, run as if by one caller, so that every promise
\* of build_object_offset_cache holds for the threads that load objects.
THEOREM StoreBuildsTheIndex == Spec => IndexInit /\ [][IndexNext]_xref
<1>1. Init => IndexInit
  BY DEF Init
<1> QED
  BY <1>1, StoreMeansBuild, PTL DEF Spec

THEOREM StoreKeepsTheIndex ==
  Spec => [](IndexSound /\ NewestBodyWins /\ TrailerOfNewest /\ ChainWalked /\ ScanRecovers)
<1>1. Shape => IndexSound /\ NewestBodyWins /\ TrailerOfNewest /\ ChainWalked /\ ScanRecovers
  BY IInvImplies DEF Shape, IndexInv, IndexSound
<1> QED
  BY Invariance, <1>1, PTL
============================================================================
