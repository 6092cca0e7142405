-------------------------- MODULE PdfContentProofs --------------------------
(***************************************************************************)
(* Theorems about PdfContent, for contents of any operators, nested to any *)
(* depth and cut short anywhere: ScopesClose and DrawnAsInForce.           *)
(***************************************************************************)
EXTENDS PdfContent, Integers, SequenceTheorems, WellFoundedInduction, TLAPS

---------------------------------------------------------------------------
(* The invariant. *)

Masks == Groups \union {None}
Places == [on : {"page", "tile", "glyph", "annot"}, moved : Nat]

States ==
  [place : Places, colour : [Ways -> Colours \union {Black}], ink : Nat,
   pattern : [Ways -> Patterns \union {None}], alpha : [Ways -> Nat], fade : Nat,
   mask : Masks, path : SUBSET Places, clip : SUBSET Places, inText : BOOLEAN,
   clipsText : BOOLEAN, textClip : SUBSET Places, size : PageFonts \union OtherFonts \union {None}]

Fonts == {None} \union ((PageFonts \union OtherFonts) \X Nat)

Kinds == {"page", "form", "tile", "glyph", "group", "annot"}
Outer == {"page", "form"}

Frames ==
  [kind : Kinds, own : BOOLEAN, states : Seq(States), fonts : Seq(Fonts), painting : Seq(Ways),
   tiled : BOOLEAN, of : Masks,
   saved : [state : States, masking : BOOLEAN, reporting : BOOLEAN]]

Typed ==
  /\ state \in States /\ font \in Fonts /\ softMask \in Masks /\ groupCache \subseteq Groups
  /\ frames \in Seq(Frames) /\ pages \in 0..MaxPages /\ read \in 0..MaxOps

Switched ==
  masking \in BOOLEAN /\ reporting \in BOOLEAN /\ interrupted \in BOOLEAN /\ annotating \in BOOLEAN

\* q saves a font with every state, and a group is of something.
Matched(fs) ==
  \A i \in DOMAIN fs : /\ Len(fs[i].fonts) = Len(fs[i].states)
                       /\ fs[i].kind = "group" => fs[i].of \in Groups

\* form_resources_stack_ has the contents that pushed on it, the innermost last.
Owned(fs, rs) ==
  /\ rs \in Seq(Nat)
  /\ ToSet(rs) = {i \in DOMAIN fs : fs[i].own}
  /\ \A i, j \in DOMAIN rs : i < j => rs[i] < rs[j]

Below(fs, i) == {j \in DOMAIN fs : j < i}

\* A page is outermost and pushes nothing; a form is inside something.
Nested(fs) ==
  \A i \in DOMAIN fs : /\ fs[i].kind = "page" => i = 1 /\ ~fs[i].own
                       /\ fs[i].kind = "form" => i # 1

\* rendering_soft_mask_group_, and what each content found it to be.
Masking(fs, m) ==
  /\ m <=> \E i \in DOMAIN fs : fs[i].kind = "group"
  /\ \A i \in DOMAIN fs : fs[i].saved.masking <=> \E j \in Below(fs, i) : fs[j].kind = "group"

\* progress_.enabled, likewise: contents other than pages and forms switch it off, so
\* that nothing but their end can interrupt the page.
Reporting(fs, r, cut) ==
  /\ fs # <<>> => (r <=> ~cut /\ \A i \in DOMAIN fs : fs[i].kind \in Outer)
  /\ \A i \in DOMAIN fs : fs[i].kind \notin Outer =>
       (fs[i].saved.reporting <=> ~cut /\ \A j \in Below(fs, i) : fs[j].kind \in Outer)

\* Between annotations reports are on until one is interrupted.
Between == frames = <<>> /\ annotating => (reporting <=> ~interrupted)

CInv ==
  /\ Typed /\ Switched /\ Matched(frames) /\ Owned(frames, resources) /\ Nested(frames)
  /\ Masking(frames, masking) /\ Reporting(frames, reporting, interrupted) /\ Between

---------------------------------------------------------------------------
(* Frames that are pushed and popped. *)

LEMMA Pushed ==
  ASSUME NEW S, NEW fs \in Seq(S), NEW f \in S
  PROVE  /\ Append(fs, f) \in Seq(S) /\ Append(fs, f) # <<>>
         /\ Len(fs) \in Nat /\ DOMAIN fs = 1..Len(fs) /\ DOMAIN Append(fs, f) = 1..(Len(fs) + 1)
         /\ Append(fs, f)[Len(fs) + 1] = f
         /\ \A i \in DOMAIN fs : Append(fs, f)[i] = fs[i] /\ Below(Append(fs, f), i) = Below(fs, i)
         /\ Below(Append(fs, f), Len(fs) + 1) = DOMAIN fs
         /\ \A i \in DOMAIN Append(fs, f) : i \in DOMAIN fs \/ i = Len(fs) + 1
<1> DEFINE t == Append(fs, f)
           n == Len(fs)
<1>1. /\ t \in Seq(S) /\ t # <<>> /\ n \in Nat /\ DOMAIN fs = 1..n /\ DOMAIN t = 1..(n + 1)
      /\ t[n + 1] = f /\ \A i \in 1..n : t[i] = fs[i]
  OBVIOUS
<1> HIDE DEF t, n
<1>2. \A i \in 1..n : {j \in 1..(n + 1) : j < i} = {j \in 1..n : j < i}
  BY <1>1
<1>3. {j \in 1..(n + 1) : j < n + 1} = 1..n
  BY <1>1
<1>4. \A i \in 1..(n + 1) : i \in 1..n \/ i = n + 1
  BY <1>1
<1>5. /\ \A i \in DOMAIN fs : t[i] = fs[i] /\ Below(t, i) = Below(fs, i)
      /\ Below(t, n + 1) = DOMAIN fs
  BY <1>1, <1>2, <1>3 DEF Below
<1> QED
  BY <1>1, <1>4, <1>5 DEF t, n

LEMMA Popped ==
  ASSUME NEW S, NEW fs \in Seq(S), fs # <<>>
  PROVE  /\ Front(fs) \in Seq(S) /\ Len(fs) \in Nat \ {0} /\ DOMAIN fs = 1..Len(fs)
         /\ DOMAIN Front(fs) = 1..(Len(fs) - 1) /\ Len(Front(fs)) = Len(fs) - 1
         /\ Len(fs) \in DOMAIN fs /\ fs[Len(fs)] \in S
         /\ Below(fs, Len(fs)) = DOMAIN Front(fs)
         /\ \A i \in DOMAIN Front(fs) : /\ i \in DOMAIN fs /\ i # Len(fs) /\ Front(fs)[i] = fs[i]
                                        /\ Below(Front(fs), i) = Below(fs, i)
         /\ \A i \in DOMAIN fs : i \in DOMAIN Front(fs) \/ i = Len(fs)
<1> DEFINE t == Front(fs)
           n == Len(fs)
<1>1. /\ t \in Seq(S) /\ n \in Nat \ {0} /\ DOMAIN fs = 1..n /\ DOMAIN t = 1..(n - 1)
      /\ Len(t) = n - 1 /\ fs[n] \in S /\ \A i \in 1..(n - 1) : t[i] = fs[i]
  <2>1. n \in Nat \ {0} /\ DOMAIN fs = 1..n
    BY EmptySeq, LenProperties
  <2>2. t = SubSeq(fs, 1, n - 1)
    BY DEF Front
  <2>3. fs[n] \in S
    BY <2>1, ElementOfSeq
  <2> HIDE DEF n, t
  <2> QED
    BY <2>1, <2>2, <2>3
<1> HIDE DEF t, n
<1>2. \A i \in 1..(n - 1) : i \in 1..n /\ i # n /\ {j \in 1..(n - 1) : j < i} = {j \in 1..n : j < i}
  BY <1>1
<1>3. {j \in 1..n : j < n} = 1..(n - 1)
  BY <1>1
<1>4. n \in 1..n /\ \A i \in 1..n : i \in 1..(n - 1) \/ i = n
  BY <1>1
<1>5. /\ \A i \in DOMAIN t : i \in DOMAIN fs /\ i # n /\ t[i] = fs[i] /\ Below(t, i) = Below(fs, i)
      /\ Below(fs, n) = DOMAIN t
  BY <1>1, <1>2, <1>3 DEF Below
<1> QED
  BY <1>1, <1>4, <1>5 DEF t, n

---------------------------------------------------------------------------
(* The resources that the contents pushed. *)

LEMMA OwnedPushed ==
  ASSUME NEW S, NEW fs \in Seq(S), NEW f \in S, NEW rs, Owned(fs, rs)
  PROVE  Owned(Append(fs, f), IF f.own THEN Append(rs, Len(fs) + 1) ELSE rs)
<1> DEFINE n == Len(fs)
           gs == Append(fs, f)
           ts == Append(rs, n + 1)
           m == Len(rs)
<1>1. /\ n \in Nat /\ DOMAIN fs = 1..n /\ DOMAIN gs = 1..(n + 1) /\ gs[n + 1] = f
      /\ \A i \in 1..n : gs[i] = fs[i]
      /\ \A i \in 1..(n + 1) : i \in 1..n \/ i = n + 1
  BY Pushed
<1>2. rs \in Seq(Nat) /\ m \in Nat /\ DOMAIN rs = 1..m /\ {rs[i] : i \in 1..m} = {i \in 1..n : fs[i].own}
  <2>1. rs \in Seq(Nat) /\ m \in Nat /\ DOMAIN rs = 1..m
    BY DEF Owned
  <2>2. {rs[i] : i \in DOMAIN rs} = {i \in DOMAIN fs : fs[i].own}
    BY DEF Owned, ToSet
  <2> HIDE DEF n, gs, ts, m
  <2> QED
    BY <1>1, <2>1, <2>2
<1> HIDE DEF n, gs, m
<1>3. CASE ~f.own
  <2>1. {i \in DOMAIN gs : gs[i].own} = {i \in DOMAIN fs : fs[i].own}
    <3>1. n + 1 \notin 1..n /\ 1..n \subseteq 1..(n + 1)
      BY <1>1
    <3> QED
      BY <1>1, <1>3, <3>1
  <2>2. Owned(gs, rs)
    BY <2>1 DEF Owned
  <2> QED
    BY <1>3, <2>2 DEF gs
<1>4. CASE f.own
  <2>1. {i \in DOMAIN gs : gs[i].own} = {i \in DOMAIN fs : fs[i].own} \union {n + 1}
    <3>1. n + 1 \in 1..(n + 1) /\ 1..n \subseteq 1..(n + 1)
      BY <1>1
    <3> QED
      BY <1>1, <1>4, <3>1
  <2>2. /\ ts \in Seq(Nat) /\ DOMAIN ts = 1..(m + 1) /\ ts[m + 1] = n + 1
        /\ \A i \in 1..m : ts[i] = rs[i]
    <3>1. n + 1 \in Nat
      BY <1>1
    <3> QED
      BY <1>2, <3>1 DEF m
  <2> HIDE DEF ts
  <2>3. \A i \in 1..(m + 1) : i \in 1..m \/ i = m + 1
    BY <1>2
  <2>4. ToSet(ts) = ToSet(rs) \union {n + 1}
    <3>1. m + 1 \in 1..(m + 1) /\ 1..m \subseteq 1..(m + 1)
      BY <1>2
    <3>2. ToSet(ts) = {ts[i] : i \in 1..(m + 1)} /\ ToSet(rs) = {rs[i] : i \in 1..m}
      BY <1>2, <2>2 DEF ToSet
    <3>3. {ts[i] : i \in 1..(m + 1)} = {rs[i] : i \in 1..m} \union {n + 1}
      BY <2>2, <2>3, <3>1
    <3> QED
      BY <3>2, <3>3
  <2>5. ASSUME NEW i \in 1..(m + 1), NEW j \in 1..(m + 1), i < j PROVE ts[i] < ts[j]
    <3>1. i \in 1..m
      BY <1>2, <2>5
    <3>2. ts[i] = rs[i] /\ rs[i] \in 1..n
      BY <1>2, <2>2, <3>1
    <3>3. CASE j \in 1..m
      BY <1>2, <2>2, <2>5, <3>1, <3>3 DEF Owned
    <3>4. CASE j = m + 1
      <4>1. ts[j] = n + 1
        BY <2>2, <3>4
      <4> QED
        BY <1>1, <3>2, <4>1
    <3> QED
      BY <2>3, <3>3, <3>4
  <2>6. Owned(gs, ts)
    BY <2>1, <2>2, <2>4, <2>5 DEF Owned
  <2> QED
    BY <1>4, <2>6 DEF gs, ts, n
<1> QED
  BY <1>3, <1>4

LEMMA OwnedPopped ==
  ASSUME NEW S, NEW fs \in Seq(S), fs # <<>>, NEW rs, Owned(fs, rs)
  PROVE  Owned(Front(fs), IF fs[Len(fs)].own THEN Front(rs) ELSE rs)
<1> DEFINE n == Len(fs)
           gs == Front(fs)
           ts == Front(rs)
           m == Len(rs)
<1>1. /\ n \in Nat \ {0} /\ DOMAIN fs = 1..n /\ DOMAIN gs = 1..(n - 1)
      /\ \A i \in 1..(n - 1) : gs[i] = fs[i]
      /\ \A i \in 1..n : i \in 1..(n - 1) \/ i = n
  BY Popped
<1>2. rs \in Seq(Nat) /\ m \in Nat /\ DOMAIN rs = 1..m /\ {rs[i] : i \in 1..m} = {i \in 1..n : fs[i].own}
  <2>1. rs \in Seq(Nat) /\ m \in Nat /\ DOMAIN rs = 1..m
    BY DEF Owned
  <2>2. {rs[i] : i \in DOMAIN rs} = {i \in DOMAIN fs : fs[i].own}
    BY DEF Owned, ToSet
  <2> HIDE DEF n, gs, ts, m
  <2> QED
    BY <1>1, <2>1, <2>2
<1> HIDE DEF n, gs, m
<1>3. n \notin 1..(n - 1) /\ 1..(n - 1) \subseteq 1..n /\ n \in 1..n
  BY <1>1
<1>4. CASE ~fs[n].own
  <2>1. {i \in DOMAIN gs : gs[i].own} = {i \in DOMAIN fs : fs[i].own}
    BY <1>1, <1>3, <1>4
  <2>2. Owned(gs, rs)
    BY <2>1 DEF Owned
  <2> QED
    BY <1>4, <2>2 DEF gs, n
<1>5. CASE fs[n].own
  <2>1. {i \in DOMAIN gs : gs[i].own} = {i \in DOMAIN fs : fs[i].own} \ {n}
    BY <1>1, <1>3
  <2>2. PICK k \in 1..m : rs[k] = n
    BY <1>2, <1>3, <1>5
  <2>3. \A i \in 1..m : rs[i] \in 1..n
    BY <1>2
  <2>4. k = m
    <3> SUFFICES ASSUME k # m PROVE FALSE
      OBVIOUS
    <3>1. m \in 1..m /\ k < m
      BY <1>2
    <3>2. rs[k] < rs[m]
      BY <1>2, <3>1 DEF Owned
    <3> QED
      BY <1>1, <2>2, <2>3, <3>1, <3>2
  <2>5. rs # <<>>
    BY <1>2, <2>2 DEF m
  <2>6. /\ ts \in Seq(Nat) /\ DOMAIN ts = 1..(m - 1) /\ \A i \in 1..(m - 1) : ts[i] = rs[i]
    BY <1>2, <2>5, Popped DEF m
  <2> HIDE DEF ts
  <2>7. 1..(m - 1) \subseteq 1..m /\ m \notin 1..(m - 1) /\ \A i \in 1..m : i \in 1..(m - 1) \/ i = m
    BY <1>2
  <2>8. \A i \in 1..(m - 1) : rs[i] # n
    <3> TAKE i \in 1..(m - 1)
    <3>1. i \in 1..m /\ i < m /\ m \in 1..m
      BY <1>2
    <3>2. rs[i] < rs[m] /\ rs[m] = n
      BY <1>2, <2>2, <2>4, <3>1 DEF Owned
    <3> QED
      BY <1>1, <2>3, <3>1, <3>2
  <2>9. ToSet(ts) = ToSet(rs) \ {n}
    <3>1. ToSet(ts) = {ts[i] : i \in 1..(m - 1)} /\ ToSet(rs) = {rs[i] : i \in 1..m}
      BY <1>2, <2>6 DEF ToSet
    <3>2. {ts[i] : i \in 1..(m - 1)} = {rs[i] : i \in 1..m} \ {n}
      BY <2>2, <2>4, <2>6, <2>7, <2>8
    <3> QED
      BY <3>1, <3>2
  <2>10. \A i, j \in 1..(m - 1) : i < j => ts[i] < ts[j]
    BY <1>2, <2>6, <2>7 DEF Owned
  <2>11. Owned(gs, ts)
    BY <2>1, <2>6, <2>9, <2>10 DEF Owned
  <2> QED
    BY <1>5, <2>11 DEF gs, ts, n
<1> QED
  BY <1>4, <1>5

\* Frames whose stacks change, but nothing that the invariant tells them apart by.
Alike(fs, gs) ==
  /\ DOMAIN gs = DOMAIN fs
  /\ \A i \in DOMAIN fs : /\ gs[i].kind = fs[i].kind /\ gs[i].own = fs[i].own
                          /\ gs[i].saved = fs[i].saved

LEMMA AlikeKeeps ==
  ASSUME NEW fs, NEW S, NEW gs \in Seq(S), Alike(fs, gs)
  PROVE  /\ \A rs : Owned(fs, rs) => Owned(gs, rs)
         /\ Nested(fs) => Nested(gs)
         /\ \A m : Masking(fs, m) => Masking(gs, m)
         /\ \A r, c : Reporting(fs, r, c) => Reporting(gs, r, c)
<1>0. gs # <<>> => fs # <<>>
  <2> SUFFICES ASSUME fs = <<>> PROVE gs = <<>>
    OBVIOUS
  <2>1. DOMAIN gs = {}
    BY DEF Alike
  <2> QED
    BY <2>1, EmptySeq, LenProperties
<1>1. \A i \in DOMAIN fs : Below(gs, i) = Below(fs, i) /\ Below(fs, i) \subseteq DOMAIN fs
  BY DEF Alike, Below
<1>2. \A rs : Owned(fs, rs) => Owned(gs, rs)
  <2>1. {i \in DOMAIN gs : gs[i].own} = {i \in DOMAIN fs : fs[i].own}
    BY DEF Alike
  <2> QED
    BY <2>1 DEF Owned
<1>3. Nested(fs) => Nested(gs)
  BY DEF Nested, Alike
<1>4. \A m : Masking(fs, m) => Masking(gs, m)
  BY <1>1 DEF Masking, Alike
<1>5. \A r, c : Reporting(fs, r, c) => Reporting(gs, r, c)
  BY <1>0, <1>1 DEF Reporting, Alike
<1> QED
  BY <1>2, <1>3, <1>4, <1>5

---------------------------------------------------------------------------
(* The two switches. *)

LEMMA MaskingPushed ==
  ASSUME NEW S, NEW fs \in Seq(S), NEW f \in S, NEW m \in BOOLEAN, Masking(fs, m),
         f.saved.masking = m
  PROVE  Masking(Append(fs, f), m \/ f.kind = "group")
<1> DEFINE gs == Append(fs, f)
           n == Len(fs) + 1
<1>1. /\ gs[n] = f /\ Below(gs, n) = DOMAIN fs /\ n \in DOMAIN gs
      /\ \A i \in DOMAIN fs : gs[i] = fs[i] /\ Below(gs, i) = Below(fs, i) /\ i \in DOMAIN gs
      /\ \A i \in DOMAIN gs : i \in DOMAIN fs \/ i = n
  BY Pushed
<1>2. \A i \in DOMAIN fs : Below(fs, i) \subseteq DOMAIN fs
  BY DEF Below
<1> HIDE DEF gs, n
<1>3. m \/ f.kind = "group" <=> \E i \in DOMAIN gs : gs[i].kind = "group"
  BY <1>1 DEF Masking
<1>4. ASSUME NEW i \in DOMAIN gs
      PROVE  gs[i].saved.masking <=> \E j \in Below(gs, i) : gs[j].kind = "group"
  <2>1. CASE i \in DOMAIN fs
    BY <1>1, <1>2, <2>1 DEF Masking
  <2>2. CASE i = n
    BY <1>1, <2>2 DEF Masking
  <2> QED
    BY <1>1, <2>1, <2>2
<1>5. Masking(gs, m \/ f.kind = "group")
  BY <1>3, <1>4 DEF Masking
<1> QED
  BY <1>5 DEF gs

LEMMA MaskingPopped ==
  ASSUME NEW S, NEW fs \in Seq(S), fs # <<>>, NEW m \in BOOLEAN, Masking(fs, m)
  PROVE  /\ Masking(Front(fs), fs[Len(fs)].saved.masking)
         /\ fs[Len(fs)].kind # "group" => (m <=> fs[Len(fs)].saved.masking)
<1> DEFINE gs == Front(fs)
           n == Len(fs)
<1>1. /\ Below(fs, n) = DOMAIN gs /\ n \in DOMAIN fs
      /\ \A i \in DOMAIN gs : gs[i] = fs[i] /\ Below(gs, i) = Below(fs, i) /\ i \in DOMAIN fs
      /\ \A i \in DOMAIN fs : i \in DOMAIN gs \/ i = n
  BY Popped
<1>2. \A i \in DOMAIN gs : Below(gs, i) \subseteq DOMAIN gs
  BY DEF Below
<1> HIDE DEF gs, n
<1>3. fs[n].saved.masking <=> \E j \in DOMAIN gs : gs[j].kind = "group"
  BY <1>1 DEF Masking
<1>4. \A i \in DOMAIN gs : gs[i].saved.masking <=> \E j \in Below(gs, i) : gs[j].kind = "group"
  BY <1>1, <1>2 DEF Masking
<1>5. fs[n].kind # "group" => (m <=> fs[n].saved.masking)
  BY <1>1, <1>3 DEF Masking
<1>6. Masking(gs, fs[n].saved.masking)
  BY <1>3, <1>4 DEF Masking
<1> QED
  BY <1>5, <1>6 DEF gs, n

LEMMA ReportingPushed ==
  ASSUME NEW S, NEW fs \in Seq(S), NEW f \in S, NEW r \in BOOLEAN, NEW c \in BOOLEAN,
         NEW q \in BOOLEAN, Reporting(fs, r, c),
         \/ fs # <<>> /\ f.saved.reporting = r /\ q = (r /\ f.kind \in Outer)
         \/ fs = <<>> /\ f.kind \in Outer /\ q = ~c
         \/ fs = <<>> /\ f.kind \notin Outer /\ f.saved.reporting = ~c /\ q = FALSE
  PROVE  Reporting(Append(fs, f), q, c)
<1> DEFINE gs == Append(fs, f)
           n == Len(fs) + 1
<1>1. /\ gs[n] = f /\ Below(gs, n) = DOMAIN fs /\ n \in DOMAIN gs
      /\ \A i \in DOMAIN fs : gs[i] = fs[i] /\ Below(gs, i) = Below(fs, i) /\ i \in DOMAIN gs
      /\ \A i \in DOMAIN gs : i \in DOMAIN fs \/ i = n
  BY Pushed
<1>2. \A i \in DOMAIN fs : Below(fs, i) \subseteq DOMAIN fs
  BY DEF Below
<1>3. fs = <<>> => DOMAIN fs = {}
  OBVIOUS
<1> HIDE DEF gs, n
<1>4. q <=> ~c /\ \A i \in DOMAIN gs : gs[i].kind \in Outer
  BY <1>1, <1>3 DEF Reporting
<1>5. ASSUME NEW i \in DOMAIN gs, gs[i].kind \notin Outer
      PROVE  gs[i].saved.reporting <=> ~c /\ \A j \in Below(gs, i) : gs[j].kind \in Outer
  <2>1. CASE i \in DOMAIN fs
    BY <1>1, <1>2, <1>5, <2>1 DEF Reporting
  <2>2. CASE i = n
    BY <1>1, <1>3, <1>5, <2>2 DEF Reporting
  <2> QED
    BY <1>1, <2>1, <2>2
<1>6. Reporting(gs, q, c)
  BY <1>4, <1>5 DEF Reporting
<1> QED
  BY <1>6 DEF gs

LEMMA ReportingPopped ==
  ASSUME NEW S, NEW fs \in Seq(S), fs # <<>>, NEW r \in BOOLEAN, NEW c \in BOOLEAN,
         NEW q \in BOOLEAN, Reporting(fs, r, c),
         q = IF fs[Len(fs)].kind \in Outer THEN r ELSE fs[Len(fs)].saved.reporting
  PROVE  Reporting(Front(fs), q, c)
<1> DEFINE gs == Front(fs)
           n == Len(fs)
<1>1. /\ Below(fs, n) = DOMAIN gs /\ n \in DOMAIN fs
      /\ \A i \in DOMAIN gs : gs[i] = fs[i] /\ Below(gs, i) = Below(fs, i) /\ i \in DOMAIN fs
      /\ \A i \in DOMAIN fs : i \in DOMAIN gs \/ i = n
  BY Popped
<1>2. \A i \in DOMAIN gs : Below(gs, i) \subseteq DOMAIN gs
  BY DEF Below
<1> HIDE DEF gs, n
<1>3. q <=> ~c /\ \A i \in DOMAIN gs : gs[i].kind \in Outer
  <2>1. CASE fs[n].kind \in Outer
    BY <1>1, <2>1 DEF Reporting, n
  <2>2. CASE fs[n].kind \notin Outer
    BY <1>1, <2>2 DEF Reporting, n
  <2> QED
    BY <2>1, <2>2
<1>4. \A i \in DOMAIN gs : gs[i].kind \notin Outer =>
        (gs[i].saved.reporting <=> ~c /\ \A j \in Below(gs, i) : gs[j].kind \in Outer)
  BY <1>1, <1>2 DEF Reporting
<1>5. Reporting(gs, q, c)
  BY <1>3, <1>4 DEF Reporting
<1> QED
  BY <1>5 DEF gs

\* Only where reports are on can a callback interrupt the page.
LEMMA ReportingCut ==
  ASSUME NEW fs, NEW r \in BOOLEAN, NEW c \in BOOLEAN, Reporting(fs, r, c), r = TRUE, fs # <<>>
  PROVE  Reporting(fs, FALSE, TRUE)
<1>1. \A i \in DOMAIN fs : fs[i].kind \in Outer
  BY DEF Reporting
<1> QED
  BY <1>1 DEF Reporting

---------------------------------------------------------------------------
(* Graphics states. *)

LEMMA Starts ==
  /\ Start \in States
  /\ \A on \in {"page", "tile", "glyph", "annot"} : Place(on) \in Places
<1>1. \A on \in {"page", "tile", "glyph", "annot"} : Place(on) \in Places
  BY DEF Place, Places
<1>2. /\ [w \in Ways |-> Black] \in [Ways -> Colours \union {Black}]
      /\ [w \in Ways |-> None] \in [Ways -> Patterns \union {None}]
      /\ [w \in Ways |-> 0] \in [Ways -> Nat]
      /\ None \in Masks /\ Place("page") \in Places
  BY <1>1 DEF Masks
<1>3. Start \in States
  BY <1>2 DEF Start, States
<1> QED
  BY <1>1, <1>3

LEMMA PathsKept ==
  ASSUME NEW s \in States
  PROVE  Construct(s) \in States /\ EndPath(s) \in States /\ Clip(s) \in States
<1>1. Construct(s) \in States
  BY DEF Construct, States
<1>2. EndPath(s) \in States
  BY DEF EndPath, States
<1>3. Clip(s) \in States
  BY DEF Clip, States
<1> QED
  BY <1>1, <1>2, <1>3

LEMMA ColoursKept ==
  ASSUME NEW s \in States, NEW w \in Ways
  PROVE  /\ \A c \in Colours : DeviceColour(s, w, c) \in States /\ Coloured(s, w, c) \in States
         /\ ColourSpace(s, w) \in States
         /\ \A p \in Patterns : Patterned(s, w, p) \in States
         /\ \A a \in Nat : Opacity(s, w, a) \in States
<1>1. \A c \in Colours : DeviceColour(s, w, c) \in States
  BY DEF DeviceColour, States
<1>2. \A c \in Colours : Coloured(s, w, c) \in States
  BY DEF Coloured, States
<1>3. ColourSpace(s, w) \in States
  BY DEF ColourSpace, States
<1>4. \A p \in Patterns : Patterned(s, w, p) \in States
  BY DEF Patterned, States
<1>5. \A a \in Nat : Opacity(s, w, a) \in States
  BY DEF Opacity, States
<1> QED
  BY <1>1, <1>2, <1>3, <1>4, <1>5

LEMMA TextKept ==
  ASSUME NEW s \in States
  PROVE  /\ BeginText(s) \in States /\ EndText(s) \in States /\ ShowOutlines(s) \in States
         /\ \A clips \in BOOLEAN : RenderMode(s, clips) \in States
         /\ \A f \in PageFonts \union OtherFonts : FontSize(s, f) \in States
<1>1. BeginText(s) \in States
  BY DEF BeginText, States
<1>2. EndText(s) \in States
  BY DEF EndText, States
<1>3. ShowOutlines(s) \in States
  BY DEF ShowOutlines, States
<1>4. \A clips \in BOOLEAN : RenderMode(s, clips) \in States
  BY DEF RenderMode, States
<1>5. \A f \in PageFonts \union OtherFonts : FontSize(s, f) \in States
  BY DEF FontSize, States
<1> QED
  BY <1>1, <1>2, <1>3, <1>4, <1>5

LEMMA PlacesKept ==
  ASSUME NEW s \in States
  PROVE  /\ Concat(s) \in States /\ \A g \in Masks : Masked(s, g) \in States
         /\ PageState(s) \in States /\ TileState(s) \in States /\ GlyphState(s) \in States
         /\ GroupState(s) \in States /\ AnnotState(s) \in States
         /\ \A group, moved \in BOOLEAN : FormState(s, group, moved) \in States
<1>1. s.place \in Places /\ [s.place EXCEPT !.moved = @ + 1] \in Places
  BY DEF States, Places
<1>2. Concat(s) \in States
  BY <1>1 DEF Concat, States
<1>3. \A g \in Masks : Masked(s, g) \in States
  BY DEF Masked, States
<1>4. PageState(s) \in States /\ TileState(s) \in States /\ AnnotState(s) \in States
  BY Starts DEF PageState, TileState, AnnotState, States
<1>8. s.alpha \in [Ways -> Nat] /\ s.ink \in Nat /\ s.fade \in Nat
  BY DEF States
<1>9. s.alpha["fill"] \in Nat
  BY <1>8 DEF Ways
<1>5. GlyphState(s) \in States
  <2>1. s.ink + s.alpha["fill"] \in Nat /\ Place("glyph") \in Places
    BY <1>8, <1>9, Starts
  <2> QED
    BY <2>1 DEF GlyphState, States
<1>6. GroupState(s) \in States
  BY <1>1, Starts DEF GroupState, States
<1>7. ASSUME NEW group \in BOOLEAN, NEW moved \in BOOLEAN PROVE FormState(s, group, moved) \in States
  <2> DEFINE fade == IF group /\ s.alpha["fill"] > 0 THEN s.fade + s.alpha["fill"] ELSE s.fade
             alpha == IF group /\ s.alpha["fill"] > 0 THEN [w \in Ways |-> 0] ELSE s.alpha
             place == [s.place EXCEPT !.moved = IF moved THEN @ + 1 ELSE @]
  <2>1. fade \in Nat /\ alpha \in [Ways -> Nat]
    BY <1>8, <1>9
  <2>2. place \in Places
    BY <1>1 DEF Places
  <2>3. FormState(s, group, moved) = [s EXCEPT !.fade = fade, !.alpha = alpha, !.place = place]
    BY DEF FormState
  <2> HIDE DEF fade, alpha, place
  <2> QED
    BY <2>1, <2>2, <2>3 DEF States
<1> QED
  BY <1>2, <1>3, <1>4, <1>5, <1>6, <1>7

---------------------------------------------------------------------------
(* Steps. *)

\* advance_progress, if it was called.
Progressed ==
  \/ UNCHANGED <<reporting, interrupted>>
  \/ reporting = TRUE /\ reporting' = FALSE /\ interrupted' = TRUE

\* An operator changes the stacks of the content it is in, at most.
LEMMA EditKeeps ==
  ASSUME CInv, frames # <<>>, NEW f \in Frames, frames' = [frames EXCEPT ![Len(frames)] = f],
         f.kind = Top.kind, f.own = Top.own, f.of = Top.of, f.saved = Top.saved,
         Len(f.fonts) = Len(f.states),
         state' \in States, font' \in Fonts, softMask' \in Masks, read' \in 0..MaxOps,
         UNCHANGED <<resources, groupCache, masking, annotating, pages>>, Progressed
  PROVE  CInv'
<1> DEFINE n == Len(frames)
<1>1. frames \in Seq(Frames) /\ n \in DOMAIN frames
  BY Popped DEF CInv, Typed
<1>2. /\ frames' \in Seq(Frames) /\ DOMAIN frames' = DOMAIN frames /\ frames' # <<>>
      /\ \A i \in DOMAIN frames : frames'[i] = IF i = n THEN f ELSE frames[i]
  BY <1>1
<1> HIDE DEF n
<1>3. Top = frames[n]
  BY DEF Top, n
<1>4. Alike(frames, frames')
  BY <1>2, <1>3 DEF Alike
<1>5. Matched(frames')
  BY <1>1, <1>2, <1>3 DEF Matched, CInv
<1>6. Owned(frames', resources) /\ Nested(frames') /\ Masking(frames', masking)
  BY <1>2, <1>4, AlikeKeeps DEF CInv
<1>7. Reporting(frames', reporting, interrupted)
  BY <1>2, <1>4, AlikeKeeps DEF CInv
<1>8. Reporting(frames', reporting', interrupted')
  BY <1>2, <1>7, ReportingCut DEF Progressed, CInv, Switched
<1>9. Switched'
  BY DEF Switched, CInv, Progressed
<1>10. Typed'
  BY <1>2 DEF Typed, CInv
<1>11. Between'
  BY <1>2 DEF Between
<1> QED
  BY <1>5, <1>6, <1>8, <1>9, <1>10, <1>11 DEF CInv

\* Or not even them.
LEMMA StateKeeps ==
  ASSUME CInv, frames # <<>>, UNCHANGED <<frames, resources, groupCache, masking, annotating, pages>>,
         state' \in States, font' \in Fonts, softMask' \in Masks, read' \in 0..MaxOps, Progressed
  PROVE  CInv'
<1>1. Reporting(frames, reporting', interrupted')
  BY ReportingCut DEF Progressed, CInv, Switched
<1>2. Switched'
  BY DEF Switched, CInv, Progressed
<1>3. Typed'
  BY DEF Typed, CInv
<1>4. Between'
  BY DEF Between
<1> QED
  BY <1>1, <1>2, <1>3, <1>4 DEF CInv

LEMMA EnteredKeeps ==
  ASSUME CInv, NEW e, Entered(e), e.kind \in Kinds, e.own \in BOOLEAN, e.of \in Masks,
         e.kind = "group" => e.of \in Groups, Inside(state, e) \in States,
         font' \in Fonts, softMask' \in Masks, groupCache' \subseteq Groups,
         pages' \in 0..MaxPages, read' \in 0..MaxOps,
         \/ frames # <<>> /\ e.kind # "page" /\ UNCHANGED <<interrupted, annotating>>
         \/ /\ frames = <<>> /\ e.kind = "page" /\ ~e.own
            /\ annotating' = FALSE /\ interrupted' \in BOOLEAN
         \/ /\ frames = <<>> /\ e.kind = "annot" /\ annotating
            /\ UNCHANGED <<interrupted, annotating>>
  PROVE  CInv'
<1> DEFINE f == [kind |-> e.kind, own |-> e.own, states |-> <<>>, fonts |-> <<>>,
                 painting |-> <<>>, tiled |-> FALSE, of |-> e.of,
                 saved |-> [state |-> state, masking |-> masking, reporting |-> reporting]]
           n == Len(frames) + 1
<1>0. Switched /\ Typed
  BY DEF CInv
<1>1. frames \in Seq(Frames) /\ frames' = Append(frames, f)
  BY <1>0 DEF Typed, Entered
<1>2. f \in Frames
  <2>1. [state |-> state, masking |-> masking, reporting |-> reporting]
          \in [state : States, masking : BOOLEAN, reporting : BOOLEAN]
    BY <1>0 DEF Typed, Switched
  <2>2. <<>> \in Seq(States) /\ <<>> \in Seq(Fonts) /\ <<>> \in Seq(Ways) /\ FALSE \in BOOLEAN
    OBVIOUS
  <2> QED
    BY <2>1, <2>2 DEF Frames
<1>3. /\ f.kind = e.kind /\ f.own = e.own /\ f.of = e.of /\ f.states = <<>> /\ f.fonts = <<>>
      /\ f.saved.masking = masking /\ f.saved.reporting = reporting
  OBVIOUS
<1> HIDE DEF f
<1>4. /\ frames' \in Seq(Frames) /\ frames' # <<>> /\ frames'[n] = f
      /\ \A i \in DOMAIN frames : frames'[i] = frames[i]
      /\ \A i \in DOMAIN frames' : i \in DOMAIN frames \/ i = n
      /\ Len(frames) \in Nat /\ DOMAIN frames = 1..Len(frames)
  BY <1>1, <1>2, Pushed
<1>5. frames # <<>> => n # 1
  BY <1>1
<1>6. frames = <<>> => n = 1
  BY <1>1
<1> HIDE DEF n
<1>7. Matched(frames')
  BY <1>3, <1>4 DEF CInv, Matched
<1>8. Owned(frames', resources')
  <2>1. resources' = IF f.own THEN Append(resources, Len(frames) + 1) ELSE resources
    BY <1>3 DEF Entered
  <2>2. Owned(frames', IF f.own THEN Append(resources, Len(frames) + 1) ELSE resources)
    BY <1>1, <1>2, OwnedPushed DEF CInv
  <2> QED
    BY <2>1, <2>2
<1>9. Nested(frames')
  <2>1. ASSUME NEW i \in DOMAIN frames'
        PROVE  /\ frames'[i].kind = "page" => i = 1 /\ ~frames'[i].own
               /\ frames'[i].kind = "form" => i # 1
    <3>1. CASE i \in DOMAIN frames
      BY <1>4, <3>1 DEF CInv, Nested
    <3>2. CASE i = n
      BY <1>3, <1>4, <1>5, <1>6, <3>2
    <3> QED
      BY <1>4, <3>1, <3>2
  <2> QED
    BY <2>1 DEF Nested
<1>10. masking' \in BOOLEAN /\ Masking(frames', masking')
  <2>1. masking' = (masking \/ f.kind = "group")
    BY <1>3 DEF Entered
  <2>2. Masking(frames', masking \/ f.kind = "group")
    BY <1>0, <1>1, <1>2, <1>3, MaskingPushed DEF CInv, Switched
  <2> QED
    BY <2>1, <2>2
<1>11. reporting' \in BOOLEAN /\ Reporting(frames', reporting', interrupted')
  <2>1. reporting' = IF f.kind = "page" THEN ~interrupted' ELSE reporting /\ f.kind = "form"
    BY <1>3 DEF Entered
  <2>2. CASE frames # <<>> /\ e.kind # "page" /\ UNCHANGED <<interrupted, annotating>>
    <3>1. reporting' = (reporting /\ f.kind \in Outer) /\ reporting' \in BOOLEAN
      BY <1>0, <1>3, <2>1, <2>2 DEF Outer, Switched
    <3>2. Reporting(frames, reporting, interrupted)
      BY DEF CInv
    <3>3. Reporting(Append(frames, f), reporting', interrupted)
      BY <1>0, <1>1, <1>2, <1>3, <2>2, <3>1, <3>2, ReportingPushed DEF Switched
    <3> QED
      BY <1>1, <2>2, <3>1, <3>3
  <2>3. CASE frames = <<>> /\ e.kind = "page" /\ interrupted' \in BOOLEAN
    <3>1. reporting' = ~interrupted' /\ f.kind \in Outer /\ reporting' \in BOOLEAN
      BY <1>3, <2>1, <2>3 DEF Outer
    <3>2. Reporting(frames, reporting, interrupted')
      BY <2>3 DEF Reporting
    <3>3. Reporting(Append(frames, f), reporting', interrupted')
      BY <1>0, <1>1, <1>2, <2>3, <3>1, <3>2, ReportingPushed DEF Switched
    <3> QED
      BY <1>1, <3>1, <3>3
  <2>4. CASE frames = <<>> /\ e.kind = "annot" /\ annotating /\ UNCHANGED <<interrupted, annotating>>
    <3>1. reporting' = FALSE /\ f.kind \notin Outer /\ f.saved.reporting = ~interrupted
      BY <1>0, <1>3, <2>1, <2>4 DEF Outer, CInv, Between, Switched
    <3>2. Reporting(frames, reporting, interrupted)
      BY DEF CInv
    <3>3. Reporting(Append(frames, f), FALSE, interrupted)
      BY <1>0, <1>1, <1>2, <2>4, <3>1, <3>2, ReportingPushed DEF Switched
    <3> QED
      BY <1>1, <2>4, <3>1, <3>3
  <2> QED
    BY <2>2, <2>3, <2>4
<1>12. Switched'
  BY <1>0, <1>10, <1>11 DEF Switched
<1>13. Typed'
  <2>1. state' \in States
    BY DEF Entered
  <2> QED
    BY <1>4, <2>1 DEF Typed
<1>14. Between'
  BY <1>4 DEF Between
<1> QED
  BY <1>7, <1>8, <1>9, <1>10, <1>11, <1>12, <1>13, <1>14 DEF CInv

\* A content that is over, but for those of pages.
LEMMA ReturnsKeeps ==
  ASSUME CInv, frames # <<>>, Top.kind # "page",
         frames' \in Seq(Frames), Alike(Front(frames), frames'), Matched(frames'),
         resources' = IF Top.own THEN Front(resources) ELSE resources,
         state' \in States, font' \in Fonts, softMask' \in Masks, groupCache' \subseteq Groups,
         masking' = Top.saved.masking \/ (Top.kind # "group" /\ masking' = masking),
         NEW q \in BOOLEAN, q = IF Top.kind \in Outer THEN reporting ELSE Top.saved.reporting,
         \/ reporting' = q /\ interrupted' = interrupted
         \/ q = TRUE /\ Top.kind \notin Outer /\ reporting' = FALSE /\ interrupted' = TRUE,
         UNCHANGED <<annotating, pages, read>>
  PROVE  CInv'
<1> DEFINE n == Len(frames)
           gs == Front(frames)
<1>0. Switched /\ Typed
  BY DEF CInv
<1>1. /\ frames \in Seq(Frames) /\ gs \in Seq(Frames) /\ n \in DOMAIN frames /\ Top = frames[n]
      /\ Below(frames, n) = DOMAIN gs /\ Top \in Frames
      /\ DOMAIN frames = 1..n /\ DOMAIN gs = 1..(n - 1) /\ n \in Nat \ {0}
      /\ \A i \in DOMAIN gs : i \in DOMAIN frames /\ i # n /\ gs[i] = frames[i]
  BY <1>0, Popped DEF Typed, Top
<1>2. Owned(frames', resources')
  <2>1. Owned(gs, IF Top.own THEN Front(resources) ELSE resources)
    BY <1>0, <1>1, OwnedPopped DEF CInv
  <2> HIDE DEF gs
  <2> QED
    BY <2>1, AlikeKeeps DEF gs
<1>3. Nested(frames')
  <2>1. Nested(gs)
    BY <1>1 DEF CInv, Nested
  <2> QED
    BY <2>1, AlikeKeeps
<1>4. masking' \in BOOLEAN /\ Masking(frames', masking')
  <2>1. /\ Masking(gs, Top.saved.masking) /\ Top.saved.masking \in BOOLEAN
        /\ Top.kind # "group" => masking = Top.saved.masking
    <3>1. Top.saved.masking \in BOOLEAN
      BY <1>1 DEF Frames
    <3>2. Masking(gs, Top.saved.masking) /\ (Top.kind # "group" => (masking <=> Top.saved.masking))
      BY <1>0, <1>1, MaskingPopped DEF CInv, Switched
    <3> QED
      BY <1>0, <3>1, <3>2 DEF Switched
  <2>2. masking' = Top.saved.masking
    BY <2>1
  <2> QED
    BY <2>1, <2>2, AlikeKeeps
<1>5. Reporting(gs, q, interrupted)
  BY <1>0, <1>1, ReportingPopped DEF CInv, Switched
<1>6. reporting' \in BOOLEAN /\ interrupted' \in BOOLEAN /\ Reporting(gs, reporting', interrupted')
  <2>1. CASE reporting' = q /\ interrupted' = interrupted
    BY <1>0, <1>5, <2>1 DEF Switched
  <2>2. CASE q = TRUE /\ Top.kind \notin Outer /\ reporting' = FALSE /\ interrupted' = TRUE
    <3>1. CASE gs = <<>>
      <4>1. DOMAIN gs = {}
        BY <3>1
      <4> QED
        BY <2>2, <3>1, <4>1 DEF Reporting
    <3>2. CASE gs # <<>>
      BY <1>0, <1>5, <2>2, <3>2, ReportingCut DEF Switched
    <3> QED
      BY <3>1, <3>2
  <2> QED
    BY <2>1, <2>2
<1>7. Reporting(frames', reporting', interrupted')
  BY <1>6, AlikeKeeps
<1>8. Switched'
  BY <1>0, <1>4, <1>6 DEF Switched
<1>9. Typed'
  BY <1>0 DEF Typed
<1>10. ASSUME frames' = <<>> PROVE reporting' <=> ~interrupted'
  <2>1. DOMAIN gs = {}
    BY <1>10 DEF Alike
  <2>2. n = 1
    BY <1>1, <2>1
  <2>3. Top.kind \notin Outer
    BY <1>1, <2>2 DEF CInv, Nested, Outer
  <2>4. q <=> ~interrupted
    <3>1. Top.saved.reporting <=> ~interrupted /\ \A j \in Below(frames, n) : frames[j].kind \in Outer
      BY <1>1, <2>3 DEF CInv, Reporting
    <3> QED
      BY <1>1, <2>1, <2>3, <3>1
  <2> QED
    BY <1>0, <2>4 DEF Switched
<1>11. Between'
  BY <1>10 DEF Between
<1> QED
  BY <1>2, <1>3, <1>4, <1>7, <1>8, <1>9, <1>11 DEF CInv

---------------------------------------------------------------------------
(* Operators. *)

LEMMA ReadsIs ==
  ASSUME ContentAssumption, CInv, NEW kind, Reads(kind)
  PROVE  frames # <<>> /\ read' \in 0..MaxOps
  BY DEF Reads, CInv, Typed, ContentAssumption

LEMMA SimpleKeeps ==
  ASSUME CInv, frames # <<>>, read' \in 0..MaxOps, NEW e, Simple(e), After(state, e) \in States
  PROVE  CInv'
<1>1. /\ state' \in States
      /\ UNCHANGED <<font, resources, softMask, groupCache, masking, reporting, interrupted, pages,
                     annotating, frames>>
  BY DEF Simple, members
<1>2. font \in Fonts /\ softMask \in Masks
  BY DEF CInv, Typed
<1> QED
  BY <1>1, <1>2, StateKeeps DEF Progressed

LEMMA OperatorKeeps ==
  ASSUME ContentAssumption, CInv,
         PathOperator \/ ColourOperator \/ PatternOperator \/ ConcatOperator \/ TextOperator
           \/ \E w \in Ways, a \in {0, 1} : SetOpacity(w, a)
  PROVE  CInv'
<1> USE ContentAssumption
<1>0. state \in States
  BY DEF CInv, Typed
<1>1. CASE PathOperator
  <2>1. PICK name \in {"construct", "clip", "end path"} : Reads("path") /\ Simple(Op(name))
    BY <1>1 DEF PathOperator
  <2>2. After(state, Op(name)) \in States
    BY <1>0, PathsKept DEF After, Op
  <2> QED
    BY <2>1, <2>2, ReadsIs, SimpleKeeps
<1>2. CASE ColourOperator
  <2>1. PICK w \in Ways :
          \/ \E c \in Colours : \/ Simple(OpOf("device colour", w, c))
                                \/ Simple(OpOf("colour", w, c))
          \/ Simple(OpOf("colour space", w, None))
    BY <1>2 DEF ColourOperator
  <2>2. /\ \A c \in Colours : After(state, OpOf("device colour", w, c)) \in States
        /\ \A c \in Colours : After(state, OpOf("colour", w, c)) \in States
        /\ After(state, OpOf("colour space", w, None)) \in States
    BY <1>0, ColoursKept DEF After, OpOf
  <2>3. frames # <<>> /\ read' \in 0..MaxOps
    BY <1>2, ReadsIs DEF ColourOperator
  <2> QED
    BY <2>1, <2>2, <2>3, SimpleKeeps
<1>3. CASE PatternOperator
  <2>1. PICK w \in Ways, p \in Patterns : Simple(OpOf("pattern", w, p))
    BY <1>3 DEF PatternOperator
  <2>2. After(state, OpOf("pattern", w, p)) \in States
    BY <1>0, ColoursKept DEF After, OpOf
  <2>3. frames # <<>> /\ read' \in 0..MaxOps
    BY <1>3, ReadsIs DEF PatternOperator
  <2> QED
    BY <2>1, <2>2, <2>3, SimpleKeeps
<1>4. CASE ConcatOperator
  <2>1. After(state, Op("concat")) \in States
    BY <1>0, PlacesKept DEF After, Op
  <2> QED
    BY <1>4, <2>1, ReadsIs, SimpleKeeps DEF ConcatOperator
<1>5. CASE TextOperator
  <2>1. \/ Simple(Op("begin text")) \/ Simple(Op("end text"))
        \/ \E clips \in BOOLEAN : Simple(OpOf("mode", "fill", clips))
    BY <1>5 DEF TextOperator
  <2>2. /\ After(state, Op("begin text")) \in States /\ After(state, Op("end text")) \in States
        /\ \A clips \in BOOLEAN : After(state, OpOf("mode", "fill", clips)) \in States
    BY <1>0, TextKept DEF After, Op, OpOf
  <2>3. frames # <<>> /\ read' \in 0..MaxOps
    BY <1>5, ReadsIs DEF TextOperator
  <2> QED
    BY <2>1, <2>2, <2>3, SimpleKeeps
<1>6. ASSUME NEW w \in Ways, NEW a \in {0, 1}, SetOpacity(w, a) PROVE CInv'
  <2>1. After(state, OpOf("opacity", w, a)) \in States
    BY <1>0, ColoursKept DEF After, OpOf
  <2> QED
    BY <1>6, <2>1, ReadsIs, SimpleKeeps DEF SetOpacity
<1> QED
  BY <1>1, <1>2, <1>3, <1>4, <1>5, <1>6

\* Tf
LEMMA SetFontKeeps ==
  ASSUME ContentAssumption, CInv, NEW f \in PageFonts \union OtherFonts, SetFont(f)
  PROVE  CInv'
<1>1. frames # <<>> /\ read' \in 0..MaxOps /\ state \in States
  BY ReadsIs DEF SetFont, CInv, Typed
<1>2. state' \in States
  BY <1>1, TextKept DEF SetFont
<1>3. Owner \in Nat
  <2>1. resources \in Seq(Nat)
    BY DEF CInv, Owned
  <2> QED
    BY <2>1, Popped DEF Owner, Last
<1>4. font' \in Fonts
  BY <1>3 DEF SetFont, FontNamed, Fonts
<1>5. UNCHANGED <<resources, softMask, groupCache, masking, reporting, interrupted, pages,
                  annotating, frames>>
  BY DEF SetFont, members
<1> QED
  BY <1>1, <1>2, <1>4, <1>5, StateKeeps DEF Progressed, CInv, Typed

\* q
LEMMA SaveKeeps ==
  ASSUME ContentAssumption, CInv, Save
  PROVE  CInv'
<1> DEFINE f == [Top EXCEPT !.states = Append(@, state), !.fonts = Append(@, font)]
<1>1. frames # <<>> /\ read' \in 0..MaxOps
  BY ReadsIs DEF Save
<1>2. frames \in Seq(Frames) /\ state \in States /\ font \in Fonts /\ softMask \in Masks
  BY DEF CInv, Typed
<1>3. Top \in Frames /\ Len(Top.fonts) = Len(Top.states)
  BY <1>1, <1>2, Popped DEF Top, CInv, Matched
<1>4. /\ Top.states \in Seq(States) /\ Top.fonts \in Seq(Fonts)
  BY <1>3 DEF Frames
<1>5. /\ Append(Top.states, state) \in Seq(States) /\ Append(Top.fonts, font) \in Seq(Fonts)
      /\ Len(Append(Top.states, state)) = Len(Append(Top.fonts, font))
  BY <1>2, <1>3, <1>4
<1>6. /\ f \in Frames /\ f.kind = Top.kind /\ f.own = Top.own /\ f.of = Top.of
      /\ f.saved = Top.saved /\ Len(f.fonts) = Len(f.states)
  BY <1>3, <1>5 DEF Frames
<1>7. frames' = [frames EXCEPT ![Len(frames)] = f]
  BY <1>1, <1>2 DEF Save, Top
<1> HIDE DEF f
<1>8. UNCHANGED <<state, font, resources, softMask, groupCache, masking, reporting, interrupted,
                  pages, annotating>>
  BY DEF Save, members
<1> QED
  BY <1>1, <1>2, <1>6, <1>7, <1>8, EditKeeps DEF Progressed

\* Q
LEMMA RestoreKeeps ==
  ASSUME ContentAssumption, CInv, Restore
  PROVE  CInv'
<1> DEFINE f == [Top EXCEPT !.states = Front(@), !.fonts = Front(@)]
<1>1. frames # <<>> /\ read' \in 0..MaxOps
  BY ReadsIs DEF Restore
<1>2. frames \in Seq(Frames) /\ state \in States /\ font \in Fonts /\ softMask \in Masks
  BY DEF CInv, Typed
<1>3. Top \in Frames /\ Len(Top.fonts) = Len(Top.states)
  BY <1>1, <1>2, Popped DEF Top, CInv, Matched
<1>4. Top.states \in Seq(States) /\ Top.fonts \in Seq(Fonts)
  BY <1>3 DEF Frames
<1>5. UNCHANGED <<resources, groupCache, masking, reporting, interrupted, pages, annotating>>
  BY DEF Restore
<1>6. CASE Top.states = <<>>
  <2>1. UNCHANGED <<state, font, softMask, frames>>
    BY <1>6 DEF Restore
  <2> QED
    BY <1>1, <1>2, <1>5, <2>1, StateKeeps DEF Progressed
<1>7. CASE Top.states # <<>>
  <2>1. Top.fonts # <<>>
    BY <1>3, <1>4, <1>7, EmptySeq
  <2>2. /\ Front(Top.states) \in Seq(States) /\ Last(Top.states) \in States
        /\ Len(Front(Top.states)) = Len(Top.states) - 1
    BY <1>4, <1>7, Popped DEF Last
  <2>3. /\ Front(Top.fonts) \in Seq(Fonts) /\ Last(Top.fonts) \in Fonts
        /\ Len(Front(Top.fonts)) = Len(Top.fonts) - 1
    BY <1>4, <2>1, Popped DEF Last
  <2>4. /\ f \in Frames /\ f.kind = Top.kind /\ f.own = Top.own /\ f.of = Top.of
        /\ f.saved = Top.saved /\ Len(f.fonts) = Len(f.states)
    BY <1>3, <2>2, <2>3 DEF Frames
  <2>5. frames' = [frames EXCEPT ![Len(frames)] = f]
    BY <1>1, <1>2, <1>7 DEF Restore, Top
  <2> HIDE DEF f
  <2>6. state' = Last(Top.states) /\ font' = Last(Top.fonts) /\ softMask' = None
    BY <1>7 DEF Restore
  <2>7. state' \in States /\ font' \in Fonts /\ softMask' \in Masks
    BY <2>2, <2>3, <2>6 DEF Masks
  <2> QED
    BY <1>1, <1>5, <2>4, <2>5, <2>7, EditKeeps DEF Progressed
<1> QED
  BY <1>6, <1>7

LEMMA AttachedIsMask ==
  ASSUME CInv PROVE Attached \in Masks /\ state.mask \in Masks
<1>1. state.mask \in Masks /\ softMask \in Masks
  BY DEF CInv, Typed, States
<1> QED
  BY <1>1 DEF Attached

\* f, S, B and the others, and the shapes they push
LEMMA PaintKeeps ==
  ASSUME ContentAssumption, CInv, PaintOperator
  PROVE  CInv'
<1>1. frames # <<>> /\ read' \in 0..MaxOps
  BY ReadsIs DEF PaintOperator
<1>2. PICK ways \in {<<"fill">>, <<"stroke">>, <<"fill", "stroke">>} :
        frames' = [frames EXCEPT ![Len(frames)].painting = ways]
  BY DEF PaintOperator
<1> DEFINE f == [Top EXCEPT !.painting = ways]
<1>3. frames \in Seq(Frames) /\ state \in States /\ font \in Fonts /\ softMask \in Masks
  BY DEF CInv, Typed
<1>4. Top \in Frames /\ Len(Top.fonts) = Len(Top.states)
  BY <1>1, <1>3, Popped DEF Top, CInv, Matched
<1>5. ways \in Seq(Ways)
  <2>1. "fill" \in Ways /\ "stroke" \in Ways
    BY DEF Ways
  <2>2. <<"fill">> \in Seq(Ways) /\ <<"stroke">> \in Seq(Ways) /\ <<"fill", "stroke">> \in Seq(Ways)
    BY <2>1
  <2> QED
    BY <2>2
<1>6. /\ f \in Frames /\ f.kind = Top.kind /\ f.own = Top.own /\ f.of = Top.of
      /\ f.saved = Top.saved /\ Len(f.fonts) = Len(f.states)
  BY <1>4, <1>5 DEF Frames
<1>7. frames' = [frames EXCEPT ![Len(frames)] = f]
  BY <1>1, <1>2, <1>3 DEF Top
<1> HIDE DEF f
<1>8. UNCHANGED <<state, font, resources, softMask, groupCache, masking, reporting, interrupted,
                  pages, annotating>>
  BY DEF PaintOperator, members
<1> QED
  BY <1>1, <1>3, <1>6, <1>7, <1>8, EditKeeps DEF Progressed

LEMMA PushShapeKeeps ==
  ASSUME CInv, PushShape
  PROVE  CInv'
<1> DEFINE f == [Top EXCEPT !.painting = Tail(@), !.tiled = FALSE]
<1>1. frames # <<>> /\ Top.painting # <<>>
  BY DEF PushShape
<1>2. frames \in Seq(Frames) /\ state \in States /\ font \in Fonts /\ softMask \in Masks /\ read \in 0..MaxOps
  BY DEF CInv, Typed
<1>3. Top \in Frames /\ Len(Top.fonts) = Len(Top.states)
  BY <1>1, <1>2, Popped DEF Top, CInv, Matched
<1>4. Top.painting \in Seq(Ways)
  BY <1>3 DEF Frames
<1>5. Tail(Top.painting) \in Seq(Ways)
  BY <1>1, <1>4
<1>6. /\ f \in Frames /\ f.kind = Top.kind /\ f.own = Top.own /\ f.of = Top.of
      /\ f.saved = Top.saved /\ Len(f.fonts) = Len(f.states)
  BY <1>3, <1>5 DEF Frames
<1>7. frames' = [frames EXCEPT ![Len(frames)] = f]
  BY <1>1, <1>2 DEF PushShape, Top
<1> HIDE DEF f
<1>8. UNCHANGED <<font, resources, groupCache, masking, pages, annotating, read>>
  BY DEF PushShape
<1>9. softMask' \in Masks
  BY <1>2, AttachedIsMask DEF PushShape, Attach
<1>10. state' \in States /\ Progressed
  <2>1. CASE Tail(Top.painting) # <<>>
    BY <1>2, <2>1 DEF PushShape, Progressed
  <2>2. CASE Tail(Top.painting) = <<>>
    <3>1. state' = EndPath(state) /\ Progress(reporting)
      BY <2>2 DEF PushShape
    <3>2. Progressed
      BY <3>1 DEF Progress, Progressed, CInv, Switched
    <3> QED
      BY <1>2, <3>1, <3>2, PathsKept
  <2> QED
    BY <2>1, <2>2
<1> QED
  BY <1>1, <1>2, <1>6, <1>7, <1>8, <1>9, <1>10, EditKeeps

\* Tj and the others, with outlines
LEMMA ShowTextKeeps ==
  ASSUME ContentAssumption, CInv, ShowText
  PROVE  CInv'
<1>1. frames # <<>> /\ read' \in 0..MaxOps
  BY ReadsIs DEF ShowText
<1>2. state \in States /\ font \in Fonts /\ softMask \in Masks
  BY DEF CInv, Typed
<1>3. state' \in States
  BY <1>2, TextKept DEF ShowText
<1>4. softMask' \in Masks
  BY <1>2, AttachedIsMask DEF ShowText, Attach
<1>5. Progressed
  BY DEF ShowText, Progress, Progressed, CInv, Switched
<1> QED
  BY <1>1, <1>2, <1>3, <1>4, <1>5, StateKeeps DEF ShowText

\* The contents that begin inside another one.
LEMMA InnerKeeps ==
  ASSUME ContentAssumption, CInv, frames # <<>>, NEW kind \in {"form", "tile", "glyph", "group"},
         NEW own \in BOOLEAN, NEW group \in BOOLEAN, NEW moved \in BOOLEAN, NEW g \in Masks,
         kind = "group" => g \in Groups,
         Entered([Content(kind, own, group, moved, font) EXCEPT !.of = g]), read' \in 0..MaxOps,
         UNCHANGED <<font, softMask, groupCache, interrupted, pages, annotating>>
  PROVE  CInv'
<1> DEFINE e == [Content(kind, own, group, moved, font) EXCEPT !.of = g]
<1>1. e = [op |-> "content", kind |-> kind, own |-> own, group |-> group, moved |-> moved,
           font |-> font, of |-> g]
  BY DEF Content
<1>2. state \in States /\ font \in Fonts /\ softMask \in Masks /\ groupCache \subseteq Groups /\ pages \in 0..MaxPages
  BY DEF CInv, Typed
<1> HIDE DEF e
<1>3. Inside(state, e) \in States
  BY <1>1, <1>2, PlacesKept DEF Inside
<1>4. e.kind = kind /\ e.own = own /\ e.of = g
  BY <1>1
<1>5. Entered(e)
  BY DEF e
<1> QED
  BY <1>2, <1>3, <1>4, <1>5, EnteredKeeps DEF Kinds

LEMMA NoneIsMask == None \in Masks
  BY DEF Masks

\* Contents that begin with no mask of their own to say.
LEMMA PlainInnerKeeps ==
  ASSUME ContentAssumption, CInv, frames # <<>>, NEW kind \in {"form", "tile", "glyph"},
         NEW own \in BOOLEAN, NEW group \in BOOLEAN, NEW moved \in BOOLEAN,
         Entered(Content(kind, own, group, moved, font)), read' \in 0..MaxOps,
         UNCHANGED <<font, softMask, groupCache, interrupted, pages, annotating>>
  PROVE  CInv'
<1>1. [Content(kind, own, group, moved, font) EXCEPT !.of = None]
        = Content(kind, own, group, moved, font)
  BY DEF Content
<1> QED
  BY <1>1, NoneIsMask, InnerKeeps

\* Do of a Form XObject, the tile of a pattern, a Type 3 glyph
LEMMA ContentsKeep ==
  ASSUME ContentAssumption, CInv,
         \/ \E f \in Forms : DoForm(f)
         \/ \E own \in BOOLEAN : RenderTile(own) \/ ShowGlyph(own)
  PROVE  CInv'
<1>0. read \in 0..MaxOps
  BY DEF CInv, Typed
<1>1. ASSUME NEW f \in Forms, DoForm(f) PROVE CInv'
  <2>1. f.own \in BOOLEAN /\ f.group \in BOOLEAN /\ f.moved \in BOOLEAN
    BY DEF ContentAssumption
  <2>2. frames # <<>> /\ read' \in 0..MaxOps
    BY <1>1, ReadsIs DEF DoForm
  <2> QED
    BY <1>1, <2>1, <2>2, PlainInnerKeeps DEF DoForm
<1>2. ASSUME NEW own \in BOOLEAN, RenderTile(own) PROVE CInv'
  BY <1>0, <1>2, PlainInnerKeeps DEF RenderTile, Plain
<1>3. ASSUME NEW own \in BOOLEAN, ShowGlyph(own) PROVE CInv'
  <2>1. frames # <<>> /\ read' \in 0..MaxOps
    BY <1>3, ReadsIs DEF ShowGlyph
  <2> QED
    BY <1>3, <2>1, PlainInnerKeeps DEF ShowGlyph, Plain
<1> QED
  BY <1>1, <1>2, <1>3

\* gs with a soft mask
LEMMA SetSoftMaskKeeps ==
  ASSUME ContentAssumption, CInv, NEW g \in Groups \union {None}, NEW own \in BOOLEAN, SetSoftMask(g, own)
  PROVE  CInv'
<1>1. frames # <<>> /\ read' \in 0..MaxOps
  BY ReadsIs DEF SetSoftMask
<1>2. state \in States /\ font \in Fonts /\ softMask \in Masks /\ groupCache \subseteq Groups
  BY DEF CInv, Typed
<1>3. CASE UNCHANGED <<state, font, resources, members, frames, scope>>
  BY <1>1, <1>2, <1>3, StateKeeps DEF members, Progressed
<1>4. ASSUME NEW h \in Masks, ForgetMask(h), softMask' \in {softMask, None} PROVE CInv'
  <2>1. state' \in States
    BY <1>2, <1>4, PlacesKept DEF ForgetMask
  <2>2. softMask' \in Masks
    BY <1>2, <1>4, NoneIsMask
  <2> QED
    BY <1>1, <1>2, <1>4, <2>1, <2>2, StateKeeps DEF ForgetMask, Progressed
<1>5. CASE /\ g \notin groupCache \union {None} /\ Entered([Plain("group", own) EXCEPT !.of = g])
           /\ UNCHANGED <<font, softMask, groupCache, interrupted, pages, annotating, uses>>
  <2>1. g \in Groups /\ g \in Masks
    BY <1>5 DEF Masks
  <2> QED
    BY <1>1, <1>5, <2>1, InnerKeeps DEF Plain
<1>6. g \in Masks
  BY DEF Masks
<1> QED
  BY <1>3, <1>4, <1>5, <1>6, NoneIsMask DEF SetSoftMask

\* render_page and render_annotations
LEMMA OutermostKeeps ==
  ASSUME ContentAssumption, CInv, BeginPage \/ \E own \in BOOLEAN : BeginAnnotation(own)
  PROVE  CInv'
<1>0. /\ state \in States /\ font \in Fonts /\ softMask \in Masks /\ groupCache \subseteq Groups
      /\ pages \in 0..MaxPages /\ read \in 0..MaxOps
  BY DEF CInv, Typed
<1>1. ASSUME NEW kind \in {"page", "annot"}, NEW own \in BOOLEAN
      PROVE  /\ Plain(kind, own).kind = kind /\ Plain(kind, own).own = own
             /\ Plain(kind, own).of = None /\ Inside(state, Plain(kind, own)) \in States
  <2>1. /\ Plain(kind, own).kind = kind /\ Plain(kind, own).own = own /\ Plain(kind, own).of = None
    BY DEF Plain, Content
  <2>2. Inside(state, Plain(kind, own)) \in States
    BY <1>0, <2>1, PlacesKept DEF Inside
  <2> QED
    BY <2>1, <2>2
<1>2. CASE BeginPage
  <2>1. /\ frames = <<>> /\ Entered(Plain("page", FALSE)) /\ interrupted' \in BOOLEAN
        /\ softMask' = None /\ groupCache' = {} /\ annotating' = FALSE
        /\ font' = font /\ read' = read /\ pages < MaxPages /\ pages' = pages + 1
    BY <1>2 DEF BeginPage
  <2>2. pages' \in 0..MaxPages
    BY <1>0, <2>1 DEF ContentAssumption
  <2> QED
    BY <1>0, <1>1, <2>1, <2>2, NoneIsMask, EnteredKeeps DEF Kinds
<1>3. ASSUME NEW own \in BOOLEAN, BeginAnnotation(own) PROVE CInv'
  <2>1. /\ frames = <<>> /\ annotating /\ Entered(Plain("annot", own)) /\ read' \in 0..MaxOps
        /\ UNCHANGED <<font, softMask, groupCache, interrupted, pages, annotating>>
    BY <1>0, <1>3 DEF BeginAnnotation, ContentAssumption
  <2> QED
    BY <1>0, <1>1, <2>1, NoneIsMask, EnteredKeeps DEF Kinds
<1> QED
  BY <1>2, <1>3

---------------------------------------------------------------------------
(* The ends of contents. *)

\* Nothing runs after a page, and its reports are on unless it was interrupted.
LEMMA EndPageKeeps ==
  ASSUME CInv, EndPage
  PROVE  CInv'
<1> DEFINE n == Len(frames)
<1>0. Switched /\ Typed
  BY DEF CInv
<1>1. /\ frames # <<>> /\ Top.kind = "page" /\ frames' = <<>> /\ annotating' = ~interrupted
      /\ resources' = IF Top.own THEN Front(resources) ELSE resources
      /\ UNCHANGED <<state, font, softMask, groupCache, masking, reporting, interrupted, pages, read>>
  BY DEF EndPage, Ends
<1>2. /\ frames \in Seq(Frames) /\ n \in DOMAIN frames /\ Top = frames[n]
      /\ DOMAIN frames = 1..n /\ Front(frames) \in Seq(Frames) /\ Len(Front(frames)) = n - 1
  BY <1>0, <1>1, Popped DEF Typed, Top
<1>3. n = 1 /\ ~Top.own
  BY <1>1, <1>2 DEF CInv, Nested
<1>4. Front(frames) = <<>>
  BY <1>2, <1>3, EmptySeq
<1>5. Owned(frames', resources')
  BY <1>1, <1>2, <1>4, OwnedPopped DEF CInv
<1>6. Masking(frames', masking')
  <2>1. Masking(<<>>, Top.saved.masking) /\ (masking <=> Top.saved.masking)
    BY <1>0, <1>1, <1>2, <1>4, MaskingPopped DEF CInv, Switched
  <2> QED
    BY <1>1, <2>1 DEF Masking
<1>7. \A i \in DOMAIN <<>> : FALSE
  OBVIOUS
<1>8. Matched(frames') /\ Nested(frames') /\ Reporting(frames', reporting', interrupted')
  BY <1>1, <1>7 DEF Matched, Nested, Reporting
<1>9. reporting <=> ~interrupted
  BY <1>1, <1>2, <1>3 DEF CInv, Reporting, Outer
<1>10. Between' /\ Switched'
  BY <1>0, <1>1, <1>9 DEF Between, Switched
<1>11. Typed'
  BY <1>0, <1>1 DEF Typed
<1> QED
  BY <1>5, <1>6, <1>8, <1>10, <1>11 DEF CInv

\* What is left when the innermost content is over.
LEMMA LeftIsAlike ==
  ASSUME CInv, frames # <<>>
  PROVE  /\ Front(frames) \in Seq(Frames) /\ Alike(Front(frames), Front(frames))
         /\ Matched(Front(frames)) /\ Top \in Frames /\ Top.saved.state \in States
         /\ Top.kind = "group" => Top.of \in Groups
<1>1. /\ frames \in Seq(Frames) /\ Front(frames) \in Seq(Frames) /\ Top \in Frames
      /\ Top = frames[Len(frames)] /\ Len(frames) \in DOMAIN frames
      /\ \A i \in DOMAIN Front(frames) : i \in DOMAIN frames /\ Front(frames)[i] = frames[i]
  BY Popped DEF CInv, Typed, Top
<1>2. Alike(Front(frames), Front(frames))
  BY DEF Alike
<1>3. Matched(Front(frames)) /\ (Top.kind = "group" => Top.of \in Groups)
  BY <1>1 DEF CInv, Matched
<1>4. Top.saved.state \in States
  BY <1>1 DEF Frames
<1> QED
  BY <1>1, <1>2, <1>3, <1>4

\* Form XObjects, Type 3 glyphs and annotations
LEMMA ReturnKeeps ==
  ASSUME CInv, EndForm \/ EndGlyph \/ EndAnnotation
  PROVE  CInv'
<1>0. state \in States /\ font \in Fonts /\ softMask \in Masks /\ groupCache \subseteq Groups
  BY DEF CInv, Typed
<1>1. /\ frames # <<>> /\ resources' = (IF Top.own THEN Front(resources) ELSE resources)
      /\ state' = Top.saved.state /\ frames' = Front(frames)
      /\ UNCHANGED <<font, softMask, groupCache, masking, pages, read, annotating>>
      /\ Top.kind \in {"form", "glyph", "annot"}
  BY DEF EndForm, EndGlyph, EndAnnotation, Returns, Ends
<1>2. Top.saved.reporting \in BOOLEAN /\ Top.saved.masking \in BOOLEAN /\ reporting \in BOOLEAN
      /\ masking \in BOOLEAN
  BY <1>1, LeftIsAlike DEF Frames, CInv, Switched
<1> DEFINE q == IF Top.kind \in Outer THEN reporting ELSE Top.saved.reporting
<1>3. q \in BOOLEAN
  BY <1>2
<1>4. \/ reporting' = q /\ interrupted' = interrupted
      \/ q = TRUE /\ Top.kind \notin Outer /\ reporting' = FALSE /\ interrupted' = TRUE
  BY <1>2 DEF EndForm, EndGlyph, EndAnnotation, Progress, Outer
<1>5. Top.kind # "page" /\ Top.kind # "group"
  BY <1>1
<1>6. /\ frames' \in Seq(Frames) /\ Alike(Front(frames), frames') /\ Matched(frames')
      /\ state' \in States
  BY <1>1, LeftIsAlike
<1>7. masking' = Top.saved.masking \/ (Top.kind # "group" /\ masking' = masking)
  BY <1>1, <1>5
<1>8. font' \in Fonts /\ softMask' \in Masks /\ groupCache' \subseteq Groups
  BY <1>0, <1>1
<1> HIDE DEF q
<1>9. q = IF Top.kind \in Outer THEN reporting ELSE Top.saved.reporting
  BY DEF q
<1> QED
  BY <1>1, <1>3, <1>4, <1>5, <1>6, <1>7, <1>8, <1>9, ReturnsKeeps

\* The tile of a pattern
LEMMA EndTileKeeps ==
  ASSUME CInv, EndTile
  PROVE  CInv'
<1> DEFINE gs == Front(frames)
           m == Len(frames) - 1
<1>0. state \in States /\ font \in Fonts /\ softMask \in Masks /\ groupCache \subseteq Groups
  BY DEF CInv, Typed
<1>1. /\ frames # <<>> /\ resources' = (IF Top.own THEN Front(resources) ELSE resources)
      /\ state' = Top.saved.state /\ frames' = [gs EXCEPT ![m].tiled = TRUE]
      /\ UNCHANGED <<font, softMask, groupCache, masking, interrupted, pages, read, annotating>>
      /\ Top.kind = "tile" /\ reporting' = Top.saved.reporting
  BY DEF EndTile, Ends
<1>2. /\ gs \in Seq(Frames) /\ Matched(gs) /\ Top \in Frames /\ state' \in States
  BY <1>1, LeftIsAlike
<1>3. Top.saved.reporting \in BOOLEAN /\ masking \in BOOLEAN
  BY <1>2 DEF Frames, CInv, Switched
<1> HIDE DEF gs, m
<1>4. ASSUME m \in DOMAIN gs
      PROVE  /\ frames' \in Seq(Frames) /\ Alike(gs, frames') /\ Matched(frames')
  <2> DEFINE f == [gs[m] EXCEPT !.tiled = TRUE]
  <2>1. gs[m] \in Frames
    BY <1>2, <1>4, ElementOfSeq, LenProperties
  <2>2. f \in Frames /\ f.kind = gs[m].kind /\ f.own = gs[m].own /\ f.saved = gs[m].saved
        /\ f.of = gs[m].of /\ f.fonts = gs[m].fonts /\ f.states = gs[m].states
    BY <2>1 DEF Frames
  <2>3. frames' = [gs EXCEPT ![m] = f]
    BY <1>1
  <2> HIDE DEF f
  <2>4. /\ frames' \in Seq(Frames) /\ DOMAIN frames' = DOMAIN gs
        /\ \A i \in DOMAIN gs : frames'[i] = IF i = m THEN f ELSE gs[i]
    BY <1>2, <1>4, <2>2, <2>3
  <2>5. Alike(gs, frames')
    BY <2>2, <2>4 DEF Alike
  <2>6. Matched(frames')
    BY <1>2, <2>2, <2>4 DEF Matched
  <2> QED
    BY <2>4, <2>5, <2>6
<1>5. ASSUME m \notin DOMAIN gs
      PROVE  /\ frames' \in Seq(Frames) /\ Alike(gs, frames') /\ Matched(frames')
  <2>1. frames' = gs
    BY <1>1, <1>2, <1>5
  <2> QED
    BY <1>2, <2>1 DEF Alike
<1>6. /\ frames' \in Seq(Frames) /\ Alike(gs, frames') /\ Matched(frames')
  BY <1>4, <1>5
<1> DEFINE q == Top.saved.reporting
<1>7. q = IF Top.kind \in Outer THEN reporting ELSE Top.saved.reporting
  BY <1>1 DEF Outer
<1> HIDE DEF q
<1>8. q \in BOOLEAN /\ reporting' = q
  BY <1>1, <1>3 DEF q
<1>9. /\ Top.kind # "page" /\ font' \in Fonts /\ softMask' \in Masks /\ groupCache' \subseteq Groups
      /\ masking' = Top.saved.masking \/ (Top.kind # "group" /\ masking' = masking)
  BY <1>0, <1>1
<1> QED
  BY <1>1, <1>2, <1>6, <1>7, <1>8, <1>9, ReturnsKeeps DEF gs

\* The group of a soft mask
LEMMA EndGroupKeeps ==
  ASSUME CInv, EndGroup
  PROVE  CInv'
<1>0. state \in States /\ font \in Fonts /\ softMask \in Masks /\ groupCache \subseteq Groups
  BY DEF CInv, Typed
<1>1. /\ frames # <<>> /\ resources' = (IF Top.own THEN Front(resources) ELSE resources)
      /\ state' = Masked(Top.saved.state, Top.of) /\ frames' = Front(frames)
      /\ UNCHANGED <<font, interrupted, pages, read, annotating>>
      /\ Top.kind = "group" /\ groupCache' = groupCache \union {Top.of} /\ softMask' = None
      /\ masking' = Top.saved.masking /\ reporting' = Top.saved.reporting
  BY DEF EndGroup, Ends
<1>2. /\ frames' \in Seq(Frames) /\ Alike(Front(frames), frames') /\ Matched(frames')
      /\ Top \in Frames /\ Top.saved.state \in States /\ Top.of \in Groups
  BY <1>1, LeftIsAlike
<1>3. state' \in States
  BY <1>1, <1>2, PlacesKept DEF Masks
<1>4. softMask' \in Masks /\ groupCache' \subseteq Groups /\ font' \in Fonts
  BY <1>0, <1>1, <1>2, NoneIsMask
<1> DEFINE q == Top.saved.reporting
<1>5. q = IF Top.kind \in Outer THEN reporting ELSE Top.saved.reporting
  BY <1>1 DEF Outer
<1> HIDE DEF q
<1>6. q \in BOOLEAN /\ reporting' = q
  BY <1>1, <1>2 DEF q, Frames
<1>7. Top.kind # "page"
  BY <1>1
<1> QED
  BY <1>1, <1>2, <1>3, <1>4, <1>5, <1>6, <1>7, ReturnsKeeps

---------------------------------------------------------------------------
(* The specification. *)

LEMMA InitCInv == ContentAssumption /\ Init => CInv
<1> SUFFICES ASSUME ContentAssumption, Init PROVE CInv
  OBVIOUS
<1>1. Typed
  BY Starts, NoneIsMask DEF Init, Typed, Fonts, ContentAssumption
<1>2. Switched
  BY DEF Init, Switched
<1>3. \A i \in DOMAIN <<>> : FALSE
  OBVIOUS
<1>4. Matched(<<>>) /\ Nested(<<>>) /\ Masking(<<>>, FALSE) /\ Reporting(<<>>, FALSE, FALSE)
  BY <1>3 DEF Matched, Nested, Masking, Reporting
<1>5. Owned(<<>>, <<>>)
  <2>1. ToSet(<<>>) = {}
    BY <1>3 DEF ToSet
  <2> QED
    BY <1>3, <2>1 DEF Owned
<1>6. Between
  BY DEF Init, Between
<1> QED
  BY <1>1, <1>2, <1>4, <1>5, <1>6 DEF Init, CInv

LEMMA NextCInv == ContentAssumption /\ CInv /\ [Next]_vars => CInv'
<1> SUFFICES ASSUME ContentAssumption, CInv, [Next]_vars PROVE CInv'
  OBVIOUS
<1>1. CASE BeginPage \/ \E own \in BOOLEAN : BeginAnnotation(own)
  BY <1>1, OutermostKeeps
<1>2. ASSUME NEW g \in Groups \union {None}, NEW own \in BOOLEAN, SetSoftMask(g, own) PROVE CInv'
  BY <1>2, SetSoftMaskKeeps
<1>3. CASE \/ \E f \in Forms : DoForm(f)
           \/ \E own \in BOOLEAN : RenderTile(own) \/ ShowGlyph(own)
  BY <1>3, ContentsKeep
<1>4. CASE PathOperator \/ ColourOperator \/ PatternOperator \/ ConcatOperator \/ TextOperator
             \/ \E w \in Ways, a \in {0, 1} : SetOpacity(w, a)
  BY <1>4, OperatorKeeps
<1>5. CASE Save
  BY <1>5, SaveKeeps
<1>6. CASE Restore
  BY <1>6, RestoreKeeps
<1>7. ASSUME NEW f \in PageFonts \union OtherFonts, SetFont(f) PROVE CInv'
  BY <1>7, SetFontKeeps
<1>8. CASE PaintOperator
  BY <1>8, PaintKeeps
<1>9. CASE PushShape
  BY <1>9, PushShapeKeeps
<1>10. CASE ShowText
  BY <1>10, ShowTextKeeps
<1>11. CASE EndPage
  BY <1>11, EndPageKeeps
<1>12. CASE EndForm \/ EndGlyph \/ EndAnnotation
  BY <1>12, ReturnKeeps
<1>13. CASE EndTile
  BY <1>13, EndTileKeeps
<1>14. CASE EndGroup
  BY <1>14, EndGroupKeeps
<1>15. CASE UNCHANGED vars
  BY <1>15 DEF vars, members, CInv, Typed, Switched, Matched, Owned, Nested, Masking, Reporting,
               Between, Below
<1> QED
  BY <1>1, <1>2, <1>3, <1>4, <1>5, <1>6, <1>7, <1>8, <1>9, <1>10, <1>11, <1>12, <1>13, <1>14,
     <1>15 DEF Next

LEMMA CInvCloses == CInv => ScopesClose
<1> SUFFICES ASSUME CInv PROVE ScopesClose
  OBVIOUS
<1>1. TypeOK
  BY DEF CInv, Typed, Switched, TypeOK, States, Masks
<1>2. /\ ToSet(resources) = {i \in DOMAIN frames : frames[i].own}
      /\ \A i, j \in DOMAIN resources : i < j => resources[i] < resources[j]
  BY DEF CInv, Owned
<1>3. masking <=> \E i \in DOMAIN frames : frames[i].kind = "group"
  BY DEF CInv, Masking
<1>4. frames # <<>> =>
        (reporting <=> ~interrupted /\ \A i \in DOMAIN frames : frames[i].kind \in {"page", "form"})
  BY DEF CInv, Reporting, Outer
<1> QED
  BY <1>1, <1>2, <1>3, <1>4 DEF ScopesClose

\* Whatever the contents of a page hold, however deep they are nested and wherever they
\* are cut short, form_resources_stack_ has just the contents that run and pushed on it,
\* rendering_soft_mask_group_ is set in the groups of soft masks only, and progress_ is
\* enabled outside of tiles, glyphs, masks and annotations only: what parse_pdf_content
\* and the functions that run it save is what they find again.
THEOREM ContentsClose == Spec => []ScopesClose
<1>1. Init => CInv
  BY ContentAssumption, InitCInv
<1>2. CInv /\ [Next]_vars => CInv'
  BY ContentAssumption, NextCInv
<1>3. CInv => ScopesClose
  BY CInvCloses
<1> QED
  BY <1>1, <1>2, <1>3, PTL DEF Spec

---------------------------------------------------------------------------
(***************************************************************************)
(* Replaying: the environment after one more operator.                     *)
(***************************************************************************)

\* What holds of 0 and is inherited by successors holds of all numbers.
LEMMA Inherited ==
  ASSUME NEW S, 0 \in S, \A n \in Nat : n \in S => n + 1 \in S
  PROVE  Nat \subseteq S
<1> DEFINE T == Nat \ S
           Less == OpToRel(<, Nat)
<1> SUFFICES ASSUME T # {} PROVE FALSE
  OBVIOUS
<1>1. \A x, y \in Nat : x < y <=> <<x, y>> \in Less
  BY DEF OpToRel
<1>2. IsWellFoundedOn(Less, Nat)
  BY NatLessThanWellFounded
<1>3. T \subseteq Nat
  OBVIOUS
<1> HIDE DEF Less, T
<1>4. PICK n \in T : \A y \in T : <<y, n>> \notin Less
  BY <1>2, <1>3, WFMin
<1>5. n \in Nat /\ n \notin S /\ n # 0
  BY <1>4 DEF T
<1>6. n - 1 \in Nat /\ (n - 1) + 1 = n
  BY <1>5
<1>7. n - 1 \in T
  BY <1>5, <1>6 DEF T
<1>8. n - 1 < n
  BY <1>5
<1>9. <<n - 1, n>> \in Less
  BY <1>1, <1>5, <1>6, <1>8
<1> QED
  BY <1>4, <1>7, <1>9

IsSeq(s) == \E S : s \in Seq(S)

LEMMA Appended ==
  ASSUME NEW s, IsSeq(s), NEW e
  PROVE  /\ IsSeq(Append(s, e)) /\ Len(s) \in Nat /\ Len(Append(s, e)) = Len(s) + 1
         /\ Append(s, e)[Len(s) + 1] = e
         /\ \A i \in 1..Len(s) : Append(s, e)[i] = s[i]
<1>1. PICK S : s \in Seq(S)
  BY DEF IsSeq
<1> DEFINE T == S \union {e}
<1>2. s \in Seq(T) /\ e \in T
  <2>1. Len(s) \in Nat /\ s \in [1..Len(s) -> S]
    BY <1>1
  <2>2. s \in [1..Len(s) -> T]
    BY <2>1
  <2> HIDE DEF T
  <2>3. s \in Seq(T)
    BY <2>1, <2>2
  <2> QED
    BY <2>3 DEF T
<1> HIDE DEF T
<1>3. /\ Append(s, e) \in Seq(T) /\ Len(s) \in Nat /\ Len(Append(s, e)) = Len(s) + 1
      /\ Append(s, e)[Len(s) + 1] = e
      /\ \A i \in 1..Len(s) : Append(s, e)[i] = s[i]
  BY <1>2
<1> QED
  BY <1>3 DEF IsSeq

LEMMA Cut ==
  ASSUME NEW s, IsSeq(s), NEW n \in 0..Len(s)
  PROVE  /\ IsSeq(SubSeq(s, 1, n)) /\ Len(SubSeq(s, 1, n)) = n /\ Len(s) \in Nat
         /\ \A i \in 1..n : SubSeq(s, 1, n)[i] = s[i]
         /\ n = Len(s) => SubSeq(s, 1, n) = s
         /\ n = 0 => SubSeq(s, 1, n) = <<>>
<1>1. PICK S : s \in Seq(S)
  BY DEF IsSeq
<1>2. /\ SubSeq(s, 1, n) \in Seq(S) /\ Len(SubSeq(s, 1, n)) = n /\ Len(s) \in Nat
      /\ \A i \in 1..n : SubSeq(s, 1, n)[i] = s[i]
  BY <1>1
<1>3. n = Len(s) => SubSeq(s, 1, n) = s
  BY <1>1
<1>4. n = 0 => SubSeq(s, 1, n) = <<>>
  BY <1>1
<1> QED
  BY <1>2, <1>3, <1>4 DEF IsSeq

LEMMA NoneIsSeq == IsSeq(<<>>) /\ Len(<<>>) = 0
<1>1. <<>> \in Seq({})
  OBVIOUS
<1> QED
  BY <1>1 DEF IsSeq

Env(st, fo, d, o) == [state |-> st, depth |-> d, owner |-> o, font |-> fo]

\* f replays the first m of ops.
Replays(f, ops, m) ==
  f = [i \in 0..m |-> IF i = 0 THEN [state |-> Start, depth |-> 0, owner |-> 0, font |-> None]
                      ELSE Replayed(f[i - 1], ops[i])]

LEMMA ReplayExists ==
  ASSUME NEW ops
  PROVE  \A m \in Nat : \E f : Replays(f, ops, m)
<1> DEFINE S == {m \in Nat : \E f : Replays(f, ops, m)}
<1>1. 0 \in S
  <2> DEFINE f == [i \in 0..0 |-> [state |-> Start, depth |-> 0, owner |-> 0, font |-> None]]
  <2>1. \A i \in 0..0 : i = 0
    OBVIOUS
  <2>2. Replays(f, ops, 0)
    BY <2>1 DEF Replays
  <2> QED
    BY <2>2
<1>2. ASSUME NEW m \in Nat, m \in S PROVE m + 1 \in S
  <2>1. PICK f : Replays(f, ops, m)
    BY <1>2
  <2> DEFINE g == [i \in 0..m + 1 |-> IF i = m + 1 THEN Replayed(f[m], ops[m + 1]) ELSE f[i]]
             h == [i \in 0..m + 1 |-> IF i = 0 THEN [state |-> Start, depth |-> 0, owner |-> 0, font |-> None]
                                      ELSE Replayed(g[i - 1], ops[i])]
  <2>2. ASSUME NEW i \in 0..m + 1 PROVE g[i] = h[i]
    <3>1. CASE i = m + 1
      <4>1. i # 0 /\ i - 1 = m /\ m \in 0..m + 1 /\ m # m + 1
        BY <3>1
      <4>2. g[m] = f[m] /\ g[i] = Replayed(f[m], ops[i])
        BY <3>1, <4>1
      <4>3. h[i] = Replayed(g[i - 1], ops[i])
        BY <4>1
      <4> HIDE DEF g, h
      <4> QED
        BY <4>1, <4>2, <4>3
    <3>2. CASE i = 0
      <4>1. i \in 0..m /\ i # m + 1
        BY <3>2
      <4>2. f[i] = [state |-> Start, depth |-> 0, owner |-> 0, font |-> None]
        BY <2>1, <3>2, <4>1 DEF Replays
      <4> QED
        BY <3>2, <4>1, <4>2
    <3>3. CASE i # m + 1 /\ i # 0
      <4>1. i \in 0..m /\ i - 1 \in 0..m + 1 /\ i - 1 # m + 1
        BY <3>3
      <4>2. g[i] = f[i] /\ g[i - 1] = f[i - 1]
        BY <3>3, <4>1
      <4>3. f[i] = Replayed(f[i - 1], ops[i])
        BY <2>1, <3>3, <4>1 DEF Replays
      <4>4. h[i] = Replayed(g[i - 1], ops[i])
        BY <3>3
      <4> HIDE DEF g, h
      <4> QED
        BY <4>2, <4>3, <4>4
    <3> QED
      BY <3>1, <3>2, <3>3
  <2>3. g = h
    BY <2>2
  <2>4. Replays(g, ops, m + 1)
    <3> HIDE DEF g
    <3> QED
      BY <2>3 DEF Replays
  <2> HIDE DEF g
  <2> QED
    BY <2>4
<1>3. Nat \subseteq S
  <2> HIDE DEF S
  <2> QED
    BY <1>1, <1>2, Inherited
<1> QED
  BY <1>3

\* Two replays agree as long as the operators do.
LEMMA ReplaysAgree ==
  ASSUME NEW f, NEW g, NEW s, NEW t, NEW m \in Nat, NEW a \in Nat, NEW b \in Nat, m <= a, m <= b,
         Replays(f, s, a), Replays(g, t, b), \A i \in 1..m : s[i] = t[i]
  PROVE  f[m] = g[m]
<1> DEFINE S == {i \in Nat : i <= m => f[i] = g[i]}
<1>1. 0 \in S
  BY DEF Replays
<1>2. ASSUME NEW i \in Nat, i \in S PROVE i + 1 \in S
  <2> SUFFICES ASSUME i + 1 <= m PROVE f[i + 1] = g[i + 1]
    OBVIOUS
  <2>1. f[i] = g[i] /\ i + 1 \in 0..a /\ i + 1 \in 0..b /\ i + 1 # 0 /\ (i + 1) - 1 = i /\ i + 1 \in 1..m
    BY <1>2
  <2>2. f[i + 1] = Replayed(f[i], s[i + 1]) /\ g[i + 1] = Replayed(g[i], t[i + 1])
    BY <2>1 DEF Replays
  <2> QED
    BY <2>1, <2>2
<1>3. Nat \subseteq S
  <2> HIDE DEF S
  <2> QED
    BY <1>1, <1>2, Inherited
<1> QED
  BY <1>3

LEMMA InForceIs ==
  ASSUME NEW s, IsSeq(s)
  PROVE  \E f : Replays(f, s, Len(s)) /\ InForce(s) = f[Len(s)]
<1> DEFINE after == CHOOSE f : Replays(f, s, Len(s))
<1>1. Len(s) \in Nat
  BY Appended
<1>2. Replays(after, s, Len(s))
  BY <1>1, ReplayExists
<1>3. InForce(s) = after[Len(s)]
  BY DEF InForce, Replays
<1> QED
  BY <1>2, <1>3

LEMMA Replaying ==
  ASSUME NEW s, IsSeq(s), NEW e
  PROVE  InForce(Append(s, e)) = Replayed(InForce(s), e)
<1> DEFINE n == Len(s)
           t == Append(s, e)
<1>1. IsSeq(t) /\ n \in Nat /\ Len(t) = n + 1 /\ t[n + 1] = e /\ \A i \in 1..n : t[i] = s[i]
  BY Appended
<1>2. PICK f : Replays(f, s, n) /\ InForce(s) = f[n]
  BY InForceIs
<1> HIDE DEF n, t
<1>3. PICK g : Replays(g, t, n + 1) /\ InForce(t) = g[n + 1]
  BY <1>1, InForceIs
<1>4. n + 1 \in Nat /\ n <= n /\ n <= n + 1 /\ n + 1 \in 0..n + 1 /\ n + 1 # 0 /\ (n + 1) - 1 = n
  BY <1>1
<1>5. f[n] = g[n]
  BY <1>1, <1>2, <1>3, <1>4, ReplaysAgree
<1>6. g[n + 1] = Replayed(g[n], t[n + 1])
  BY <1>3, <1>4 DEF Replays
<1> QED
  BY <1>1, <1>2, <1>3, <1>5, <1>6 DEF t, n

LEMMA NothingInForce == InForce(<<>>) = Env(Start, None, 0, 0)
<1>1. PICK f : Replays(f, <<>>, 0) /\ InForce(<<>>) = f[0]
  BY NoneIsSeq, InForceIs
<1>2. f[0] = [state |-> Start, depth |-> 0, owner |-> 0, font |-> None]
  BY <1>1 DEF Replays
<1> QED
  BY <1>1, <1>2 DEF Env

\* What was in force before position i, where sequences agree.
Before(s, i) == InForce(SubSeq(s, 1, i - 1))

Agree(s, t, m) == m <= Len(s) /\ m <= Len(t) /\ \A i \in 1..m : s[i] = t[i]

LEMMA BeforeAgree ==
  ASSUME NEW s, IsSeq(s), NEW t, IsSeq(t), NEW m \in Nat, Agree(s, t, m), NEW i \in 1..m + 1
  PROVE  Before(s, i) = Before(t, i)
<1>1. Len(s) \in Nat /\ Len(t) \in Nat
  BY Appended
<1>2. i - 1 \in 0..Len(s) /\ i - 1 \in 0..Len(t) /\ i - 1 \in 0..m
  BY <1>1 DEF Agree
<1> DEFINE a == SubSeq(s, 1, i - 1)
           b == SubSeq(t, 1, i - 1)
<1>3. IsSeq(a) /\ Len(a) = i - 1 /\ \A j \in 1..i - 1 : a[j] = s[j]
  BY <1>2, Cut
<1>4. IsSeq(b) /\ Len(b) = i - 1 /\ \A j \in 1..i - 1 : b[j] = t[j]
  BY <1>2, Cut
<1>5. \A j \in 1..i - 1 : j \in 1..m
  BY <1>2
<1> HIDE DEF a, b
<1>6. \A j \in 1..i - 1 : a[j] = b[j]
  BY <1>3, <1>4, <1>5 DEF Agree
<1>7. a = b
  <2>1. PICK S : a \in Seq(S)
    BY <1>3 DEF IsSeq
  <2>2. PICK T : b \in Seq(T)
    BY <1>4 DEF IsSeq
  <2>3. a = [j \in 1..i - 1 |-> a[j]] /\ b = [j \in 1..i - 1 |-> b[j]]
    BY <1>3, <1>4, <2>1, <2>2
  <2> QED
    BY <1>6, <2>3
<1> QED
  BY <1>7 DEF Before, a, b

---------------------------------------------------------------------------
(***************************************************************************)
(* The operators that scope holds a place for: of the x-th state that run  *)
(* j has on its stack there is the q that pushed it, and of x = 0 the      *)
(* content that the run is of.                                             *)
(***************************************************************************)

Mark(e) == e.op \in {"save", "content"}
Slot(fs, j, x) == j \in 1..Len(fs) /\ x \in 0..Len(fs[j].states)

\* The innermost of the first j contents that has resources of its own.
OwnerIs(fs, j, o) == o \in 0..j /\ (o # 0 => fs[o].own) /\ \A i \in 1..j : fs[i].own => i <= o

\* What a run restores when it ends, and what its Q restores, was in force there.
Opened(s, fs, j, i) ==
  \E o, fo : OwnerIs(fs, j - 1, o) /\ Before(s, i) = Env(fs[j].saved.state, fo, j - 1, o)
Kept(s, fs, j, x, i) ==
  \E o : OwnerIs(fs, j, o) /\ Before(s, i) = Env(fs[j].states[x], fs[j].fonts[x], j, o)

Held(s, fs, j, x, i) ==
  /\ i \in 1..Len(s)
  /\ x = 0 => s[i].op = "content" /\ (j = 1 => i = 1) /\ (j > 1 => Opened(s, fs, j, i))
  /\ x > 0 => s[i].op = "save" /\ Kept(s, fs, j, x, i)

Earlier(j, x, k, y) == j < k \/ (j = k /\ x < y)

\* The marks of s in the order of the stacks.
Nest(s, fs, P) ==
  /\ \A j, x : Slot(fs, j, x) => Held(s, fs, j, x, P[j][x])
  /\ \A j, x, k, y : Slot(fs, j, x) /\ Slot(fs, k, y) /\ Earlier(j, x, k, y) => P[j][x] < P[k][y]
  /\ \A i \in 1..Len(s) : Mark(s[i]) => \E j, x : Slot(fs, j, x) /\ P[j][x] = i

Now(s, fs, st, fo) ==
  \E o : OwnerIs(fs, Len(fs), o) /\ InForce(s) = Env(st, fo, Len(fs), o)

Same(fs, gs, j, x) ==
  /\ \A i \in 1..j : gs[i].own = fs[i].own
  /\ gs[j].saved = fs[j].saved
  /\ x > 0 => gs[j].states[x] = fs[j].states[x] /\ gs[j].fonts[x] = fs[j].fonts[x]

LEMMA OwnerSame ==
  ASSUME NEW fs, NEW gs, NEW j \in Nat, NEW o, \A i \in 1..j : gs[i].own = fs[i].own, OwnerIs(fs, j, o)
  PROVE  OwnerIs(gs, j, o)
<1>1. o \in 0..j /\ (o # 0 => o \in 1..j)
  BY DEF OwnerIs
<1> QED
  BY <1>1 DEF OwnerIs

LEMMA HeldSame ==
  ASSUME NEW s, IsSeq(s), NEW t, IsSeq(t), NEW m \in Nat, Agree(s, t, m), NEW fs, NEW gs,
         NEW j \in Nat \ {0}, NEW x \in Nat, Same(fs, gs, j, x), NEW i, Held(s, fs, j, x, i), i <= m
  PROVE  Held(t, gs, j, x, i)
<1>1. Len(s) \in Nat /\ Len(t) \in Nat
  BY Appended
<1>2. i \in 1..m /\ i \in 1..Len(t) /\ t[i] = s[i] /\ i \in 1..m + 1
  BY <1>1 DEF Agree, Held
<1>3. Before(s, i) = Before(t, i)
  BY <1>2, BeforeAgree
<1>4. ASSUME x = 0 PROVE t[i].op = "content" /\ (j = 1 => i = 1) /\ (j > 1 => Opened(t, gs, j, i))
  <2>1. s[i].op = "content" /\ (j = 1 => i = 1) /\ (j > 1 => Opened(s, fs, j, i))
    BY <1>4 DEF Held
  <2>2. ASSUME j > 1 PROVE Opened(t, gs, j, i)
    <3>1. PICK o, fo : OwnerIs(fs, j - 1, o) /\ Before(s, i) = Env(fs[j].saved.state, fo, j - 1, o)
      BY <2>1, <2>2 DEF Opened
    <3>2. j - 1 \in Nat /\ \A k \in 1..j - 1 : k \in 1..j
      OBVIOUS
    <3>3. OwnerIs(gs, j - 1, o)
      BY <3>1, <3>2, OwnerSame DEF Same
    <3> QED
      BY <1>3, <3>1, <3>3 DEF Opened, Same
  <2> QED
    BY <1>2, <2>1, <2>2
<1>5. ASSUME x > 0 PROVE t[i].op = "save" /\ Kept(t, gs, j, x, i)
  <2>1. s[i].op = "save" /\ Kept(s, fs, j, x, i)
    BY <1>5 DEF Held
  <2>2. PICK o : OwnerIs(fs, j, o) /\ Before(s, i) = Env(fs[j].states[x], fs[j].fonts[x], j, o)
    BY <2>1 DEF Kept
  <2>3. OwnerIs(gs, j, o)
    BY <2>2, OwnerSame DEF Same
  <2> QED
    BY <1>2, <1>3, <1>5, <2>1, <2>2, <2>3 DEF Kept, Same
<1> QED
  BY <1>2, <1>4, <1>5 DEF Held

LEMMA SlotIs ==
  ASSUME NEW fs, NEW j, NEW x, Slot(fs, j, x)
  PROVE  j \in Nat \ {0} /\ x \in Nat
  BY DEF Slot

\* Operators that are no marks.
LEMMA NestOn ==
  ASSUME NEW s, IsSeq(s), NEW t, IsSeq(t), Agree(s, t, Len(s)),
         \A i \in 1..Len(t) : i > Len(s) => ~Mark(t[i]),
         NEW fs, NEW gs, NEW P, Nest(s, fs, P),
         \A j, x : Slot(gs, j, x) <=> Slot(fs, j, x),
         \A j, x : Slot(fs, j, x) => Same(fs, gs, j, x)
  PROVE  Nest(t, gs, P)
<1>1. Len(s) \in Nat /\ Len(t) \in Nat
  BY Appended
<1>2. ASSUME NEW j, NEW x, Slot(gs, j, x) PROVE Held(t, gs, j, x, P[j][x])
  <2>1. Slot(fs, j, x) /\ Same(fs, gs, j, x) /\ j \in Nat \ {0} /\ x \in Nat
    BY <1>2, SlotIs
  <2>2. Held(s, fs, j, x, P[j][x])
    BY <2>1 DEF Nest
  <2>3. P[j][x] <= Len(s)
    BY <1>1, <2>2 DEF Held
  <2> QED
    BY <1>1, <2>1, <2>2, <2>3, HeldSame
<1>3. \A j, x, k, y : Slot(gs, j, x) /\ Slot(gs, k, y) /\ Earlier(j, x, k, y) => P[j][x] < P[k][y]
  BY DEF Nest
<1>4. ASSUME NEW i \in 1..Len(t), Mark(t[i]) PROVE \E j, x : Slot(gs, j, x) /\ P[j][x] = i
  <2>1. i \in 1..Len(s) /\ t[i] = s[i]
    BY <1>1, <1>4 DEF Agree
  <2> QED
    BY <1>4, <2>1 DEF Nest
<1> QED
  BY <1>2, <1>3, <1>4 DEF Nest

\* One more operator that is a mark, for a slot behind all others.
LEMMA NestMarked ==
  ASSUME NEW s, IsSeq(s), NEW e, NEW fs, NEW gs, NEW P, Nest(s, fs, P),
         NEW a \in Nat, NEW b \in Nat, Slot(gs, a, b),
         \A j, x : Slot(gs, j, x) <=> Slot(fs, j, x) \/ (j = a /\ x = b),
         \A j, x : Slot(fs, j, x) => Same(fs, gs, j, x) /\ Earlier(j, x, a, b),
         Held(Append(s, e), gs, a, b, Len(s) + 1)
  PROVE  \E Q : Nest(Append(s, e), gs, Q)
<1> DEFINE t == Append(s, e)
           Q == [j \in Nat |-> [x \in Nat |-> IF j = a /\ x = b THEN Len(s) + 1 ELSE P[j][x]]]
<1>1. IsSeq(t) /\ Len(s) \in Nat /\ Len(t) = Len(s) + 1 /\ \A i \in 1..Len(s) : t[i] = s[i]
  BY Appended
<1>2. Agree(s, t, Len(s))
  BY <1>1 DEF Agree
<1>3. ASSUME NEW j, NEW x, Slot(fs, j, x)
      PROVE  /\ ~(j = a /\ x = b) /\ Q[j][x] = P[j][x] /\ P[j][x] \in 1..Len(s)
             /\ Held(t, gs, j, x, P[j][x])
  <2>1. Earlier(j, x, a, b) /\ j \in Nat \ {0} /\ x \in Nat /\ Same(fs, gs, j, x)
    BY <1>3, SlotIs
  <2>2. ~(j = a /\ x = b)
    BY <2>1 DEF Earlier
  <2>3. Q[j][x] = P[j][x]
    BY <2>1, <2>2
  <2>4. Held(s, fs, j, x, P[j][x])
    BY <1>3 DEF Nest
  <2>5. P[j][x] \in 1..Len(s) /\ P[j][x] <= Len(s)
    BY <1>1, <2>4 DEF Held
  <2> HIDE DEF t, Q
  <2>6. Held(t, gs, j, x, P[j][x])
    BY <1>1, <1>2, <2>1, <2>4, <2>5, HeldSame
  <2> QED
    BY <2>2, <2>3, <2>5, <2>6
<1>4. Q[a][b] = Len(s) + 1
  OBVIOUS
<1>5. Held(t, gs, a, b, Len(s) + 1)
  OBVIOUS
<1> HIDE DEF t, Q
<1>6. \A j, x : Slot(gs, j, x) => Held(t, gs, j, x, Q[j][x])
  BY <1>3, <1>4, <1>5
<1>7. ASSUME NEW j, NEW x, NEW k, NEW y, Slot(gs, j, x), Slot(gs, k, y), Earlier(j, x, k, y)
      PROVE  Q[j][x] < Q[k][y]
  <2>1. CASE Slot(fs, j, x) /\ Slot(fs, k, y)
    BY <1>3, <1>7, <2>1 DEF Nest
  <2>2. CASE Slot(fs, j, x) /\ k = a /\ y = b
    BY <1>1, <1>3, <1>4, <2>2
  <2>3. CASE j = a /\ x = b
    <3>1. j \in Nat /\ x \in Nat /\ k \in Nat /\ y \in Nat
      BY <1>7, SlotIs
    <3>2. ~Earlier(k, y, a, b)
      BY <1>7, <2>3, <3>1 DEF Earlier
    <3>3. ~Slot(fs, k, y)
      BY <3>2
    <3>4. k = a /\ y = b
      BY <1>7, <3>3
    <3> QED
      BY <1>7, <2>3, <3>1, <3>4 DEF Earlier
  <2> QED
    BY <1>7, <2>1, <2>2, <2>3
<1>8. ASSUME NEW i \in 1..Len(t), Mark(t[i]) PROVE \E j, x : Slot(gs, j, x) /\ Q[j][x] = i
  <2>1. CASE i = Len(s) + 1
    BY <1>4, <2>1
  <2>2. CASE i \in 1..Len(s)
    <3>1. PICK j, x : Slot(fs, j, x) /\ P[j][x] = i
      BY <1>1, <1>8, <2>2 DEF Nest
    <3> QED
      BY <1>3, <3>1
  <2> QED
    BY <1>1, <2>1, <2>2
<1>9. Nest(t, gs, Q)
  BY <1>6, <1>7, <1>8 DEF Nest
<1> QED
  BY <1>9 DEF t

\* The operators up to the m-th, which slots beyond them go with.
LEMMA NestCut ==
  ASSUME NEW s, IsSeq(s), NEW m \in 0..Len(s), NEW fs, NEW gs, NEW P, Nest(s, fs, P),
         \A j, x : Slot(gs, j, x) => Slot(fs, j, x) /\ Same(fs, gs, j, x) /\ P[j][x] <= m,
         \A j, x : Slot(fs, j, x) /\ ~Slot(gs, j, x) => P[j][x] > m
  PROVE  Nest(SubSeq(s, 1, m), gs, P)
<1> DEFINE t == SubSeq(s, 1, m)
<1>1. IsSeq(t) /\ Len(s) \in Nat /\ Len(t) = m /\ \A i \in 1..m : t[i] = s[i]
  BY Cut
<1>2. Agree(s, t, m) /\ m \in Nat
  BY <1>1 DEF Agree
<1> HIDE DEF t
<1>3. ASSUME NEW j, NEW x, Slot(gs, j, x) PROVE Held(t, gs, j, x, P[j][x])
  <2>1. Slot(fs, j, x) /\ Same(fs, gs, j, x) /\ P[j][x] <= m /\ j \in Nat \ {0} /\ x \in Nat
    BY <1>3, SlotIs
  <2>2. Held(s, fs, j, x, P[j][x])
    BY <2>1 DEF Nest
  <2> QED
    BY <1>1, <1>2, <2>1, <2>2, HeldSame
<1>4. \A j, x, k, y : Slot(gs, j, x) /\ Slot(gs, k, y) /\ Earlier(j, x, k, y) => P[j][x] < P[k][y]
  BY DEF Nest
<1>5. ASSUME NEW i \in 1..Len(t), Mark(t[i]) PROVE \E j, x : Slot(gs, j, x) /\ P[j][x] = i
  <2>1. i \in 1..Len(s) /\ i \in 1..m /\ t[i] = s[i]
    BY <1>1, <1>5
  <2>2. PICK j, x : Slot(fs, j, x) /\ P[j][x] = i
    BY <1>5, <2>1 DEF Nest
  <2>3. ~(P[j][x] > m)
    BY <2>1, <2>2
  <2> QED
    BY <2>2, <2>3
<1> QED
  BY <1>3, <1>4, <1>5 DEF Nest, t

---------------------------------------------------------------------------
(* Scope, frames, graphics state and font in step with one another. *)

InStep(s, fs, st, fo) ==
  /\ IsSeq(s) /\ (fs = <<>> => s = <<>>)
  /\ fs # <<>> => fs[1].kind \in {"page", "annot"} /\ (\E P : Nest(s, fs, P)) /\ Now(s, fs, st, fo)

\* Frames with the same stacks.
Equal(fs, gs) ==
  /\ Len(gs) = Len(fs)
  /\ \A i \in 1..Len(fs) : /\ gs[i].kind = fs[i].kind /\ gs[i].own = fs[i].own
                           /\ gs[i].saved = fs[i].saved /\ gs[i].states = fs[i].states
                           /\ gs[i].fonts = fs[i].fonts

LEMMA SameUpTo ==
  ASSUME NEW fs \in Seq(Frames), NEW gs, NEW n \in 0..Len(fs),
         \A i \in 1..n : gs[i].own = fs[i].own /\ gs[i].saved = fs[i].saved,
         NEW j \in 1..n, NEW x,
         x > 0 => gs[j].states[x] = fs[j].states[x] /\ gs[j].fonts[x] = fs[j].fonts[x]
  PROVE  Same(fs, gs, j, x)
<1>1. Len(fs) \in Nat
  OBVIOUS
<1>2. \A i \in 1..j : i \in 1..n
  BY <1>1
<1> QED
  BY <1>2 DEF Same

LEMMA InStepEqual ==
  ASSUME NEW s, NEW fs \in Seq(Frames), NEW gs \in Seq(Frames), NEW st, NEW fo,
         InStep(s, fs, st, fo), Equal(fs, gs)
  PROVE  InStep(s, gs, st, fo)
<1>1. IsSeq(s) /\ (gs = <<>> => fs = <<>>) /\ (fs = <<>> => s = <<>>) /\ Len(fs) \in Nat
  BY DEF InStep, Equal
<1>2. ASSUME gs # <<>>
      PROVE  gs[1].kind \in {"page", "annot"} /\ (\E P : Nest(s, gs, P)) /\ Now(s, gs, st, fo)
  <2>1. fs # <<>> /\ 1 \in 1..Len(fs) /\ Len(gs) = Len(fs)
    BY <1>2 DEF Equal
  <2>2. gs[1].kind \in {"page", "annot"}
    BY <2>1 DEF InStep, Equal
  <2>3. PICK P : Nest(s, fs, P)
    BY <2>1 DEF InStep
  <2>4. \A j, x : Slot(gs, j, x) <=> Slot(fs, j, x)
    BY DEF Equal, Slot
  <2>5. ASSUME NEW j, NEW x, Slot(fs, j, x) PROVE Same(fs, gs, j, x)
    <3>1. j \in 1..Len(fs) /\ Len(fs) \in 0..Len(fs)
      BY <1>1, <2>5 DEF Slot
    <3> QED
      BY <3>1, SameUpTo DEF Equal
  <2>6. Agree(s, s, Len(s)) /\ Len(s) \in Nat
    BY <1>1, Appended DEF Agree
  <2>7. \A i \in 1..Len(s) : i > Len(s) => ~Mark(s[i])
    BY <2>6
  <2>8. Nest(s, gs, P)
    BY <1>1, <2>3, <2>4, <2>5, <2>6, <2>7, NestOn
  <2>9. PICK o : OwnerIs(fs, Len(fs), o) /\ InForce(s) = Env(st, fo, Len(fs), o)
    BY <2>1 DEF InStep, Now
  <2>10. OwnerIs(gs, Len(fs), o)
    BY <1>1, <2>9, OwnerSame DEF Equal
  <2> QED
    BY <2>1, <2>2, <2>8, <2>9, <2>10 DEF Now
<1> QED
  BY <1>1, <1>2 DEF InStep

LEMMA OwnerIsOne ==
  ASSUME NEW fs, NEW j \in Nat, NEW o, NEW p, OwnerIs(fs, j, o), OwnerIs(fs, j, p)
  PROVE  o = p
<1>1. o \in 0..j /\ p \in 0..j
  BY DEF OwnerIs
<1>2. ASSUME o # 0 PROVE o <= p
  <2>1. o \in 1..j /\ fs[o].own
    BY <1>1, <1>2 DEF OwnerIs
  <2> QED
    BY <2>1 DEF OwnerIs
<1>3. ASSUME p # 0 PROVE p <= o
  <2>1. p \in 1..j /\ fs[p].own
    BY <1>1, <1>3 DEF OwnerIs
  <2> QED
    BY <2>1 DEF OwnerIs
<1> QED
  BY <1>1, <1>2, <1>3

FontAfter(fo, o, e) ==
  CASE e.op = "font" -> FontNamed(e.value, o) [] e.op = "font stays" -> e.value [] OTHER -> fo

\* An operator that is no mark.
LEMMA InStepOn ==
  ASSUME NEW s, NEW fs \in Seq(Frames), fs # <<>>, NEW st, NEW fo, NEW o, NEW e,
         InStep(s, fs, st, fo), OwnerIs(fs, Len(fs), o), ~Mark(e)
  PROVE  InStep(Append(s, e), fs, After(st, e), FontAfter(fo, o, e))
<1> DEFINE t == Append(s, e)
<1>1. IsSeq(s) /\ IsSeq(t) /\ Len(s) \in Nat /\ Len(t) = Len(s) + 1 /\ t[Len(s) + 1] = e
      /\ \A i \in 1..Len(s) : t[i] = s[i]
  BY Appended DEF InStep
<1>2. Len(fs) \in Nat
  OBVIOUS
<1>3. PICK P : Nest(s, fs, P)
  BY DEF InStep
<1>4. PICK p : OwnerIs(fs, Len(fs), p) /\ InForce(s) = Env(st, fo, Len(fs), p)
  BY DEF InStep, Now
<1>5. p = o
  BY <1>2, <1>4, OwnerIsOne
<1>6. InForce(t) = Env(After(st, e), FontAfter(fo, o, e), Len(fs), o)
  <2>1. InForce(t) = Replayed(InForce(s), e)
    BY <1>1, Replaying
  <2>2. e.op # "content"
    BY DEF Mark
  <2>3. Replayed(Env(st, fo, Len(fs), o), e)
          = [Env(st, fo, Len(fs), o) EXCEPT !.state = After(st, e), !.font = FontAfter(fo, o, e)]
    BY <2>2 DEF Replayed, FontAfter, Env
  <2> QED
    BY <1>4, <1>5, <2>1, <2>3 DEF Env
<1>7. Nest(t, fs, P)
  <2>1. Agree(s, t, Len(s))
    BY <1>1 DEF Agree
  <2>2. \A i \in 1..Len(t) : i > Len(s) => ~Mark(t[i])
    BY <1>1
  <2>3. \A j, x : Slot(fs, j, x) => Same(fs, fs, j, x)
    BY DEF Same
  <2> HIDE DEF t
  <2> QED
    BY <1>1, <1>3, <2>1, <2>2, <2>3, NestOn
<1> HIDE DEF t
<1>8. Now(t, fs, After(st, e), FontAfter(fo, o, e))
  BY <1>6 DEF Now
<1> QED
  BY <1>1, <1>7, <1>8 DEF InStep, t

\* q
LEMMA InStepSaved ==
  ASSUME NEW s, NEW fs \in Seq(Frames), fs # <<>>, NEW st, NEW fo, NEW e, e.op = "save",
         InStep(s, fs, st, fo), NEW f \in Frames, Matched(fs),
         f.kind = fs[Len(fs)].kind, f.own = fs[Len(fs)].own, f.saved = fs[Len(fs)].saved,
         f.states = Append(fs[Len(fs)].states, st), f.fonts = Append(fs[Len(fs)].fonts, fo)
  PROVE  InStep(Append(s, e), [fs EXCEPT ![Len(fs)] = f], st, fo)
<1> DEFINE t == Append(s, e)
           gs == [fs EXCEPT ![Len(fs)] = f]
           n == Len(fs)
           top == fs[n]
           b == Len(top.states) + 1
<1>1. IsSeq(s) /\ IsSeq(t) /\ Len(s) \in Nat /\ Len(t) = Len(s) + 1 /\ t[Len(s) + 1] = e
      /\ \A i \in 1..Len(s) : t[i] = s[i]
  BY Appended DEF InStep
<1>2. n \in Nat \ {0} /\ top \in Frames /\ DOMAIN fs = 1..n
  BY Popped
<1>3. /\ gs \in Seq(Frames) /\ Len(gs) = n /\ gs[n] = f /\ \A i \in 1..n : i # n => gs[i] = fs[i]
  <2>1. n = Len(fs) /\ n \in 1..n
    BY <1>2
  <2> HIDE DEF n
  <2>2. gs \in Seq(Frames) /\ Len(gs) = n
    BY <1>2, <2>1
  <2>3. gs[n] = f /\ \A i \in 1..n : i # n => gs[i] = fs[i]
    BY <1>2, <2>1
  <2> QED
    BY <2>2, <2>3
<1>4. top.states \in Seq(States) /\ top.fonts \in Seq(Fonts) /\ Len(top.fonts) = Len(top.states)
  BY <1>2 DEF Frames, Matched
<1>5. /\ b \in Nat \ {0} /\ Len(f.states) = b /\ f.states[b] = st /\ f.fonts[b] = fo
      /\ \A x \in 1..b - 1 : f.states[x] = top.states[x] /\ f.fonts[x] = top.fonts[x]
  BY <1>4
<1>6. PICK P : Nest(s, fs, P)
  BY DEF InStep
<1>7. PICK o : OwnerIs(fs, n, o) /\ InForce(s) = Env(st, fo, n, o)
  BY DEF InStep, Now
<1>8. \A i \in 1..n : gs[i].own = fs[i].own /\ gs[i].saved = fs[i].saved /\ gs[i].kind = fs[i].kind
  BY <1>2, <1>3
<1>9. OwnerIs(gs, n, o)
  BY <1>2, <1>7, <1>8, OwnerSame
<1>10. InForce(t) = Env(st, fo, n, o)
  <2>1. InForce(t) = Replayed(InForce(s), e)
    BY <1>1, Replaying
  <2>2. After(st, e) = st
    BY DEF After
  <2>3. Replayed(Env(st, fo, n, o), e) = [Env(st, fo, n, o) EXCEPT !.state = st, !.font = fo]
    BY <2>2 DEF Replayed, Env
  <2> QED
    BY <1>7, <2>1, <2>3 DEF Env
<1>11. Held(t, gs, n, b, Len(s) + 1)
  <2>1. Before(t, Len(s) + 1) = InForce(s)
    <3>1. Agree(s, t, Len(s)) /\ Len(s) + 1 \in 1..Len(s) + 1
      BY <1>1 DEF Agree
    <3> HIDE DEF t
    <3>2. Before(s, Len(s) + 1) = Before(t, Len(s) + 1)
      BY <1>1, <3>1, BeforeAgree
    <3>3. SubSeq(s, 1, (Len(s) + 1) - 1) = s
      <4>1. (Len(s) + 1) - 1 = Len(s) /\ Len(s) \in 0..Len(s)
        BY <1>1
      <4> QED
        BY <1>1, <4>1, Cut
    <3> QED
      BY <3>2, <3>3 DEF Before
  <2> HIDE DEF t, gs, n, b
  <2>2. Kept(t, gs, n, b, Len(s) + 1)
    BY <1>3, <1>5, <1>7, <1>9, <2>1 DEF Kept
  <2>3. Len(s) + 1 \in 1..Len(t) /\ b # 0
    BY <1>1, <1>5
  <2> QED
    BY <1>1, <2>2, <2>3 DEF Held
<1> HIDE DEF t, gs, n, b, top
<1>12. \E Q : Nest(Append(s, e), gs, Q)
  <2>1. Slot(gs, n, b)
    BY <1>2, <1>3, <1>5 DEF Slot
  <2>2. ASSUME NEW j, NEW x PROVE Slot(gs, j, x) <=> Slot(fs, j, x) \/ (j = n /\ x = b)
    <3>0. Len(fs) = n /\ fs[n] = top /\ Len(top.states) = b - 1
      BY <1>4, <1>5 DEF n, top, b
    <3>1. CASE j # n
      BY <1>2, <1>3, <3>0, <3>1 DEF Slot
    <3>2. CASE j = n
      <4>1. x \in 0..b <=> x \in 0..b - 1 \/ x = b
        BY <1>5
      <4> QED
        BY <1>2, <1>3, <1>5, <3>0, <3>2, <4>1 DEF Slot
    <3> QED
      BY <3>1, <3>2
  <2>3. ASSUME NEW j, NEW x, Slot(fs, j, x) PROVE Same(fs, gs, j, x) /\ Earlier(j, x, n, b)
    <3>0. Len(fs) = n /\ fs[n] = top /\ Len(top.states) = b - 1
      BY <1>4, <1>5 DEF n, top, b
    <3>1. j \in 1..n /\ (j = n => x \in 0..b - 1)
      BY <2>3, <3>0 DEF Slot
    <3>2. Earlier(j, x, n, b)
      BY <1>2, <1>5, <3>1 DEF Earlier
    <3>3. x > 0 => gs[j].states[x] = fs[j].states[x] /\ gs[j].fonts[x] = fs[j].fonts[x]
      <4>1. CASE j = n
        <5>1. x > 0 => x \in 1..b - 1
          BY <1>5, <3>1, <4>1
        <5> QED
          BY <1>3, <1>5, <3>0, <4>1, <5>1
      <4>2. CASE j # n
        BY <1>3, <3>1, <4>2
      <4> QED
        BY <4>1, <4>2
    <3>4. Same(fs, gs, j, x)
      <4>1. n \in 0..Len(fs)
        BY <1>2, <3>0
      <4> QED
        BY <1>8, <3>1, <3>3, <4>1, SameUpTo
    <3> QED
      BY <3>2, <3>4
  <2> QED
    BY <1>1, <1>2, <1>5, <1>6, <1>11, <2>1, <2>2, <2>3, NestMarked DEF t
<1>13. Now(t, gs, st, fo)
  BY <1>3, <1>9, <1>10 DEF Now
<1>14. gs[1].kind \in {"page", "annot"} /\ gs # <<>>
  BY <1>2, <1>3, <1>8 DEF InStep
<1> QED
  BY <1>1, <1>12, <1>13, <1>14 DEF InStep, t, gs, n

\* A content that begins.
LEMMA InStepEntered ==
  ASSUME NEW s, NEW fs \in Seq(Frames), NEW st, NEW fo, NEW e, e.op = "content", e.own \in BOOLEAN,
         InStep(s, fs, st, fo), NEW f \in Frames,
         f.own = e.own, f.saved.state = st, f.states = <<>>,
         fs = <<>> => /\ f.kind \in {"page", "annot"} /\ e.font = fo
                      /\ Inside(Start, e) = Inside(st, e)
  PROVE  InStep(Append(s, e), Append(fs, f), Inside(st, e), fo)
<1> DEFINE t == Append(s, e)
           gs == Append(fs, f)
           n == Len(fs)
           a == n + 1
<1>1. IsSeq(s) /\ IsSeq(t) /\ Len(s) \in Nat /\ Len(t) = Len(s) + 1 /\ t[Len(s) + 1] = e
      /\ \A i \in 1..Len(s) : t[i] = s[i]
  BY Appended DEF InStep
<1>2. /\ n \in Nat /\ gs \in Seq(Frames) /\ gs # <<>> /\ Len(gs) = a /\ gs[a] = f
      /\ \A i \in 1..n : gs[i] = fs[i]
  OBVIOUS
<1>3. n = 0 <=> fs = <<>>
  OBVIOUS
<1>4. \E P : Nest(s, fs, P)
  <2>1. CASE fs = <<>>
    <3>1. s = <<>> /\ Len(s) = 0
      BY <2>1, NoneIsSeq DEF InStep
    <3>2. \A j, x : ~Slot(fs, j, x)
      BY <1>3, <2>1 DEF Slot
    <3>3. \A i \in 1..Len(s) : FALSE
      BY <3>1
    <3>4. Nest(s, fs, <<>>)
      BY <3>2, <3>3 DEF Nest
    <3> QED
      BY <3>4
  <2>2. CASE fs # <<>>
    BY <2>2 DEF InStep
  <2> QED
    BY <2>1, <2>2
<1>5. PICK P : Nest(s, fs, P)
  BY <1>4
<1>6. \E o, fb : /\ OwnerIs(fs, n, o) /\ (IF n = 0 THEN e.font ELSE fb) = fo
                 /\ \E sb : InForce(s) = Env(sb, fb, n, o) /\ Inside(sb, e) = Inside(st, e)
                            /\ (n # 0 => sb = st)
  <2>1. CASE fs = <<>>
    <3>1. s = <<>> /\ n = 0
      BY <1>3, <2>1 DEF InStep
    <3>2. OwnerIs(fs, n, 0)
      BY <3>1 DEF OwnerIs
    <3> HIDE DEF n
    <3> QED
      BY <2>1, <3>1, <3>2, NothingInForce
  <2>2. CASE fs # <<>>
    <3>1. n # 0
      BY <1>3, <2>2
    <3>2. PICK o : OwnerIs(fs, n, o) /\ InForce(s) = Env(st, fo, n, o)
      BY <2>2 DEF InStep, Now
    <3> HIDE DEF n
    <3> QED
      BY <3>1, <3>2
  <2> QED
    BY <2>1, <2>2
<1>7. PICK o, fb, sb : /\ OwnerIs(fs, n, o) /\ (IF n = 0 THEN e.font ELSE fb) = fo
                       /\ InForce(s) = Env(sb, fb, n, o) /\ Inside(sb, e) = Inside(st, e)
                       /\ (n # 0 => sb = st)
  BY <1>6
<1> HIDE DEF t, gs, n
<1>8. \A i \in 1..n : gs[i].own = fs[i].own /\ gs[i].saved = fs[i].saved
                      /\ gs[i].kind = fs[i].kind
  BY <1>2
<1>9. OwnerIs(gs, n, o)
  BY <1>2, <1>7, <1>8, OwnerSame
<1> DEFINE p == IF e.own THEN a ELSE o
<1>10. OwnerIs(gs, a, p)
  <2>1. o \in 0..n /\ p \in 0..a
    BY <1>2, <1>9 DEF OwnerIs
  <2>2. \A i \in 1..a : i \in 1..n \/ i = a
    BY <1>2
  <2>3. CASE e.own
    <3>1. \A i \in 1..a : i <= a
      BY <1>2
    <3> QED
      BY <1>2, <2>1, <2>3, <3>1 DEF OwnerIs
  <2>4. CASE ~e.own
    BY <1>2, <1>9, <2>1, <2>2, <2>4 DEF OwnerIs
  <2> QED
    BY <2>3, <2>4
<1>11. InForce(t) = Env(Inside(st, e), fo, a, p)
  <2>1. InForce(t) = Replayed(InForce(s), e)
    BY <1>1, Replaying DEF t
  <2>2. Replayed(Env(sb, fb, n, o), e) = Env(Inside(sb, e), IF n = 0 THEN e.font ELSE fb, a, p)
    BY DEF Replayed, Env
  <2> HIDE DEF p, a
  <2> QED
    BY <1>7, <2>1, <2>2
<1>12. Before(t, Len(s) + 1) = InForce(s)
  <2>1. Agree(s, t, Len(s)) /\ Len(s) + 1 \in 1..Len(s) + 1
    BY <1>1 DEF Agree
  <2>2. Before(s, Len(s) + 1) = Before(t, Len(s) + 1)
    BY <1>1, <2>1, BeforeAgree
  <2>3. SubSeq(s, 1, (Len(s) + 1) - 1) = s
    <3>1. (Len(s) + 1) - 1 = Len(s) /\ Len(s) \in 0..Len(s)
      BY <1>1
    <3> QED
      BY <1>1, <3>1, Cut
  <2> QED
    BY <2>2, <2>3 DEF Before
<1>13. Held(t, gs, a, 0, Len(s) + 1)
  <2>1. a = 1 => Len(s) + 1 = 1
    <3>1. a = 1 => s = <<>>
      BY <1>2, <1>3 DEF InStep
    <3> QED
      BY <3>1, NoneIsSeq
  <2>2. a > 1 => Opened(t, gs, a, Len(s) + 1)
    <3> SUFFICES ASSUME a > 1 PROVE Opened(t, gs, a, Len(s) + 1)
      OBVIOUS
    <3>1. n # 0 /\ a - 1 = n
      BY <1>2
    <3> HIDE DEF a
    <3>2. Before(t, Len(s) + 1) = Env(gs[a].saved.state, fb, n, o)
      BY <1>2, <1>7, <1>12, <3>1
    <3> QED
      BY <1>9, <3>1, <3>2 DEF Opened
  <2>3. Len(s) + 1 \in 1..Len(t)
    BY <1>1
  <2> HIDE DEF a
  <2> QED
    BY <1>1, <2>1, <2>2, <2>3 DEF Held
<1>14. \E Q : Nest(t, gs, Q)
  <2>1. Len(gs[a].states) = 0
    BY <1>2
  <2>2. Slot(gs, a, 0) /\ a \in Nat
    BY <1>2, <2>1 DEF Slot
  <2>3. Len(fs) = n
    BY DEF n
  <2>4. ASSUME NEW j, NEW x PROVE Slot(gs, j, x) <=> Slot(fs, j, x) \/ (j = a /\ x = 0)
    <3>1. CASE j \in 1..n
      <4>1. j \in 1..a /\ j # a
        BY <1>2, <3>1
      <4> HIDE DEF a
      <4> QED
        BY <1>2, <2>3, <3>1, <4>1 DEF Slot
    <3>2. CASE j \notin 1..n
      <4>1. j \in 1..a <=> j = a
        BY <1>2, <3>2
      <4>2. x \in 0..0 <=> x = 0
        OBVIOUS
      <4> HIDE DEF a
      <4> QED
        BY <1>2, <2>1, <2>3, <3>2, <4>1, <4>2 DEF Slot
    <3> QED
      BY <3>1, <3>2
  <2>5. ASSUME NEW j, NEW x, Slot(fs, j, x) PROVE Same(fs, gs, j, x) /\ Earlier(j, x, a, 0)
    <3>1. j \in 1..n
      BY <2>3, <2>5 DEF Slot
    <3>2. Earlier(j, x, a, 0)
      BY <1>2, <3>1 DEF Earlier
    <3>3. n \in 0..Len(fs) /\ gs[j] = fs[j]
      BY <1>2, <2>3, <3>1
    <3>4. Same(fs, gs, j, x)
      BY <1>8, <3>1, <3>3, SameUpTo
    <3> QED
      BY <3>2, <3>4
  <2> HIDE DEF a
  <2> QED
    BY <1>1, <1>5, <1>13, <2>2, <2>4, <2>5, NestMarked DEF t
<1>15. Now(t, gs, Inside(st, e), fo)
  BY <1>2, <1>10, <1>11 DEF Now
<1>16. gs[1].kind \in {"page", "annot"}
  <2>1. CASE fs = <<>>
    BY <1>2, <1>3, <2>1
  <2>2. CASE fs # <<>>
    <3>1. 1 \in 1..n
      BY <1>2, <1>3, <2>2
    <3> QED
      BY <1>8, <2>2, <3>1 DEF InStep
  <2> QED
    BY <2>1, <2>2
<1> QED
  BY <1>1, <1>2, <1>14, <1>15, <1>16 DEF InStep, t, gs

---------------------------------------------------------------------------
(* The innermost marks of the scope. *)

LEMMA LastOfIs ==
  ASSUME IsSeq(scope), NEW names, NEW p \in 1..Len(scope), scope[p].op \in names,
         \A j \in 1..Len(scope) : j > p => scope[j].op \notin names
  PROVE  LastOf(names) = p
<1>1. DOMAIN scope = 1..Len(scope) /\ Len(scope) \in Nat
  BY DEF IsSeq
<1> DEFINE Is(i) == i \in DOMAIN scope /\ scope[i].op \in names
                    /\ \A j \in DOMAIN scope : j > i => scope[j].op \notin names
<1>2. Is(p)
  BY <1>1
<1>3. ASSUME NEW q, Is(q) PROVE q = p
  <2>1. ~(q > p) /\ ~(p > q) /\ q \in 1..Len(scope)
    BY <1>1, <1>3
  <2> QED
    BY <1>1, <2>1
<1>4. LastOf(names) = CHOOSE i : Is(i)
  <2>1. LastOf(names) = CHOOSE i \in DOMAIN scope : Is(i)
    BY DEF LastOf
  <2> QED
    BY <1>2, <1>3, <2>1
<1> HIDE DEF Is
<1> QED
  BY <1>2, <1>3, <1>4

LEMMA Innermost ==
  ASSUME IsSeq(scope), NEW fs \in Seq(Frames), fs # <<>>, NEW P, Nest(scope, fs, P)
  PROVE  LET n == Len(fs)
             k == Len(fs[n].states)
         IN /\ n \in Nat \ {0} /\ k \in Nat /\ Len(scope) \in Nat
            /\ Held(scope, fs, n, k, P[n][k]) /\ Held(scope, fs, n, 0, P[n][0])
            /\ P[n][k] \in 1..Len(scope) /\ P[n][0] \in 1..Len(scope)
            /\ LastOf({"save", "content"}) = P[n][k] /\ LastOf({"content"}) = P[n][0]
            /\ \A j, x : Slot(fs, j, x) /\ j < n => P[j][x] < P[n][0]
            /\ \A x : Slot(fs, n, x) => P[n][0] <= P[n][x]
            /\ \A j, x : Slot(fs, j, x) /\ ~(j = n /\ x = k) => P[j][x] < P[n][k]
<1> DEFINE n == Len(fs)
           k == Len(fs[n].states)
<1>1. n \in Nat \ {0} /\ fs[n] \in Frames /\ Len(scope) \in Nat
  BY Popped, Appended
<1>2. k \in Nat
  <2>1. fs[n].states \in Seq(States)
    BY <1>1 DEF Frames
  <2> QED
    BY <2>1
<1>3. Slot(fs, n, k) /\ Slot(fs, n, 0)
  BY <1>1, <1>2 DEF Slot
<1>4. \A j, x : Slot(fs, j, x) => j \in 1..n /\ x \in Nat /\ (j = n => x \in 0..k)
  BY DEF Slot
<1> HIDE DEF n, k
<1>5. \A j, x : Slot(fs, j, x) => /\ Held(scope, fs, j, x, P[j][x]) /\ P[j][x] \in 1..Len(scope)
                                  /\ P[j][x] \in Int
  BY DEF Nest, Held
<1>6. ASSUME NEW j, NEW x, Slot(fs, j, x)
      PROVE  /\ ~(j = n /\ x = k) => P[j][x] < P[n][k]
             /\ j < n => P[j][x] < P[n][0]
             /\ j = n => P[n][0] <= P[n][x]
  <2>1. j \in 1..n /\ x \in Nat /\ (j = n => x \in 0..k)
    BY <1>4, <1>6
  <2>2. ~(j = n /\ x = k) => Earlier(j, x, n, k)
    BY <1>1, <1>2, <2>1 DEF Earlier
  <2>3. j < n => Earlier(j, x, n, 0)
    BY DEF Earlier
  <2>4. j = n /\ x # 0 => Earlier(n, 0, j, x)
    BY <1>1, <2>1 DEF Earlier
  <2>5. j = n /\ x = 0 => P[n][0] <= P[n][x]
    BY <1>3, <1>5
  <2>6. j = n /\ x # 0 => P[n][0] <= P[n][x]
    <3> SUFFICES ASSUME j = n, x # 0 PROVE P[n][0] <= P[n][x]
      OBVIOUS
    <3>1. P[n][0] < P[j][x]
      BY <1>3, <1>6, <2>4 DEF Nest
    <3> QED
      BY <1>3, <1>5, <1>6, <3>1
  <2> QED
    BY <1>3, <1>6, <2>2, <2>3, <2>5, <2>6 DEF Nest
<1>7. LastOf({"save", "content"}) = P[n][k]
  <2>1. scope[P[n][k]].op \in {"save", "content"}
    BY <1>2, <1>3, <1>5 DEF Held
  <2>2. ASSUME NEW i \in 1..Len(scope), i > P[n][k] PROVE scope[i].op \notin {"save", "content"}
    <3> SUFFICES ASSUME Mark(scope[i]) PROVE FALSE
      BY DEF Mark
    <3>1. PICK j, x : Slot(fs, j, x) /\ P[j][x] = i
      BY DEF Nest
    <3>2. P[j][x] <= P[n][k]
      <4>1. CASE j = n /\ x = k
        BY <1>3, <1>5, <4>1
      <4>2. CASE ~(j = n /\ x = k)
        BY <1>3, <1>5, <1>6, <3>1, <4>2
      <4> QED
        BY <4>1, <4>2
    <3> QED
      BY <1>3, <1>5, <2>2, <3>1, <3>2
  <2> QED
    BY <1>3, <1>5, <2>1, <2>2, LastOfIs
<1>8. LastOf({"content"}) = P[n][0]
  <2>1. scope[P[n][0]].op \in {"content"}
    BY <1>3, <1>5 DEF Held
  <2>2. ASSUME NEW i \in 1..Len(scope), i > P[n][0] PROVE scope[i].op \notin {"content"}
    <3> SUFFICES ASSUME scope[i].op = "content" PROVE FALSE
      OBVIOUS
    <3>1. PICK j, x : Slot(fs, j, x) /\ P[j][x] = i
      BY DEF Nest, Mark
    <3>2. x = 0
      <4>1. Held(scope, fs, j, x, i) /\ x \in Nat
        BY <1>4, <1>5, <3>1
      <4>2. x > 0 => scope[i].op = "save"
        BY <4>1 DEF Held
      <4> QED
        BY <4>1, <4>2
    <3>3. P[j][x] <= P[n][0]
      <4>1. j = n \/ j < n
        BY <1>1, <1>4, <3>1
      <4>2. CASE j = n
        BY <1>3, <1>5, <3>2, <4>2
      <4>3. CASE j < n
        BY <1>3, <1>5, <1>6, <3>1, <4>3
      <4> QED
        BY <4>1, <4>2, <4>3
    <3> QED
      BY <1>3, <1>5, <2>2, <3>1, <3>3
  <2> QED
    BY <1>3, <1>5, <2>1, <2>2, LastOfIs
<1> QED
  BY <1>1, <1>2, <1>3, <1>5, <1>6, <1>7, <1>8 DEF n, k

\* Q
LEMMA InStepUndone ==
  ASSUME NEW fs \in Seq(Frames), fs # <<>>, NEW st, NEW fo, Matched(fs), InStep(scope, fs, st, fo)
  PROVE  LET n == Len(fs)
             top == fs[n]
         IN IF top.states = <<>> THEN Undone = scope
            ELSE \A f \in Frames :
                   /\ f.kind = top.kind /\ f.own = top.own /\ f.saved = top.saved
                   /\ f.states = Front(top.states) /\ f.fonts = Front(top.fonts)
                   => InStep(Undone, [fs EXCEPT ![n] = f], Last(top.states), Last(top.fonts))
<1> DEFINE n == Len(fs)
           top == fs[n]
           k == Len(top.states)
<1>1. IsSeq(scope) /\ n = Len(fs) /\ top = fs[n]
  BY DEF InStep
<1>2. PICK P : Nest(scope, fs, P)
  BY DEF InStep
<1> DEFINE p == P[n][k]
<1>3. /\ n \in Nat \ {0} /\ k \in Nat /\ Len(scope) \in Nat
      /\ Held(scope, fs, n, k, p) /\ p \in 1..Len(scope)
      /\ LastOf({"save", "content"}) = p
      /\ \A j, x : Slot(fs, j, x) /\ ~(j = n /\ x = k) => P[j][x] < p
  BY <1>1, <1>2, Innermost
<1>4. top \in Frames
  BY Popped
<1>5. /\ top.states \in Seq(States) /\ top.fonts \in Seq(Fonts) /\ Len(top.fonts) = k
      /\ (k = 0 <=> top.states = <<>>)
  <2>1. n \in DOMAIN fs
    BY Popped
  <2> QED
    BY <1>4, <2>1 DEF Frames, Matched
<1>6. k = Len(top.states)
  OBVIOUS
<1> HIDE DEF n, top, k, p
<1>7. Undone = IF scope[p].op = "save" THEN SubSeq(scope, 1, p - 1) ELSE scope
  BY <1>3 DEF Undone
<1>8. CASE top.states = <<>>
  <2>1. scope[p].op = "content"
    BY <1>3, <1>5, <1>8 DEF Held
  <2> QED
    BY <1>7, <1>8, <2>1 DEF top, n
<1>9. ASSUME top.states # <<>>, NEW f \in Frames,
             f.kind = top.kind, f.own = top.own, f.saved = top.saved,
             f.states = Front(top.states), f.fonts = Front(top.fonts)
      PROVE  InStep(Undone, [fs EXCEPT ![n] = f], Last(top.states), Last(top.fonts))
  <2> DEFINE gs == [fs EXCEPT ![n] = f]
             m == p - 1
             t == SubSeq(scope, 1, m)
  <2>1. k > 0 /\ k \in Nat
    BY <1>3, <1>5, <1>9
  <2>2. scope[p].op = "save" /\ Kept(scope, fs, n, k, p)
    BY <1>3, <2>1 DEF Held
  <2>3. Undone = t
    BY <1>7, <2>2
  <2>4. m \in 0..Len(scope) /\ m \in Nat /\ p = m + 1
    BY <1>3
  <2>5. /\ n \in 1..n /\ DOMAIN fs = 1..n
    BY <1>1, <1>3
  <2>6. gs \in Seq(Frames) /\ Len(gs) = n /\ gs[n] = f /\ \A i \in 1..n : i # n => gs[i] = fs[i]
    <3>1. gs \in Seq(Frames) /\ Len(gs) = n
      BY <1>1, <1>3, <1>9, <2>5
    <3>2. gs[n] = f /\ \A i \in 1..n : i # n => gs[i] = fs[i]
      BY <2>5
    <3> QED
      BY <3>1, <3>2
  <2>7. \A i \in 1..n : gs[i].own = fs[i].own /\ gs[i].saved = fs[i].saved /\ gs[i].kind = fs[i].kind
    BY <1>1, <1>9, <2>6
  <2>8. /\ Len(f.states) = k - 1
        /\ \A x \in 1..k - 1 : f.states[x] = top.states[x] /\ f.fonts[x] = top.fonts[x]
    <3>1. top.fonts # <<>> /\ Len(top.states) = k /\ Len(top.fonts) = k
      BY <1>5, <1>6, <2>1
    <3>2. /\ Len(Front(top.states)) = k - 1 /\ DOMAIN Front(top.states) = 1..k - 1
          /\ \A x \in DOMAIN Front(top.states) : Front(top.states)[x] = top.states[x]
      BY <1>5, <1>9, <3>1, Popped
    <3>3. /\ DOMAIN Front(top.fonts) = 1..k - 1
          /\ \A x \in DOMAIN Front(top.fonts) : Front(top.fonts)[x] = top.fonts[x]
      BY <1>5, <1>9, <3>1, Popped
    <3> QED
      BY <1>9, <3>2, <3>3
  <2>9. Last(top.states) = top.states[k] /\ Last(top.fonts) = top.fonts[k]
    BY <1>5, <1>6 DEF Last
  <2>10. IsSeq(t)
    BY <1>1, <2>4, Cut
  <2> HIDE DEF gs, m, t
  <2>11. PICK o : OwnerIs(fs, n, o) /\ Before(scope, p) = Env(top.states[k], top.fonts[k], n, o)
    BY <1>1, <2>2 DEF Kept
  <2>12. InForce(t) = Env(Last(top.states), Last(top.fonts), n, o)
    BY <2>4, <2>9, <2>11 DEF Before, t, m
  <2>13. OwnerIs(gs, n, o)
    BY <1>3, <2>7, <2>11, OwnerSame
  <2>14. Nest(t, gs, P)
    <3>1. ASSUME NEW j, NEW x PROVE Slot(gs, j, x) <=> Slot(fs, j, x) /\ ~(j = n /\ x = k)
      <4>1. CASE j # n
        BY <1>1, <2>6, <4>1 DEF Slot
      <4>2. CASE j = n
        <5>1. x \in 0..k - 1 <=> x \in 0..k /\ x # k
          BY <2>1
        <5> QED
          BY <1>1, <1>3, <1>6, <2>5, <2>6, <2>8, <4>2, <5>1 DEF Slot
      <4> QED
        BY <4>1, <4>2
    <3>2. ASSUME NEW j, NEW x, Slot(gs, j, x)
          PROVE  Slot(fs, j, x) /\ Same(fs, gs, j, x) /\ P[j][x] <= m
      <4>1. Slot(fs, j, x) /\ ~(j = n /\ x = k)
        BY <3>1, <3>2
      <4>2. P[j][x] \in 1..Len(scope) /\ P[j][x] < p
        BY <1>2, <1>3, <4>1 DEF Nest, Held
      <4>3. P[j][x] <= m
        BY <1>3, <2>4, <4>2
      <4>4. j \in 1..n /\ n \in 0..Len(fs) /\ (j = n => x \in 0..k)
        BY <1>1, <1>3, <1>6, <4>1 DEF Slot
      <4>5. x > 0 => gs[j].states[x] = fs[j].states[x] /\ gs[j].fonts[x] = fs[j].fonts[x]
        <5>1. CASE j = n
          <6>1. x > 0 => x \in 1..k - 1
            BY <2>1, <4>1, <4>4, <5>1
          <6> QED
            BY <1>1, <2>6, <2>8, <5>1, <6>1
        <5>2. CASE j # n
          BY <2>6, <4>4, <5>2
        <5> QED
          BY <5>1, <5>2
      <4>6. Same(fs, gs, j, x)
        BY <2>7, <4>4, <4>5, SameUpTo
      <4> QED
        BY <4>1, <4>3, <4>6
    <3>3. ASSUME NEW j, NEW x, Slot(fs, j, x), ~Slot(gs, j, x) PROVE P[j][x] > m
      <4>1. j = n /\ x = k
        BY <3>1, <3>3
      <4> QED
        BY <1>3, <2>4, <4>1 DEF p
    <3> QED
      BY <1>1, <1>2, <2>4, <3>2, <3>3, NestCut DEF t
  <2>15. Now(t, gs, Last(top.states), Last(top.fonts))
    BY <2>6, <2>12, <2>13 DEF Now
  <2>16. gs[1].kind \in {"page", "annot"} /\ gs # <<>>
    <3>1. 1 \in 1..n
      BY <1>3
    <3> QED
      BY <1>3, <2>6, <2>7, <3>1 DEF InStep
  <2>17. InStep(t, gs, Last(top.states), Last(top.fonts))
    BY <2>10, <2>14, <2>15, <2>16 DEF InStep
  <2> QED
    BY <2>3, <2>17 DEF gs
<1> QED
  BY <1>8, <1>9 DEF top, n

\* The end of a content.
LEMMA InStepLeft ==
  ASSUME NEW fs \in Seq(Frames), fs # <<>>, NEW st, NEW fo, InStep(scope, fs, st, fo)
  PROVE  InStep(Left, Front(fs), fs[Len(fs)].saved.state, fo)
<1> DEFINE n == Len(fs)
           gs == Front(fs)
           sv == fs[n].saved.state
<1>1. IsSeq(scope) /\ Len(fs) = n
  BY DEF InStep
<1>2. PICK P : Nest(scope, fs, P)
  BY DEF InStep
<1> DEFINE p == P[n][0]
           m == p - 1
           outer == SubSeq(scope, 1, m)
<1>3. /\ n \in Nat \ {0} /\ Len(scope) \in Nat /\ Held(scope, fs, n, 0, p) /\ p \in 1..Len(scope)
      /\ LastOf({"content"}) = p
      /\ \A j, x : Slot(fs, j, x) /\ j < n => P[j][x] < p
      /\ \A x : Slot(fs, n, x) => p <= P[n][x]
  BY <1>1, <1>2, Innermost
<1>4. /\ gs \in Seq(Frames) /\ Len(gs) = n - 1 /\ \A i \in 1..n - 1 : gs[i] = fs[i]
  BY Popped
<1>5. m \in 0..Len(scope) /\ m \in Nat /\ p = m + 1
  BY <1>3
<1>6. /\ IsSeq(outer) /\ Len(outer) = m /\ (m = 0 => outer = <<>>)
  BY <1>1, <1>5, Cut
<1>7. InForce(scope).font = fo
  <2>1. PICK o : InForce(scope) = Env(st, fo, n, o)
    BY DEF InStep, Now
  <2> QED
    BY <2>1 DEF Env
<1> HIDE DEF n, gs, p, m
<1>8. Left = IF outer = <<>> \/ InForce(outer).font = fo THEN outer
             ELSE Append(outer, [op |-> "font stays", value |-> fo])
  BY <1>3, <1>7 DEF Left, m
<1>9. CASE n = 1
  <2>1. m = 0 /\ gs = <<>>
    <3>1. p = 1
      BY <1>3, <1>9 DEF Held
    <3> QED
      BY <1>4, <1>5, <1>9, <3>1
  <2>2. Left = <<>> /\ gs = <<>>
    BY <1>6, <1>8, <2>1
  <2> QED
    BY <2>2, NoneIsSeq DEF InStep, gs
<1>10. CASE n # 1
  <2>1. n > 1 /\ n - 1 \in Nat \ {0}
    BY <1>3, <1>10
  <2>2. PICK o, fb : OwnerIs(fs, n - 1, o) /\ Before(scope, p) = Env(sv, fb, n - 1, o)
    BY <1>3, <2>1 DEF Held, Opened
  <2>3. InForce(outer) = Env(sv, fb, n - 1, o)
    BY <2>2 DEF Before, m
  <2>4. OwnerIs(gs, n - 1, o)
    BY <1>4, <2>1, <2>2, OwnerSame
  <2> HIDE DEF sv
  <2>5. Nest(outer, gs, P)
    <3>1. ASSUME NEW j, NEW x PROVE Slot(gs, j, x) <=> Slot(fs, j, x) /\ j < n
      <4>1. j \in 1..n - 1 <=> j \in 1..n /\ j < n
        BY <1>3
      <4> QED
        BY <1>1, <1>4, <4>1 DEF Slot
    <3>2. ASSUME NEW j, NEW x, Slot(gs, j, x)
          PROVE  Slot(fs, j, x) /\ Same(fs, gs, j, x) /\ P[j][x] <= m
      <4>1. Slot(fs, j, x) /\ j < n
        BY <3>1, <3>2
      <4>2. P[j][x] \in 1..Len(scope) /\ P[j][x] < p
        BY <1>2, <1>3, <4>1 DEF Nest, Held
      <4>3. P[j][x] <= m
        BY <1>3, <1>5, <4>2
      <4>4. j \in 1..n - 1 /\ n - 1 \in 0..Len(fs) /\ gs[j] = fs[j]
        BY <1>1, <1>3, <1>4, <4>1 DEF Slot
      <4>5. Same(fs, gs, j, x)
        BY <1>4, <4>4, SameUpTo
      <4> QED
        BY <4>1, <4>3, <4>5
    <3>3. ASSUME NEW j, NEW x, Slot(fs, j, x), ~Slot(gs, j, x) PROVE P[j][x] > m
      <4>1. ~(j < n) /\ j \in 1..n
        BY <1>1, <3>1, <3>3 DEF Slot
      <4>2. j = n
        BY <1>3, <4>1
      <4>3. P[j][x] \in 1..Len(scope) /\ p <= P[j][x]
        BY <1>2, <1>3, <3>3, <4>2 DEF Nest, Held
      <4> QED
        BY <1>3, <1>5, <4>3
    <3> QED
      BY <1>1, <1>2, <1>5, <3>2, <3>3, NestCut
  <2>6. Now(outer, gs, sv, fb)
    BY <1>4, <2>3, <2>4 DEF Now
  <2>7. gs[1].kind \in {"page", "annot"} /\ gs # <<>>
    <3>1. 1 \in 1..n - 1
      BY <1>3, <2>1
    <3> QED
      BY <1>4, <3>1 DEF InStep
  <2>8. InStep(outer, gs, sv, fb)
    BY <1>6, <2>5, <2>6, <2>7 DEF InStep
  <2>9. outer # <<>>
    <3>1. p \in Nat /\ p # 1
      <4>1. Slot(fs, 1, 0) /\ 1 < n
        <5>1. fs[1].states \in Seq(States)
          <6>1. 1 \in 1..n
            BY <1>3, <2>1
          <6>2. fs[1] \in Frames
            BY <1>1, <6>1, ElementOfSeq
          <6> QED
            BY <6>2 DEF Frames
        <5>2. 0 \in 0..Len(fs[1].states)
          BY <5>1
        <5> QED
          BY <1>1, <2>1, <5>2 DEF Slot
      <4>2. P[1][0] < p /\ P[1][0] \in 1..Len(scope)
        BY <1>2, <1>3, <4>1 DEF Nest, Held
      <4> QED
        BY <1>3, <4>2
    <3>2. m # 0
      BY <1>5, <3>1
    <3> QED
      BY <1>6, <3>2, NoneIsSeq
  <2> HIDE DEF outer
  <2>10. InForce(outer).font = fb
    BY <2>3 DEF Env
  <2>11. CASE fb = fo
    <3>1. Left = outer
      BY <1>8, <2>11, <2>10
    <3> QED
      BY <2>8, <2>11, <3>1 DEF gs, sv, n
  <2>12. CASE fb # fo
    <3> DEFINE e == [op |-> "font stays", value |-> fo]
    <3>1. Left = Append(outer, e)
      BY <1>8, <2>9, <2>12, <2>10
    <3>2. ~Mark(e) /\ After(sv, e) = sv /\ FontAfter(fb, o, e) = fo
      BY DEF Mark, After, FontAfter
    <3>3. OwnerIs(gs, Len(gs), o)
      BY <1>4, <2>4
    <3> HIDE DEF e
    <3>4. InStep(Append(outer, e), gs, sv, fo)
      BY <1>4, <2>7, <2>8, <3>2, <3>3, InStepOn
    <3> QED
      BY <3>1, <3>4 DEF gs, sv, n
  <2> QED
    BY <2>11, <2>12
<1> QED
  BY <1>9, <1>10

---------------------------------------------------------------------------
(* form_resources_stack_. *)

LEMMA OwnerFound ==
  ASSUME frames \in Seq(Frames), Owned(frames, resources), NEW o, OwnerIs(frames, Len(frames), o)
  PROVE  Owner = o
<1> DEFINE n == Len(frames)
<1>1. n \in Nat /\ DOMAIN frames = 1..n
  OBVIOUS
<1>2. o \in 0..n /\ (o # 0 => frames[o].own) /\ \A i \in 1..n : frames[i].own => i <= o
  BY DEF OwnerIs
<1>3. resources \in Seq(Nat)
  BY DEF Owned
<1>4. \A i : i \in ToSet(resources) <=> i \in 1..n /\ frames[i].own
  BY <1>1 DEF Owned
<1> HIDE DEF n
<1>5. CASE resources = <<>>
  <2>1. ToSet(resources) = {}
    BY <1>5 DEF ToSet
  <2>2. o = 0
    <3>1. o # 0 => o \in 1..n
      BY <1>1, <1>2
    <3> QED
      BY <1>2, <1>4, <2>1, <3>1
  <2> QED
    BY <1>5, <2>2 DEF Owner
<1>6. CASE resources # <<>>
  <2> DEFINE k == Len(resources)
             r == resources[k]
  <2>1. k \in Nat \ {0} /\ DOMAIN resources = 1..k /\ k \in DOMAIN resources
    BY <1>3, <1>6, Popped
  <2>2. Owner = r
    BY <1>6 DEF Owner, Last
  <2>3. r \in ToSet(resources)
    BY <2>1 DEF ToSet
  <2> HIDE DEF k
  <2>4. r \in 1..n /\ r <= o
    BY <1>2, <1>4, <2>3
  <2>5. o \in 1..n
    BY <1>1, <1>2, <2>4
  <2>6. o \in ToSet(resources)
    BY <1>1, <1>2, <1>4, <2>5
  <2>7. PICK i \in DOMAIN resources : resources[i] = o
    BY <2>6 DEF ToSet
  <2>8. i < k => o < r
    BY <2>1, <2>7 DEF Owned
  <2>9. i = k \/ i < k
    BY <2>1
  <2> QED
    BY <1>1, <2>2, <2>4, <2>5, <2>7, <2>8, <2>9
<1> QED
  BY <1>5, <1>6

---------------------------------------------------------------------------
(* What steps do to what is in force. *)

Follows == InStep(scope, frames, state, font)
DInv == CInv /\ Follows

LEMMA OwnerOf ==
  ASSUME DInv, frames # <<>>
  PROVE  OwnerIs(frames, Len(frames), Owner) /\ InForce(scope) = Env(state, font, Len(frames), Owner)
<1>1. PICK o : OwnerIs(frames, Len(frames), o) /\ InForce(scope) = Env(state, font, Len(frames), o)
  BY DEF DInv, Follows, InStep, Now
<1> QED
  BY <1>1, OwnerFound DEF DInv, CInv, Typed

LEMMA OperatorFollows ==
  ASSUME DInv, frames # <<>>, NEW e, ~Mark(e), state' = After(state, e), scope' = Append(scope, e),
         frames' = frames, font' = FontAfter(font, Owner, e)
  PROVE  Follows'
<1>1. OwnerIs(frames, Len(frames), Owner) /\ frames \in Seq(Frames) /\ InStep(scope, frames, state, font)
  BY OwnerOf DEF DInv, CInv, Typed, Follows
<1>2. InStep(Append(scope, e), frames, After(state, e), FontAfter(font, Owner, e))
  BY <1>1, InStepOn
<1> QED
  BY <1>2 DEF Follows

LEMMA SimpleFollows ==
  ASSUME DInv, frames # <<>>, NEW e, Simple(e), e.op \notin {"save", "content", "font", "font stays"}
  PROVE  Follows'
<1>1. ~Mark(e) /\ FontAfter(font, Owner, e) = font
  BY DEF Mark, FontAfter
<1> QED
  BY <1>1, OperatorFollows DEF Simple

LEMMA OperatorsFollow ==
  ASSUME DInv,
         PathOperator \/ ColourOperator \/ PatternOperator \/ ConcatOperator \/ TextOperator
           \/ \E w \in Ways, a \in {0, 1} : SetOpacity(w, a)
  PROVE  Follows'
<1>1. frames # <<>>
  BY DEF PathOperator, ColourOperator, PatternOperator, ConcatOperator, TextOperator, SetOpacity, Reads
<1> DEFINE Others == {"save", "content", "font", "font stays"}
<1>2. ASSUME NEW name, name \notin Others PROVE Simple(Op(name)) => Follows'
  BY <1>1, <1>2, SimpleFollows DEF Op
<1>3. ASSUME NEW name, name \notin Others, NEW w, NEW v PROVE Simple(OpOf(name, w, v)) => Follows'
  BY <1>1, <1>3, SimpleFollows DEF OpOf
<1>4. \A name \in {"construct", "clip", "end path", "device colour", "colour", "colour space",
                   "pattern", "concat", "begin text", "end text", "mode", "opacity"} : name \notin Others
  OBVIOUS
<1> HIDE DEF Others
<1>5. CASE PathOperator
  BY <1>2, <1>4, <1>5 DEF PathOperator
<1>6. CASE ColourOperator
  BY <1>3, <1>4, <1>6 DEF ColourOperator
<1>7. CASE PatternOperator
  BY <1>3, <1>4, <1>7 DEF PatternOperator
<1>8. CASE ConcatOperator
  BY <1>2, <1>4, <1>8 DEF ConcatOperator
<1>9. CASE TextOperator
  BY <1>2, <1>3, <1>4, <1>9 DEF TextOperator
<1>10. CASE \E w \in Ways, a \in {0, 1} : SetOpacity(w, a)
  BY <1>3, <1>4, <1>10 DEF SetOpacity
<1> QED
  BY <1>5, <1>6, <1>7, <1>8, <1>9, <1>10

LEMMA SetFontFollows ==
  ASSUME DInv, NEW f, SetFont(f)
  PROVE  Follows'
<1> DEFINE e == OpOf("font", "fill", f)
<1>1. e.op = "font" /\ e.value = f
  BY DEF OpOf
<1>2. frames # <<>> /\ frames' = frames /\ scope' = Append(scope, e)
  BY DEF SetFont, Reads
<1>3. state' = After(state, e) /\ font' = FontAfter(font, Owner, e)
  BY <1>1 DEF SetFont, After, FontAfter
<1>4. ~Mark(e)
  BY <1>1 DEF Mark
<1> HIDE DEF e
<1> QED
  BY <1>2, <1>3, <1>4, OperatorFollows

LEMMA SaveFollows ==
  ASSUME DInv, Save
  PROVE  Follows'
<1> DEFINE f == [Top EXCEPT !.states = Append(@, state), !.fonts = Append(@, font)]
<1>1. frames # <<>> /\ frames \in Seq(Frames) /\ Matched(frames) /\ state \in States /\ font \in Fonts
  BY DEF Save, Reads, DInv, CInv, Typed
<1>2. Top \in Frames /\ Top = frames[Len(frames)]
  BY <1>1, Popped DEF Top
<1>3. Append(Top.states, state) \in Seq(States) /\ Append(Top.fonts, font) \in Seq(Fonts)
  BY <1>1, <1>2 DEF Frames
<1>4. /\ f \in Frames /\ f.kind = Top.kind /\ f.own = Top.own /\ f.saved = Top.saved
      /\ f.states = Append(Top.states, state) /\ f.fonts = Append(Top.fonts, font)
  BY <1>2, <1>3 DEF Frames
<1>5. frames' = [frames EXCEPT ![Len(frames)] = f]
  BY <1>1, <1>2 DEF Save
<1> HIDE DEF f
<1>6. scope' = Append(scope, Op("save")) /\ state' = state /\ font' = font /\ Op("save").op = "save"
  BY DEF Save, Op
<1>7. InStep(Append(scope, Op("save")), [frames EXCEPT ![Len(frames)] = f], state, font)
  BY <1>1, <1>2, <1>4, <1>6, InStepSaved DEF DInv, Follows
<1> QED
  BY <1>5, <1>6, <1>7 DEF Follows

LEMMA RestoreFollows ==
  ASSUME DInv, Restore
  PROVE  Follows'
<1> DEFINE f == [Top EXCEPT !.states = Front(@), !.fonts = Front(@)]
<1>1. /\ frames # <<>> /\ frames \in Seq(Frames) /\ Matched(frames) /\ scope' = Undone
      /\ InStep(scope, frames, state, font)
  BY DEF Restore, Reads, DInv, CInv, Typed, Follows
<1>2. Top \in Frames /\ Top = frames[Len(frames)] /\ Len(Top.fonts) = Len(Top.states)
  BY <1>1, Popped DEF Top, Matched
<1>3. CASE Top.states = <<>>
  <2>1. Undone = scope
    BY <1>1, <1>2, <1>3, InStepUndone
  <2>2. UNCHANGED <<state, font, frames>>
    BY <1>3 DEF Restore
  <2> QED
    BY <1>1, <2>1, <2>2 DEF Follows
<1>4. CASE Top.states # <<>>
  <2>1. Top.states \in Seq(States) /\ Top.fonts \in Seq(Fonts)
    BY <1>2 DEF Frames
  <2>2. Top.fonts # <<>>
    BY <1>2, <1>4, <2>1, EmptySeq
  <2>3. Front(Top.states) \in Seq(States) /\ Front(Top.fonts) \in Seq(Fonts)
    BY <1>4, <2>1, <2>2, Popped
  <2>4. /\ f \in Frames /\ f.kind = Top.kind /\ f.own = Top.own /\ f.saved = Top.saved
        /\ f.states = Front(Top.states) /\ f.fonts = Front(Top.fonts)
    BY <1>2, <2>3 DEF Frames
  <2>5. frames' = [frames EXCEPT ![Len(frames)] = f]
    BY <1>1, <1>2, <1>4 DEF Restore
  <2>6. state' = Last(Top.states) /\ font' = Last(Top.fonts)
    BY <1>4 DEF Restore
  <2> HIDE DEF f
  <2>7. InStep(Undone, [frames EXCEPT ![Len(frames)] = f], Last(Top.states), Last(Top.fonts))
    BY <1>1, <1>2, <1>4, <2>4, InStepUndone
  <2> QED
    BY <1>1, <2>5, <2>6, <2>7 DEF Follows
<1> QED
  BY <1>3, <1>4

\* A frame that paints.
LEMMA EqualButPainting ==
  ASSUME NEW fs \in Seq(Frames), NEW i \in DOMAIN fs, NEW f \in Frames,
         f.kind = fs[i].kind, f.own = fs[i].own, f.saved = fs[i].saved,
         f.states = fs[i].states, f.fonts = fs[i].fonts
  PROVE  [fs EXCEPT ![i] = f] \in Seq(Frames) /\ Equal(fs, [fs EXCEPT ![i] = f])
<1>1. Len(fs) \in Nat /\ DOMAIN fs = 1..Len(fs)
  OBVIOUS
<1>2. /\ [fs EXCEPT ![i] = f] \in Seq(Frames) /\ Len([fs EXCEPT ![i] = f]) = Len(fs)
      /\ \A j \in 1..Len(fs) : [fs EXCEPT ![i] = f][j] = IF j = i THEN f ELSE fs[j]
  BY <1>1
<1> QED
  BY <1>2 DEF Equal

LEMMA PaintFollows ==
  ASSUME DInv, PaintOperator
  PROVE  Follows'
<1>1. frames # <<>> /\ frames \in Seq(Frames) /\ InStep(scope, frames, state, font)
  BY DEF PaintOperator, Reads, DInv, CInv, Typed, Follows
<1>2. UNCHANGED <<state, font, scope>>
  BY DEF PaintOperator
<1>3. Top \in Frames /\ Top = frames[Len(frames)] /\ Len(frames) \in DOMAIN frames
  BY <1>1, Popped DEF Top
<1>4. PICK ways \in {<<"fill">>, <<"stroke">>, <<"fill", "stroke">>} :
        frames' = [frames EXCEPT ![Len(frames)].painting = ways]
  BY DEF PaintOperator
<1> DEFINE f == [Top EXCEPT !.painting = ways]
<1>5. ways \in Seq(Ways)
  <2>1. "fill" \in Ways /\ "stroke" \in Ways
    BY DEF Ways
  <2>2. <<"fill">> \in Seq(Ways) /\ <<"stroke">> \in Seq(Ways) /\ <<"fill", "stroke">> \in Seq(Ways)
    BY <2>1
  <2> QED
    BY <2>2
<1>6. /\ f \in Frames /\ f.kind = Top.kind /\ f.own = Top.own /\ f.saved = Top.saved
      /\ f.states = Top.states /\ f.fonts = Top.fonts
  BY <1>3, <1>5 DEF Frames
<1>7. frames' = [frames EXCEPT ![Len(frames)] = f]
  BY <1>1, <1>3, <1>4
<1> HIDE DEF f
<1>8. frames' \in Seq(Frames) /\ Equal(frames, frames')
  BY <1>1, <1>3, <1>6, <1>7, EqualButPainting
<1>9. InStep(scope, frames', state, font)
  BY <1>1, <1>8, InStepEqual
<1> QED
  BY <1>2, <1>9 DEF Follows

LEMMA PushShapeFollows ==
  ASSUME DInv, PushShape
  PROVE  Follows'
<1> DEFINE f == [Top EXCEPT !.painting = Tail(@), !.tiled = FALSE]
<1>1. frames # <<>> /\ frames \in Seq(Frames) /\ InStep(scope, frames, state, font) /\ Top.painting # <<>>
  BY DEF PushShape, DInv, CInv, Typed, Follows
<1>2. font' = font
  BY DEF PushShape
<1>3. Top \in Frames /\ Top = frames[Len(frames)] /\ Len(frames) \in DOMAIN frames
  BY <1>1, Popped DEF Top
<1>4. Top.painting \in Seq(Ways)
  BY <1>3 DEF Frames
<1>5. Tail(Top.painting) \in Seq(Ways)
  BY <1>1, <1>4
<1>6. /\ f \in Frames /\ f.kind = Top.kind /\ f.own = Top.own /\ f.saved = Top.saved
      /\ f.states = Top.states /\ f.fonts = Top.fonts
  BY <1>3, <1>5 DEF Frames
<1>7. frames' = [frames EXCEPT ![Len(frames)] = f]
  BY <1>1, <1>3 DEF PushShape
<1> HIDE DEF f
<1>8. frames' \in Seq(Frames) /\ Equal(frames, frames')
  BY <1>1, <1>3, <1>6, <1>7, EqualButPainting
<1>9. CASE Tail(Top.painting) # <<>>
  <2>1. UNCHANGED <<state, scope>>
    BY <1>9 DEF PushShape
  <2> QED
    BY <1>1, <1>2, <1>8, <2>1, InStepEqual DEF Follows
<1>10. CASE Tail(Top.painting) = <<>>
  <2> DEFINE e == Op("end path")
  <2>1. state' = EndPath(state) /\ scope' = Append(scope, e)
    BY <1>10 DEF PushShape
  <2>2. After(state, e) = EndPath(state) /\ ~Mark(e) /\ \A o : FontAfter(font, o, e) = font
    BY DEF After, Mark, FontAfter, Op
  <2> HIDE DEF e
  <2>3. OwnerIs(frames, Len(frames), Owner)
    BY <1>1, OwnerOf
  <2>4. InStep(Append(scope, e), frames, After(state, e), FontAfter(font, Owner, e))
    BY <1>1, <2>2, <2>3, InStepOn
  <2>5. InStep(scope', frames, state', font')
    BY <1>2, <2>1, <2>2, <2>4
  <2> QED
    BY <1>1, <1>8, <2>5, InStepEqual DEF Follows
<1> QED
  BY <1>9, <1>10

LEMMA ShowTextFollows ==
  ASSUME DInv, ShowText
  PROVE  Follows'
<1> DEFINE e == Op("show")
<1>1. frames # <<>> /\ frames' = frames /\ font' = font /\ scope' = Append(scope, e)
  BY DEF ShowText, Reads
<1>2. /\ ~Mark(e) /\ state' = After(state, e) /\ FontAfter(font, Owner, e) = font
  BY DEF ShowText, After, Mark, FontAfter, Op
<1> HIDE DEF e
<1> QED
  BY <1>1, <1>2, OperatorFollows

---------------------------------------------------------------------------
(* Contents. *)

LEMMA EnteredFollows ==
  ASSUME DInv, CInv', NEW e, Entered(e), e.op = "content", e.own \in BOOLEAN, font' = font,
         frames = <<>> => e.kind \in {"page", "annot"} /\ e.font = font
  PROVE  Follows'
<1> DEFINE f == [kind |-> e.kind, own |-> e.own, states |-> <<>>, fonts |-> <<>>,
                 painting |-> <<>>, tiled |-> FALSE, of |-> e.of,
                 saved |-> [state |-> state, masking |-> masking, reporting |-> reporting]]
<1>1. frames \in Seq(Frames) /\ frames' \in Seq(Frames) /\ InStep(scope, frames, state, font)
  BY DEF DInv, CInv, Typed, Follows
<1>2. /\ frames' = Append(frames, f) /\ scope' = Append(scope, e) /\ state' = Inside(state, e)
      /\ f.kind = e.kind /\ f.own = e.own /\ f.states = <<>> /\ f.saved.state = state
  BY DEF Entered
<1> HIDE DEF f
<1>3. f \in Frames
  <2>1. Len(frames) + 1 \in DOMAIN frames' /\ frames'[Len(frames) + 1] = f
    BY <1>1, <1>2
  <2> QED
    BY <1>1, <2>1, ElementOfSeq, LenProperties
<1>4. frames = <<>> => Inside(Start, e) = Inside(state, e)
  BY DEF Inside, PageState, AnnotState
<1>5. InStep(Append(scope, e), Append(frames, f), Inside(state, e), font)
  BY <1>1, <1>2, <1>3, <1>4, InStepEntered
<1> QED
  BY <1>2, <1>5 DEF Follows

LEMMA ContentsFollow ==
  ASSUME ContentAssumption, DInv, CInv',
         \/ \E f \in Forms : DoForm(f)
         \/ BeginPage
         \/ \E own \in BOOLEAN : RenderTile(own) \/ ShowGlyph(own) \/ BeginAnnotation(own)
  PROVE  Follows'
<1>1. ASSUME NEW kind, NEW own
      PROVE  /\ Plain(kind, own).op = "content" /\ Plain(kind, own).own = own
             /\ Plain(kind, own).kind = kind /\ Plain(kind, own).font = font
  BY DEF Plain, Content
<1>2. ASSUME NEW f \in Forms, DoForm(f) PROVE Follows'
  <2>1. f.own \in BOOLEAN
    BY DEF ContentAssumption
  <2>2. frames # <<>> /\ font' = font /\ Entered(Content("form", f.own, f.group, f.moved, font))
    BY <1>2 DEF DoForm, Reads
  <2>3. /\ Content("form", f.own, f.group, f.moved, font).op = "content"
        /\ Content("form", f.own, f.group, f.moved, font).own = f.own
    BY DEF Content
  <2> QED
    BY <2>1, <2>2, <2>3, EnteredFollows
<1>3. CASE BeginPage
  <2>1. font' = font /\ Entered(Plain("page", FALSE))
    BY <1>3 DEF BeginPage
  <2> DEFINE e == Plain("page", FALSE)
  <2>2. e.op = "content" /\ e.own \in BOOLEAN /\ e.kind = "page" /\ e.font = font
    BY DEF Plain, Content
  <2>3. Entered(e)
    BY <2>1
  <2> HIDE DEF e
  <2> QED
    BY <2>1, <2>2, <2>3, EnteredFollows
<1>4. ASSUME NEW own \in BOOLEAN, RenderTile(own) PROVE Follows'
  <2>1. frames # <<>> /\ font' = font /\ Entered(Plain("tile", own))
    BY <1>4 DEF RenderTile
  <2> QED
    BY <1>1, <2>1, EnteredFollows
<1>5. ASSUME NEW own \in BOOLEAN, ShowGlyph(own) PROVE Follows'
  <2>1. frames # <<>> /\ font' = font /\ Entered(Plain("glyph", own))
    BY <1>5 DEF ShowGlyph, Reads
  <2> QED
    BY <1>1, <2>1, EnteredFollows
<1>6. ASSUME NEW own \in BOOLEAN, BeginAnnotation(own) PROVE Follows'
  <2>1. font' = font /\ Entered(Plain("annot", own))
    BY <1>6 DEF BeginAnnotation
  <2> QED
    BY <1>1, <2>1, EnteredFollows
<1> QED
  BY <1>2, <1>3, <1>4, <1>5, <1>6

LEMMA SetSoftMaskFollows ==
  ASSUME DInv, CInv', NEW g, NEW own \in BOOLEAN, SetSoftMask(g, own)
  PROVE  Follows'
<1>1. frames # <<>>
  BY DEF SetSoftMask, Reads
<1>2. CASE UNCHANGED <<state, font, resources, members, frames, scope>>
  BY <1>2 DEF DInv, Follows
<1>3. ASSUME NEW h, ForgetMask(h) PROVE Follows'
  <2> DEFINE e == OpOf("mask", "fill", h)
  <2>1. frames' = frames /\ font' = font /\ scope' = Append(scope, e)
    BY <1>3 DEF ForgetMask
  <2>2. ~Mark(e) /\ state' = After(state, e) /\ FontAfter(font, Owner, e) = font
    BY <1>3 DEF ForgetMask, After, Mark, FontAfter, OpOf
  <2> HIDE DEF e
  <2> QED
    BY <1>1, <2>1, <2>2, OperatorFollows
<1>4. CASE Entered([Plain("group", own) EXCEPT !.of = g]) /\ font' = font
  <2> DEFINE e == [Plain("group", own) EXCEPT !.of = g]
  <2>1. e.op = "content" /\ e.own = own
    BY DEF Plain, Content
  <2> HIDE DEF e
  <2> QED
    BY <1>1, <1>4, <2>1, EnteredFollows DEF e
<1> QED
  BY <1>2, <1>3, <1>4 DEF SetSoftMask

LEMMA LeftFollows ==
  ASSUME DInv, frames # <<>>
  PROVE  /\ InStep(Left, Front(frames), Top.saved.state, font) /\ Front(frames) \in Seq(Frames)
         /\ Len(Front(frames)) = Len(frames) - 1 /\ DOMAIN Front(frames) = 1..Len(frames) - 1
<1>1. frames \in Seq(Frames) /\ InStep(scope, frames, state, font)
  BY DEF DInv, CInv, Typed, Follows
<1> QED
  BY <1>1, InStepLeft, Popped DEF Top

LEMMA ReturnsFollow ==
  ASSUME DInv, EndForm \/ EndGlyph \/ EndAnnotation
  PROVE  Follows'
<1>1. /\ frames # <<>> /\ state' = Top.saved.state /\ scope' = Left /\ frames' = Front(frames)
      /\ font' = font
  BY DEF EndForm, EndGlyph, EndAnnotation, Returns, Ends
<1> QED
  BY <1>1, LeftFollows DEF Follows

\* What is not outermost.
LEMMA Deeper ==
  ASSUME DInv, frames # <<>>, Top.kind \in {"tile", "group"}
  PROVE  Front(frames) # <<>> /\ Len(frames) - 1 \in DOMAIN Front(frames)
<1>1. frames[1].kind \in {"page", "annot"}
  BY DEF DInv, Follows, InStep
<1>2. Len(frames) \in Nat \ {0}
  BY Popped DEF DInv, CInv, Typed
<1>3. Len(frames) # 1
  BY <1>1 DEF Top
<1>4. Len(frames) - 1 \in 1..Len(frames) - 1 /\ Len(frames) - 1 # 0
  <2> DEFINE n == Len(frames)
  <2>1. n \in Nat \ {0} /\ n # 1
    BY <1>2, <1>3
  <2> HIDE DEF n
  <2>2. n - 1 \in 1..n - 1 /\ n - 1 # 0
    BY <2>1
  <2> QED
    BY <2>2 DEF n
<1>5. Front(frames) # <<>>
  BY <1>4, LeftFollows, NoneIsSeq
<1> QED
  BY <1>4, <1>5, LeftFollows

LEMMA EndTileFollows ==
  ASSUME DInv, EndTile
  PROVE  Follows'
<1> DEFINE gs == Front(frames)
           m == Len(frames) - 1
<1>1. /\ frames # <<>> /\ state' = Top.saved.state /\ scope' = Left /\ font' = font
      /\ frames' = [gs EXCEPT ![m].tiled = TRUE] /\ Top.kind = "tile"
  BY DEF EndTile, Ends
<1>2. gs \in Seq(Frames) /\ m \in DOMAIN gs /\ InStep(Left, gs, Top.saved.state, font)
  BY <1>1, LeftFollows, Deeper
<1> HIDE DEF gs, m
<1> DEFINE f == [gs[m] EXCEPT !.tiled = TRUE]
<1>3. gs[m] \in Frames
  BY <1>2, ElementOfSeq, LenProperties
<1>4. /\ f \in Frames /\ f.kind = gs[m].kind /\ f.own = gs[m].own /\ f.saved = gs[m].saved
      /\ f.states = gs[m].states /\ f.fonts = gs[m].fonts
  BY <1>3 DEF Frames
<1>5. frames' = [gs EXCEPT ![m] = f]
  BY <1>1
<1> HIDE DEF f
<1>6. frames' \in Seq(Frames) /\ Equal(gs, frames')
  BY <1>2, <1>4, <1>5, EqualButPainting
<1>7. InStep(Left, frames', Top.saved.state, font)
  BY <1>2, <1>6, InStepEqual
<1> QED
  BY <1>1, <1>7 DEF Follows

LEMMA EndGroupFollows ==
  ASSUME DInv, EndGroup
  PROVE  Follows'
<1> DEFINE e == OpOf("mask", "fill", Top.of)
           gs == Front(frames)
           st == Top.saved.state
<1>1. /\ frames # <<>> /\ state' = Masked(st, Top.of) /\ scope' = Append(Left, e)
      /\ frames' = gs /\ font' = font /\ Top.kind = "group"
  BY DEF EndGroup, Ends
<1>2. gs \in Seq(Frames) /\ gs # <<>> /\ InStep(Left, gs, st, font)
  BY <1>1, LeftFollows, Deeper
<1>3. ~Mark(e) /\ After(st, e) = Masked(st, Top.of) /\ \A o : FontAfter(font, o, e) = font
  BY DEF Mark, After, FontAfter, OpOf
<1> HIDE DEF e, gs, st
<1>4. PICK o : OwnerIs(gs, Len(gs), o)
  BY <1>2 DEF InStep, Now
<1>5. InStep(Append(Left, e), gs, After(st, e), FontAfter(font, o, e))
  BY <1>2, <1>3, <1>4, InStepOn
<1> QED
  BY <1>1, <1>3, <1>5 DEF Follows

LEMMA NextDInv == ContentAssumption /\ DInv /\ [Next]_vars => DInv'
<1> SUFFICES ASSUME ContentAssumption, DInv, [Next]_vars PROVE Follows'
  BY NextCInv DEF DInv
<1>0. CInv'
  BY NextCInv DEF DInv
<1>1. CASE \/ \E f \in Forms : DoForm(f)
           \/ BeginPage
           \/ \E own \in BOOLEAN : RenderTile(own) \/ ShowGlyph(own) \/ BeginAnnotation(own)
  BY <1>0, <1>1, ContentsFollow
<1>2. ASSUME NEW g \in Groups \union {None}, NEW own \in BOOLEAN, SetSoftMask(g, own) PROVE Follows'
  BY <1>0, <1>2, SetSoftMaskFollows
<1>3. CASE PathOperator \/ ColourOperator \/ PatternOperator \/ ConcatOperator \/ TextOperator
             \/ \E w \in Ways, a \in {0, 1} : SetOpacity(w, a)
  BY <1>3, OperatorsFollow
<1>4. ASSUME NEW f \in PageFonts \union OtherFonts, SetFont(f) PROVE Follows'
  BY <1>4, SetFontFollows
<1>5. CASE Save \/ Restore \/ PaintOperator \/ PushShape \/ ShowText
  BY <1>5, SaveFollows, RestoreFollows, PaintFollows, PushShapeFollows, ShowTextFollows
<1>6. CASE EndPage
  <2>1. frames' = <<>> /\ scope' = <<>>
    BY <1>6 DEF EndPage
  <2> QED
    BY <2>1, NoneIsSeq DEF Follows, InStep
<1>7. CASE EndForm \/ EndGlyph \/ EndAnnotation
  BY <1>7, ReturnsFollow
<1>8. CASE EndTile \/ EndGroup
  BY <1>8, EndTileFollows, EndGroupFollows
<1>9. CASE UNCHANGED vars
  BY <1>9 DEF vars, DInv, Follows
<1> QED
  BY <1>1, <1>2, <1>3, <1>4, <1>5, <1>6, <1>7, <1>8, <1>9 DEF Next

LEMMA DInvDraws == DInv => DrawnAsInForce
<1> SUFFICES ASSUME DInv, frames # <<>>
             PROVE  LET env == InForce(scope)
                    IN /\ state = env.state /\ font = env.font /\ Owner = env.owner
                       /\ (\A g, h \in Groups : Looks[g] = Looks[h] => g = h) => Attached = env.state.mask
  BY DEF DrawnAsInForce
<1>1. InForce(scope) = Env(state, font, Len(frames), Owner)
  BY OwnerOf
<1>2. ASSUME \A g, h \in Groups : Looks[g] = Looks[h] => g = h
      PROVE  Attached = state.mask
  <2>1. softMask \in Masks /\ state.mask \in Masks
    BY DEF DInv, CInv, Typed, States
  <2>2. CASE state.mask # None /\ softMask # None /\ Looks[softMask] = Looks[state.mask]
    BY <1>2, <2>1, <2>2 DEF Attached, Masks
  <2>3. CASE ~(state.mask # None /\ softMask # None /\ Looks[softMask] = Looks[state.mask])
    BY <2>3 DEF Attached
  <2> QED
    BY <2>2, <2>3
<1> QED
  BY <1>1, <1>2 DEF Env

\* Whatever the contents of a page hold, the graphics state, the font and the resources
\* that parse_pdf_content draws with are those that replaying the operators in scope
\* gives, and apply_soft_mask_opacity attaches the mask that they name, if no two groups
\* are the same in the bytes it compares: what q, a Form XObject, a glyph, a tile, a group
\* and an annotation save is what their ends put back, however they were nested.
THEOREM ContentsDrawInForce == Spec => []DrawnAsInForce
<1>1. Init => DInv
  <2> SUFFICES ASSUME Init PROVE DInv
    OBVIOUS
  <2>1. CInv
    BY ContentAssumption, InitCInv
  <2>2. Follows
    BY NoneIsSeq DEF Init, Follows, InStep
  <2> QED
    BY <2>1, <2>2 DEF DInv
<1>2. DInv /\ [Next]_vars => DInv'
  BY ContentAssumption, NextDInv
<1>3. DInv => DrawnAsInForce
  BY DInvDraws
<1> QED
  BY <1>1, <1>2, <1>3, PTL DEF Spec
=============================================================================
