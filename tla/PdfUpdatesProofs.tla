-------------------------- MODULE PdfUpdatesProofs --------------------------
(***************************************************************************)
(* Theorems about PdfUpdates, for all documents, edits and bounds.         *)
(*                                                                         *)
(* The lemmas come first: naturals and sequences; FlattenSeq and At; the   *)
(* recursive ChainFrom and what Resolve finds through it.  Then the shape  *)
(* of files (IsFile), of sessions (IsSession) and of what an update holds  *)
(* (Described).  Three invariants stand on each other: UInv has the shapes *)
(* and what signatures cover, SInv that numbers rise where updates are     *)
(* long, RInv that a file shows what was meant.                            *)
(***************************************************************************)
EXTENDS PdfUpdates, FiniteSetTheorems, WellFoundedInduction, SequenceTheorems, TLAPS

---------------------------------------------------------------------------
(* Numbers and extrema. *)

LEMMA LeastNatural ==
  ASSUME NEW S, S \subseteq Nat, S # {}
  PROVE  \E m \in S : \A y \in S : m <= y
<1> DEFINE Less == OpToRel(<, Nat)
<1>1. \A x, y \in Nat : x < y <=> <<x, y>> \in Less
  BY DEF OpToRel
<1>2. IsWellFoundedOn(Less, Nat)
  BY NatLessThanWellFounded
<1> HIDE DEF Less
<1>3. PICK m \in S : \A y \in S : <<y, m>> \notin Less
  BY <1>2, WFMin
<1>4. \A y \in S : y \in Nat /\ m \in Nat /\ ~(y < m)
  BY <1>1, <1>3
<1> QED
  BY <1>4

\* What holds of 0 and is inherited holds of every number.
LEMMA Inherited ==
  ASSUME NEW S, 0 \in S, \A n \in Nat : n \in S => n + 1 \in S
  PROVE  Nat \subseteq S
<1> DEFINE T == Nat \ S
<1> SUFFICES ASSUME T # {} PROVE FALSE
  OBVIOUS
<1>1. PICK n \in T : \A m \in T : n <= m
  BY LeastNatural
<1>2. n # 0 /\ n - 1 \in Nat
  BY <1>1
<1>3. n - 1 \in S
  BY <1>1, <1>2
<1> QED
  BY <1>1, <1>2, <1>3

LEMMA MinIsLeast ==
  ASSUME NEW S, S \subseteq Nat, S # {}
  PROVE  Min(S) \in S /\ \A y \in S : Min(S) <= y
  BY LeastNatural DEF Min

LEMMA MaxIsGreatest ==
  ASSUME NEW n \in Nat, NEW S, S \subseteq 0..n, S # {}
  PROVE  Max(S) \in S /\ \A y \in S : y <= Max(S)
<1> DEFINE B == {b \in Nat : \A y \in S : y <= b}
<1>1. n \in B
  OBVIOUS
<1>2. PICK m \in B : \A b \in B : m <= b
  BY <1>1, LeastNatural
<1>3. m \in S
  <2> SUFFICES ASSUME m \notin S PROVE FALSE
    OBVIOUS
  <2>1. \A y \in S : y <= m - 1 /\ m - 1 \in Nat
    OBVIOUS
  <2>2. m - 1 \in B
    BY <2>1
  <2> QED
    BY <1>2, <2>2
<1>4. \A y \in S : m >= y
  OBVIOUS
<1>5. \A a, b \in S : (\A y \in S : a >= y) /\ (\A y \in S : b >= y) => a = b
  OBVIOUS
<1> QED
  BY <1>3, <1>4 DEF Max

---------------------------------------------------------------------------
(* Sequences, of whatever they are. *)

IsSeq(q) == \E S : q \in Seq(S)

LEMMA SeqIs ==
  ASSUME NEW q, IsSeq(q)
  PROVE  /\ Len(q) \in Nat /\ DOMAIN q = 1..Len(q)
         /\ q = [i \in 1..Len(q) |-> q[i]]
         /\ (q = <<>> <=> Len(q) = 0)
<1>1. PICK S : q \in Seq(S)
  BY DEF IsSeq
<1> QED
  BY <1>1

LEMMA SeqFrom ==
  ASSUME NEW q, NEW n \in Nat, q = [i \in 1..n |-> q[i]]
  PROVE  IsSeq(q) /\ Len(q) = n
<1> DEFINE S == {q[i] : i \in 1..n}
<1>1. q \in Seq(S)
  OBVIOUS
<1>2. Len(q) = n
  <2>1. DOMAIN q = 1..n /\ DOMAIN q = 1..Len(q) /\ Len(q) \in Nat
    BY <1>1
  <2> QED
    BY <2>1
<1> QED
  BY <1>1, <1>2 DEF IsSeq

LEMMA SeqOfIts ==
  ASSUME NEW q, IsSeq(q), NEW S, \A i \in DOMAIN q : q[i] \in S
  PROVE  q \in Seq(S)
<1>1. Len(q) \in Nat /\ q = [i \in 1..Len(q) |-> q[i]] /\ DOMAIN q = 1..Len(q)
  BY SeqIs
<1> QED
  BY <1>1

LEMMA SameSeq ==
  ASSUME NEW s, NEW t, IsSeq(s), IsSeq(t), Len(s) = Len(t), \A i \in 1..Len(s) : s[i] = t[i]
  PROVE  s = t
<1>1. s = [i \in 1..Len(s) |-> s[i]] /\ t = [i \in 1..Len(s) |-> t[i]]
  BY SeqIs
<1> QED
  BY <1>1

LEMMA Joined ==
  ASSUME NEW s, NEW t, IsSeq(s), IsSeq(t)
  PROVE  /\ IsSeq(s \o t) /\ Len(s \o t) = Len(s) + Len(t)
         /\ \A i \in 1..Len(s) : (s \o t)[i] = s[i]
         /\ \A i \in 1..Len(t) : (s \o t)[Len(s) + i] = t[i]
<1>1. PICK S : s \in Seq(S)
  BY DEF IsSeq
<1>2. PICK T : t \in Seq(T)
  BY DEF IsSeq
<1>3. s \in Seq(S \union T) /\ t \in Seq(S \union T)
  BY <1>1, <1>2
<1>4. Len(s) \in Nat /\ Len(t) \in Nat
  BY <1>1, <1>2
<1>5. /\ s \o t \in Seq(S \union T)
      /\ Len(s \o t) = Len(s) + Len(t)
      /\ \A i \in 1..Len(s) + Len(t) : (s \o t)[i] = IF i <= Len(s) THEN s[i] ELSE t[i - Len(s)]
  BY <1>3, ConcatProperties
<1>6. \A i \in 1..Len(t) : Len(s) + i \in 1..Len(s) + Len(t) /\ ~(Len(s) + i <= Len(s))
                           /\ (Len(s) + i) - Len(s) = i
  BY <1>4
<1>7. \A i \in 1..Len(s) : i \in 1..Len(s) + Len(t) /\ i <= Len(s)
  BY <1>4
<1> QED
  BY <1>5, <1>6, <1>7 DEF IsSeq

LEMMA ToSetJoined ==
  ASSUME NEW a, NEW b, IsSeq(a), IsSeq(b)
  PROVE  IsSeq(a \o b) /\ ToSet(a \o b) = ToSet(a) \union ToSet(b)
<1>1. Len(a) \in Nat /\ Len(b) \in Nat /\ DOMAIN a = 1..Len(a) /\ DOMAIN b = 1..Len(b)
  BY SeqIs
<1>2. /\ IsSeq(a \o b) /\ Len(a \o b) = Len(a) + Len(b)
      /\ \A i \in 1..Len(a) : (a \o b)[i] = a[i]
      /\ \A i \in 1..Len(b) : (a \o b)[Len(a) + i] = b[i]
  BY Joined
<1>3. DOMAIN (a \o b) = 1..Len(a) + Len(b)
  BY <1>2, SeqIs
<1>4. \A i \in 1..Len(a) + Len(b) :
        i \in 1..Len(a) \/ (i - Len(a) \in 1..Len(b) /\ i = Len(a) + (i - Len(a)))
  BY <1>1
<1>5. ToSet(a \o b) \subseteq ToSet(a) \union ToSet(b)
  BY <1>1, <1>2, <1>3, <1>4 DEF ToSet
<1>6. ToSet(a) \subseteq ToSet(a \o b)
  BY <1>1, <1>2, <1>3 DEF ToSet
<1>7. \A i \in 1..Len(b) : Len(a) + i \in DOMAIN (a \o b)
  BY <1>1, <1>3
<1>8. ToSet(b) \subseteq ToSet(a \o b)
  BY <1>1, <1>2, <1>7 DEF ToSet
<1> QED
  BY <1>2, <1>5, <1>6, <1>8

LEMMA Appended ==
  ASSUME NEW s, NEW e, IsSeq(s)
  PROVE  /\ IsSeq(Append(s, e)) /\ Len(Append(s, e)) = Len(s) + 1
         /\ Append(s, e)[Len(s) + 1] = e
         /\ \A i \in 1..Len(s) : Append(s, e)[i] = s[i]
<1>1. PICK S : s \in Seq(S)
  BY DEF IsSeq
<1>2. s \in Seq(S \union {e})
  BY <1>1
<1> QED
  BY <1>2, AppendProperties DEF IsSeq

LEMMA FirstOf ==
  ASSUME NEW s, IsSeq(s), NEW n \in 0..Len(s)
  PROVE  /\ IsSeq(SubSeq(s, 1, n)) /\ Len(SubSeq(s, 1, n)) = n
         /\ \A i \in 1..n : SubSeq(s, 1, n)[i] = s[i]
<1>1. Len(s) \in Nat
  BY SeqIs
<1> DEFINE S == {s[i] : i \in 1..n}
           q == SubSeq(s, 1, n)
<1>2. /\ q \in Seq(S) /\ Len(q) = IF 1 <= n THEN n - 1 + 1 ELSE 0
      /\ \A i \in 1..n - 1 + 1 : q[i] = s[1 + i - 1]
  <2>1. \A i \in 1..n : s[i] \in S
    OBVIOUS
  <2>2. n \in Int
    BY <1>1
  <2> HIDE DEF S
  <2> QED
    BY <2>1, <2>2, SubSeqProperties
<1>3. n - 1 + 1 = n /\ \A i \in 1..n : 1 + i - 1 = i
  BY <1>1
<1>4. Len(q) = n
  BY <1>1, <1>2
<1> HIDE DEF q
<1> QED
  BY <1>2, <1>3, <1>4 DEF IsSeq, q

\* A pair or a single thing is a sequence.
LEMMA Singles ==
  ASSUME NEW a, NEW b
  PROVE  /\ IsSeq(<<>>) /\ Len(<<>>) = 0
         /\ IsSeq(<<a>>) /\ Len(<<a>>) = 1
         /\ IsSeq(<<a, b>>) /\ Len(<<a, b>>) = 2
         /\ ToSet(<<>>) = {} /\ ToSet(<<a>>) = {a} /\ ToSet(<<a, b>>) = {a, b}
<1>1. <<>> \in Seq({a, b}) /\ <<a>> \in Seq({a, b}) /\ <<a, b>> \in Seq({a, b})
  OBVIOUS
<1>2. ToSet(<<>>) = {} /\ ToSet(<<a>>) = {a} /\ ToSet(<<a, b>>) = {a, b}
  BY DEF ToSet
<1> QED
  BY <1>1, <1>2 DEF IsSeq

---------------------------------------------------------------------------
(* FlattenSeq, whose value is that of a recursive function. *)

\* f[m] is what the first m sequences of ss make.
Flattens(f, ss) ==
  /\ f[1] = ss[1]
  /\ \A i \in 2..Len(ss) : f[i] = f[i - 1] \o ss[i]

LEMMA FlatOf ==
  ASSUME NEW ss, IsSeq(ss), Len(ss) # 0
  PROVE  \E f : Flattens(f, ss) /\ FlattenSeq(ss) = f[Len(ss)]
<1> DEFINE n == Len(ss)
           Eq(f, m) == f = [i \in 1..m |-> IF i = 1 THEN ss[i] ELSE f[i - 1] \o ss[i]]
           S == {m \in Nat : \E f : Eq(f, m)}
<1>1. n \in Nat \ {0}
  BY SeqIs
<1>2. 0 \in S
  <2>1. Eq([i \in 1..0 |-> 0], 0)
    OBVIOUS
  <2> QED
    BY <2>1
<1>3. ASSUME NEW m \in Nat, m \in S PROVE m + 1 \in S
  <2>1. PICK f : Eq(f, m)
    BY <1>3
  <2> DEFINE last == IF m + 1 = 1 THEN ss[m + 1] ELSE f[m] \o ss[m + 1]
             g == [i \in 1..m + 1 |-> IF i = m + 1 THEN last ELSE f[i]]
  <2>2. ASSUME NEW i \in 1..m + 1
        PROVE  g[i] = IF i = 1 THEN ss[i] ELSE g[i - 1] \o ss[i]
    <3>1. CASE i = m + 1
      <4>1. g[i] = last /\ (i # 1 => i - 1 \in 1..m /\ i - 1 = m)
        BY <3>1
      <4>2. i # 1 => g[i - 1] = f[m]
        BY <4>1
      <4> QED
        BY <3>1, <4>1, <4>2
    <3>2. CASE i \in 1..m
      <4>1. g[i] = f[i] /\ (i # 1 => i - 1 \in 1..m /\ g[i - 1] = f[i - 1])
        BY <3>2
      <4>2. f[i] = IF i = 1 THEN ss[i] ELSE f[i - 1] \o ss[i]
        BY <2>1, <3>2
      <4> HIDE DEF g
      <4> QED
        BY <4>1, <4>2
    <3> QED
      BY <3>1, <3>2
  <2>3. g = [i \in 1..m + 1 |-> g[i]]
    OBVIOUS
  <2>4. Eq(g, m + 1)
    <3> HIDE DEF g
    <3> QED
      BY <2>2, <2>3
  <2>5. m + 1 \in Nat
    OBVIOUS
  <2> HIDE DEF Eq, g
  <2> QED
    BY <2>4, <2>5
<1>4. \E f : Eq(f, n)
  <2>1. Nat \subseteq S
    <3> HIDE DEF S
    <3> QED
      BY <1>2, <1>3, Inherited
  <2> QED
    BY <1>1, <2>1
<1> DEFINE flat == CHOOSE f : Eq(f, n)
<1>5. FlattenSeq(ss) = flat[n]
  BY <1>1 DEF FlattenSeq
<1>6. Eq(flat, n)
  BY <1>4
<1>7. Flattens(flat, ss)
  <2> HIDE DEF flat
  <2>1. \A i \in 1..n : flat[i] = IF i = 1 THEN ss[i] ELSE flat[i - 1] \o ss[i]
    BY <1>6
  <2>2. 1 \in 1..n /\ \A i \in 2..n : i \in 1..n /\ i # 1
    BY <1>1
  <2>3. flat[1] = ss[1]
    BY <2>1, <2>2
  <2>4. \A i \in 2..n : flat[i] = flat[i - 1] \o ss[i]
    BY <2>1, <2>2
  <2> QED
    BY <2>3, <2>4 DEF Flattens
<1> HIDE DEF flat
<1> QED
  BY <1>5, <1>7

LEMMA FlatHolds ==
  ASSUME NEW ss, IsSeq(ss), \A i \in 1..Len(ss) : IsSeq(ss[i])
  PROVE  /\ IsSeq(FlattenSeq(ss))
         /\ ToSet(FlattenSeq(ss)) = UNION {ToSet(ss[i]) : i \in 1..Len(ss)}
<1>1. Len(ss) \in Nat
  BY SeqIs
<1>2. CASE Len(ss) = 0
  <2>1. FlattenSeq(ss) = ss /\ DOMAIN ss = {}
    BY <1>2, SeqIs DEF FlattenSeq
  <2> QED
    BY <1>2, <2>1 DEF ToSet
<1>3. CASE Len(ss) # 0
  <2>1. PICK f : Flattens(f, ss) /\ FlattenSeq(ss) = f[Len(ss)]
    BY <1>3, FlatOf
  <2> DEFINE U(m) == UNION {ToSet(ss[i]) : i \in 1..m}
             S == {m \in Nat : m < Len(ss) => IsSeq(f[m + 1]) /\ ToSet(f[m + 1]) = U(m + 1)}
  <2>2. 0 \in S
    <3>1. f[1] = ss[1] /\ 1 \in 1..Len(ss) /\ U(1) = ToSet(ss[1])
      BY <1>1, <1>3, <2>1 DEF Flattens
    <3> QED
      BY <3>1
  <2>3. ASSUME NEW m \in Nat, m \in S PROVE m + 1 \in S
    <3> SUFFICES ASSUME m + 1 < Len(ss)
                 PROVE  IsSeq(f[m + 1 + 1]) /\ ToSet(f[m + 1 + 1]) = U(m + 1 + 1)
      OBVIOUS
    <3> DEFINE k == m + 1 + 1
    <3>1. k \in 2..Len(ss) /\ k - 1 = m + 1 /\ k \in 1..Len(ss) /\ k \in Nat
      BY <1>1
    <3>2. f[k] = f[m + 1] \o ss[k]
      BY <2>1, <3>1 DEF Flattens
    <3>3. IsSeq(f[m + 1]) /\ ToSet(f[m + 1]) = U(m + 1)
      BY <1>1, <2>3
    <3>4. IsSeq(f[k]) /\ ToSet(f[k]) = ToSet(f[m + 1]) \union ToSet(ss[k])
      <4>1. IsSeq(f[m + 1]) /\ IsSeq(ss[k])
        BY <3>1, <3>3
      <4> HIDE DEF k
      <4> QED
        BY <3>2, <4>1, ToSetJoined
    <3>5. 1..k = 1..(m + 1) \union {k}
      OBVIOUS
    <3> HIDE DEF k
    <3>6. U(k) = U(m + 1) \union ToSet(ss[k])
      BY <3>5
    <3> QED
      BY <3>3, <3>4, <3>6 DEF k
  <2>4. Nat \subseteq S
    <3> HIDE DEF S
    <3> QED
      BY <2>2, <2>3, Inherited
  <2>5. Len(ss) - 1 \in Nat /\ Len(ss) - 1 < Len(ss) /\ (Len(ss) - 1) + 1 = Len(ss)
    BY <1>1, <1>3
  <2>6. Len(ss) - 1 \in S
    BY <2>4, <2>5
  <2> QED
    BY <2>1, <2>5, <2>6
<1> QED
  BY <1>2, <1>3

---------------------------------------------------------------------------
(* What At picks depends on the length of a sequence alone. *)

Places(n, S) == At([i \in 1..n |-> i], S)

LEMMA AtIs ==
  ASSUME NEW q, IsSeq(q), NEW S
  PROVE  LET p == Places(Len(q), S) IN
         /\ IsSeq(p) /\ \A x \in 1..Len(p) : p[x] \in 1..Len(q) /\ p[x] \in S
         /\ IsSeq(At(q, S)) /\ Len(At(q, S)) = Len(p)
         /\ \A x \in 1..Len(p) : At(q, S)[x] = q[p[x]]
         /\ 1..Len(q) \subseteq S => p = [i \in 1..Len(q) |-> i]
<1> DEFINE n == Len(q)
           id == [i \in 1..n |-> i]
           pick == [i \in 1..n |-> IF i \in S THEN <<q[i]>> ELSE <<>>]
           place == [i \in 1..n |-> IF i \in S THEN <<i>> ELSE <<>>]
           p == Places(n, S)
<1>1. n \in Nat /\ DOMAIN q = 1..n
  BY SeqIs
<1>2. At(q, S) = FlattenSeq(pick)
  BY <1>1 DEF At
<1>3. p = FlattenSeq(place)
  <2>1. DOMAIN id = 1..n /\ \A i \in 1..n : id[i] = i
    OBVIOUS
  <2> HIDE DEF id
  <2>2. [i \in 1..n |-> IF i \in S THEN <<id[i]>> ELSE <<>>] = place
    BY <2>1
  <2> QED
    BY <2>1, <2>2 DEF Places, At, id
<1>4. IsSeq(pick) /\ Len(pick) = n /\ IsSeq(place) /\ Len(place) = n
  <2>1. pick = [i \in 1..n |-> pick[i]] /\ place = [i \in 1..n |-> place[i]]
    OBVIOUS
  <2> HIDE DEF pick, place
  <2> QED
    BY <1>1, <2>1, SeqFrom
<1> DEFINE Good(a, b, m) ==
             /\ IsSeq(b) /\ \A x \in 1..Len(b) : b[x] \in 1..n /\ b[x] \in S
             /\ IsSeq(a) /\ Len(a) = Len(b)
             /\ \A x \in 1..Len(b) : a[x] = q[b[x]]
             /\ 1..n \subseteq S => Len(b) = m /\ \A i \in 1..m : b[i] = i
<1>5. Good(At(q, S), p, n)
  <2>1. CASE n = 0
    <3>1. At(q, S) = pick /\ p = place
      BY <1>2, <1>3, <1>4, <2>1 DEF FlattenSeq
    <3> HIDE DEF pick, place, p
    <3> QED
      BY <1>4, <2>1, <3>1
  <2>2. CASE n # 0
    <3>1. PICK f : Flattens(f, pick) /\ FlattenSeq(pick) = f[n]
      BY <1>4, <2>2, FlatOf
    <3>2. PICK g : Flattens(g, place) /\ FlattenSeq(place) = g[n]
      BY <1>4, <2>2, FlatOf
    <3> DEFINE T == {m \in Nat : m < n => Good(f[m + 1], g[m + 1], m + 1)}
    <3>3. ASSUME NEW i \in 1..n
          PROVE  pick[i] = (IF i \in S THEN <<q[i]>> ELSE <<>>) /\ place[i] = IF i \in S THEN <<i>> ELSE <<>>
      OBVIOUS
    <3>4. /\ f[1] = pick[1] /\ g[1] = place[1]
          /\ \A i \in 2..n : f[i] = f[i - 1] \o pick[i] /\ g[i] = g[i - 1] \o place[i]
      BY <1>4, <3>1, <3>2 DEF Flattens
    <3> HIDE DEF pick, place
    <3>5. 0 \in T
      <4>1. 1 \in 1..n
        BY <1>1, <2>2
      <4>2. CASE 1 \in S
        <5>1. f[1] = <<q[1]>> /\ g[1] = <<1>>
          BY <3>3, <3>4, <4>1, <4>2
        <5>2. IsSeq(f[1]) /\ IsSeq(g[1]) /\ Len(f[1]) = 1 /\ Len(g[1]) = 1 /\ f[1][1] = q[1] /\ g[1][1] = 1
          <6>1. IsSeq(<<q[1]>>) /\ Len(<<q[1]>>) = 1 /\ IsSeq(<<1>>) /\ Len(<<1>>) = 1
            BY Singles
          <6> QED
            BY <5>1, <6>1
        <5>3. Good(f[1], g[1], 1)
          BY <4>1, <4>2, <5>2
        <5> QED
          BY <5>3
      <4>3. CASE 1 \notin S
        <5>1. f[1] = <<>> /\ g[1] = <<>>
          BY <3>3, <3>4, <4>1, <4>3
        <5>2. IsSeq(f[1]) /\ IsSeq(g[1]) /\ Len(f[1]) = 0 /\ Len(g[1]) = 0
          <6>1. IsSeq(<<>>) /\ Len(<<>>) = 0
            BY Singles
          <6> QED
            BY <5>1, <6>1
        <5>3. ~(1..n \subseteq S)
          BY <4>1, <4>3
        <5>4. Good(f[1], g[1], 1)
          BY <5>2, <5>3
        <5> QED
          BY <5>4
      <4> QED
        BY <4>2, <4>3
    <3>6. ASSUME NEW m \in Nat, m \in T PROVE m + 1 \in T
      <4> SUFFICES ASSUME m + 1 < n PROVE Good(f[m + 1 + 1], g[m + 1 + 1], m + 1 + 1)
        OBVIOUS
      <4> DEFINE k == m + 1 + 1
                 a == f[m + 1]
                 b == g[m + 1]
      <4>1. k \in 2..n /\ k - 1 = m + 1 /\ k \in 1..n
        BY <1>1
      <4>2. Good(a, b, m + 1)
        BY <1>1, <3>6
      <4>3. f[k] = a \o pick[k] /\ g[k] = b \o place[k]
        BY <3>4, <4>1
      <4>4. Len(b) \in Nat
        BY <4>2, SeqIs
      <4>5. CASE k \in S
        <5>1. f[k] = a \o <<q[k]>> /\ g[k] = b \o <<k>>
          BY <3>3, <4>1, <4>3, <4>5
        <5>2. /\ IsSeq(f[k]) /\ Len(f[k]) = Len(a) + 1 /\ (\A i \in 1..Len(a) : f[k][i] = a[i])
              /\ f[k][Len(a) + 1] = q[k]
          <6>1. IsSeq(<<q[k]>>) /\ Len(<<q[k]>>) = 1
            BY Singles
          <6> HIDE DEF a, b, k
          <6> QED
            BY <4>2, <5>1, <6>1, Joined
        <5>3. /\ IsSeq(g[k]) /\ Len(g[k]) = Len(b) + 1 /\ (\A i \in 1..Len(b) : g[k][i] = b[i])
              /\ g[k][Len(b) + 1] = k
          <6>1. IsSeq(<<k>>) /\ Len(<<k>>) = 1
            BY Singles
          <6> HIDE DEF a, b, k
          <6> QED
            BY <4>2, <5>1, <6>1, Joined
        <5>4. \A x \in 1..Len(b) + 1 : x \in 1..Len(b) \/ x = Len(b) + 1
          BY <4>4
        <5> HIDE DEF a, b
        <5>5. \A x \in 1..Len(g[k]) : g[k][x] \in 1..n /\ g[k][x] \in S /\ f[k][x] = q[g[k][x]]
          BY <4>1, <4>2, <4>5, <5>2, <5>3, <5>4
        <5>6. 1..n \subseteq S => Len(g[k]) = k /\ \A i \in 1..k : g[k][i] = i
          BY <4>2, <5>3, <5>4
        <5>7. Good(f[k], g[k], k)
          BY <4>2, <5>2, <5>3, <5>5, <5>6
        <5> QED
          BY <5>7
      <4>6. CASE k \notin S
        <5>1. f[k] = a \o <<>> /\ g[k] = b \o <<>>
          BY <3>3, <4>1, <4>3, <4>6
        <5>2. \A s : IsSeq(s) => s \o <<>> = s
          BY DEF IsSeq
        <5>3. f[k] = a /\ g[k] = b
          BY <4>2, <5>1, <5>2
        <5> HIDE DEF a, b
        <5>4. Good(f[k], g[k], k)
          BY <4>1, <4>2, <4>6, <5>3
        <5> QED
          BY <5>4
      <4> QED
        BY <4>5, <4>6
    <3>7. Nat \subseteq T
      <4> HIDE DEF T
      <4> QED
        BY <3>5, <3>6, Inherited
    <3>8. n - 1 \in Nat /\ n - 1 < n /\ (n - 1) + 1 = n
      BY <1>1, <2>2
    <3>9. n - 1 \in T
      BY <3>7, <3>8
    <3> HIDE DEF p
    <3> QED
      BY <1>2, <1>3, <3>1, <3>2, <3>8, <3>9
  <2> QED
    BY <2>1, <2>2
<1>6. 1..n \subseteq S => p = id
  <2>1. IsSeq(id) /\ Len(id) = n
    <3>1. id = [i \in 1..n |-> id[i]]
      OBVIOUS
    <3> HIDE DEF id
    <3> QED
      BY <1>1, <3>1, SeqFrom
  <2> HIDE DEF p
  <2> QED
    BY <1>5, <2>1, SameSeq
<1> HIDE DEF p
<1> QED
  BY <1>5, <1>6 DEF p

\* The entries that stay are those of the sequence.
LEMMA AtHolds ==
  ASSUME NEW q, IsSeq(q), NEW S
  PROVE  /\ IsSeq(At(q, S))
         /\ \A x \in 1..Len(At(q, S)) : \E i \in 1..Len(q) : i \in S /\ At(q, S)[x] = q[i]
         /\ 1..Len(q) \subseteq S => At(q, S) = q
<1> DEFINE p == Places(Len(q), S)
<1>1. /\ IsSeq(p) /\ \A x \in 1..Len(p) : p[x] \in 1..Len(q) /\ p[x] \in S
      /\ IsSeq(At(q, S)) /\ Len(At(q, S)) = Len(p)
      /\ \A x \in 1..Len(p) : At(q, S)[x] = q[p[x]]
      /\ 1..Len(q) \subseteq S => p = [i \in 1..Len(q) |-> i]
  BY AtIs
<1>2. ASSUME 1..Len(q) \subseteq S PROVE At(q, S) = q
  <2>1. p = [i \in 1..Len(q) |-> i] /\ Len(q) \in Nat
    BY <1>1, <1>2, SeqIs
  <2>2. Len(p) = Len(q)
    <3>1. p = [i \in 1..Len(q) |-> p[i]]
      BY <2>1
    <3> HIDE DEF p
    <3> QED
      BY <2>1, <3>1, SeqFrom
  <2>3. \A i \in 1..Len(q) : p[i] = i
    BY <2>1
  <2> HIDE DEF p
  <2> QED
    BY <1>1, <2>2, <2>3, SameSeq
<1> HIDE DEF p
<1> QED
  BY <1>1, <1>2

---------------------------------------------------------------------------
(* Files, whose chains lead back to the document as it was made. *)

Chained(f) ==
  /\ IsSeq(f) /\ Len(f) # 0
  /\ f[1].prev = 0
  /\ \A i \in 2..Len(f) : f[i].prev \in 1..i - 1
  /\ \A i \in 1..Len(f) : IsSeq(f[i].objs)

Linked(f) == \A i \in 2..Len(f) : f[i].prev = i - 1

\* ChainFrom is the value of a recursive function; this is its equation.
LEMMA ChainIs ==
  ASSUME NEW f, Chained(f)
  PROVE  /\ ChainFrom(f, 0) = {}
         /\ \A i \in 1..Len(f) : ChainFrom(f, i) = {i} \union ChainFrom(f, f[i].prev)
<1> DEFINE n == Len(f)
           Eq(c, m) == c = [j \in 0..m |-> IF j = 0 THEN {} ELSE {j} \union c[f[j].prev]]
           S == {m \in Nat : m <= n => \E c : Eq(c, m)}
<1>1. n \in Nat \ {0}
  BY SeqIs DEF Chained
<1>2. \A i \in 1..n : f[i].prev \in 0..i - 1
  <2>1. ASSUME NEW i \in 1..n PROVE f[i].prev \in 0..i - 1
    <3>1. i = 1 \/ i \in 2..n
      BY <1>1
    <3> QED
      BY <3>1 DEF Chained
  <2> QED
    BY <2>1
<1>3. 0 \in S
  <2>1. Eq([j \in 0..0 |-> {}], 0)
    OBVIOUS
  <2> QED
    BY <2>1
<1>4. ASSUME NEW m \in Nat, m \in S PROVE m + 1 \in S
  <2> SUFFICES ASSUME m + 1 <= n PROVE \E c : Eq(c, m + 1)
    OBVIOUS
  <2>1. PICK c : Eq(c, m)
    BY <1>1, <1>4
  <2> DEFINE d == [j \in 0..m + 1 |-> IF j = m + 1 THEN {m + 1} \union c[f[m + 1].prev] ELSE c[j]]
  <2>2. ASSUME NEW j \in 0..m + 1
        PROVE  d[j] = IF j = 0 THEN {} ELSE {j} \union d[f[j].prev]
    <3>1. CASE j = m + 1
      <4>1. f[j].prev \in 0..m
        BY <1>1, <1>2, <3>1
      <4>2. d[f[j].prev] = c[f[j].prev]
        BY <4>1
      <4> QED
        BY <3>1, <4>2
    <3>2. CASE j \in 0..m
      <4>1. c[j] = IF j = 0 THEN {} ELSE {j} \union c[f[j].prev]
        BY <2>1, <3>2
      <4>3. j # m + 1 /\ j \in 0..m + 1
        BY <3>2
      <4>4. d[j] = c[j]
        BY <4>3
      <4>2. j # 0 => f[j].prev \in 0..m /\ d[f[j].prev] = c[f[j].prev]
        <5>1. j # 0 => j \in 1..n
          BY <1>1, <3>2
        <5>2. j # 0 => f[j].prev \in 0..m
          BY <1>2, <3>2, <5>1
        <5> QED
          BY <5>2
      <4> HIDE DEF d
      <4> QED
        BY <4>1, <4>2, <4>4
    <3> QED
      BY <3>1, <3>2
  <2>3. d = [j \in 0..m + 1 |-> d[j]]
    OBVIOUS
  <2>4. Eq(d, m + 1)
    <3> HIDE DEF d
    <3> QED
      BY <2>2, <2>3
  <2> HIDE DEF Eq, d
  <2> QED
    BY <2>4
<1>5. \E c : Eq(c, n)
  <2>1. Nat \subseteq S
    <3> HIDE DEF S
    <3> QED
      BY <1>3, <1>4, Inherited
  <2>2. n \in S /\ n <= n
    <3> HIDE DEF S, n
    <3> QED
      BY <1>1, <2>1
  <2> HIDE DEF Eq, n
  <2> QED
    BY <2>2
<1> DEFINE from == CHOOSE c : Eq(c, n)
<1>6. \A i : ChainFrom(f, i) = from[i]
  BY DEF ChainFrom
<1>7. Eq(from, n)
  BY <1>5
<1> HIDE DEF from
<1>8. from[0] = {} /\ \A i \in 1..n : from[i] = {i} \union from[f[i].prev]
  <2>1. \A j \in 0..n : from[j] = IF j = 0 THEN {} ELSE {j} \union from[f[j].prev]
    BY <1>7
  <2>2. 0 \in 0..n /\ \A i \in 1..n : i \in 0..n /\ i # 0
    BY <1>1
  <2> QED
    BY <2>1, <2>2
<1> QED
  BY <1>6, <1>8

\* Every chain begins where it was asked to and ends at the document.
LEMMA ChainShape ==
  ASSUME NEW f, Chained(f)
  PROVE  \A i \in 1..Len(f) : ChainFrom(f, i) \subseteq 1..i /\ {1, i} \subseteq ChainFrom(f, i)
<1> DEFINE n == Len(f)
           Good(i) == ChainFrom(f, i) \subseteq 1..i /\ {1, i} \subseteq ChainFrom(f, i)
           S == {m \in Nat : \A i \in 1..n : i <= m => Good(i)}
<1>1. n \in Nat
  BY SeqIs DEF Chained
<1>2. 0 \in S
  BY <1>1
<1>3. ASSUME NEW m \in Nat, m \in S PROVE m + 1 \in S
  <2> SUFFICES ASSUME m + 1 \in 1..n PROVE Good(m + 1)
    BY <1>1, <1>3
  <2> DEFINE k == m + 1
  <2>1. ChainFrom(f, k) = {k} \union ChainFrom(f, f[k].prev)
    BY ChainIs
  <2>2. CASE k = 1
    <3>1. f[k].prev = 0
      BY <2>2 DEF Chained
    <3>2. ChainFrom(f, k) = {1}
      BY <2>1, <2>2, <3>1, ChainIs
    <3> QED
      BY <2>2, <3>2
  <2>3. CASE k # 1
    <3>1. k \in 2..n
      BY <2>3
    <3>2. f[k].prev \in 1..k - 1
      BY <3>1 DEF Chained
    <3>3. f[k].prev \in 1..n /\ f[k].prev <= m
      BY <1>1, <3>2
    <3>4. Good(f[k].prev)
      BY <1>3, <3>3
    <3>5. 1..f[k].prev \subseteq 1..k
      BY <3>3
    <3> QED
      BY <2>1, <3>4, <3>5
  <2> QED
    BY <2>2, <2>3
<1>4. Nat \subseteq S
  <2> HIDE DEF S
  <2> QED
    BY <1>2, <1>3, Inherited
<1> QED
  BY <1>1, <1>4

\* Where every section points to the one before it, none is skipped.
LEMMA ChainLinked ==
  ASSUME NEW f, Chained(f), Linked(f)
  PROVE  \A i \in 1..Len(f) : ChainFrom(f, i) = 1..i
<1> DEFINE n == Len(f)
           S == {m \in Nat : m <= n => ChainFrom(f, m) = 1..m}
<1>1. n \in Nat
  BY SeqIs DEF Chained
<1>2. 0 \in S
  BY ChainIs
<1>3. ASSUME NEW m \in Nat, m \in S PROVE m + 1 \in S
  <2> SUFFICES ASSUME m + 1 <= n PROVE ChainFrom(f, m + 1) = 1..m + 1
    OBVIOUS
  <2>1. m + 1 \in 1..n /\ m <= n
    BY <1>1
  <2>2. f[m + 1].prev = m
    <3>1. m + 1 = 1 \/ m + 1 \in 2..n
      BY <2>1
    <3> QED
      BY <3>1 DEF Chained, Linked
  <2>3. ChainFrom(f, m + 1) = {m + 1} \union 1..m
    BY <1>3, <2>1, <2>2, ChainIs
  <2>4. {m + 1} \union 1..m = 1..m + 1
    OBVIOUS
  <2> QED
    BY <2>3, <2>4
<1>4. Nat \subseteq S
  <2> HIDE DEF S
  <2> QED
    BY <1>2, <1>3, Inherited
<1> QED
  BY <1>1, <1>4

LEMMA EntryIs ==
  ASSUME NEW p, IsSeq(p.objs), NEW n, Written(p, n) # {}
  PROVE  \E m \in DOMAIN p.objs : p.objs[m][1] = n /\ Entry(p, n) = p.objs[m][2]
<1>1. DOMAIN p.objs \subseteq Nat
  BY SeqIs
<1>2. Written(p, n) \subseteq Nat
  BY <1>1 DEF Written
<1>3. Min(Written(p, n)) \in Written(p, n)
  BY <1>2, MinIsLeast
<1> QED
  BY <1>3 DEF Entry, Written

Holders(f, n) == {i \in ChainFrom(f, Len(f)) : Registered(f, i, n)}

Missing == [kind |-> "missing"]

\* What a number leads to: nothing, or an entry of a part that registers it.
LEMMA ResolveIs ==
  ASSUME NEW f, Chained(f), NEW n
  PROVE  /\ Holders(f, n) \subseteq 1..Len(f)
         /\ Holders(f, n) = {} => Resolve(f, n) = Missing
         /\ Holders(f, n) # {} =>
              \E k \in Holders(f, n) :
                /\ \A i \in Holders(f, n) : i <= k
                /\ Resolve(f, n) = Entry(f[k], n)
<1> DEFINE H == Holders(f, n)
<1>1. Len(f) \in Nat /\ Len(f) \in 1..Len(f)
  BY SeqIs DEF Chained
<1>2. H \subseteq 1..Len(f)
  BY <1>1, ChainShape DEF Holders
<1>3. Resolve(f, n) = IF H = {} THEN Missing ELSE Entry(f[Max(H)], n)
  BY DEF Resolve, Holders, Missing
<1>4. H # {} => Max(H) \in H /\ \A i \in H : i <= Max(H)
  <2>1. H \subseteq 0..Len(f)
    BY <1>1, <1>2
  <2> HIDE DEF H
  <2> QED
    BY <1>1, <2>1, MaxIsGreatest
<1> HIDE DEF H
<1> QED
  BY <1>2, <1>3, <1>4 DEF H

LEMMA ResolveFinds ==
  ASSUME NEW f, Chained(f), NEW n
  PROVE  \/ Resolve(f, n) = Missing /\ n \notin Numbers(f[1])
         \/ \E k \in 1..Len(f) : \E m \in DOMAIN f[k].objs :
              f[k].objs[m][1] = n /\ Resolve(f, n) = f[k].objs[m][2]
<1>1. Len(f) \in 1..Len(f) /\ 1 \in ChainFrom(f, Len(f))
  <2>1. Len(f) \in 1..Len(f)
    BY SeqIs DEF Chained
  <2> QED
    BY <2>1, ChainShape
<1>2. n \in Numbers(f[1]) => 1 \in Holders(f, n)
  BY <1>1 DEF Holders, Registered, Written, Numbers
<1>3. CASE Holders(f, n) = {}
  BY <1>2, <1>3, ResolveIs
<1>4. CASE Holders(f, n) # {}
  <2>1. PICK k \in Holders(f, n) : Resolve(f, n) = Entry(f[k], n)
    BY <1>4, ResolveIs
  <2>2. k \in 1..Len(f) /\ Written(f[k], n) # {} /\ IsSeq(f[k].objs)
    BY <2>1, ResolveIs DEF Holders, Registered, Chained
  <2> QED
    BY <2>1, <2>2, EntryIs
<1> QED
  BY <1>3, <1>4

\* One more part, linked to those before: what it registers is read from it.
LEMMA ResolveStep ==
  ASSUME NEW f, NEW g, Chained(f), Chained(g), Linked(f), Linked(g),
         Len(g) = Len(f) + 1, \A i \in 1..Len(f) : g[i] = f[i],
         NEW n
  PROVE  Resolve(g, n) = IF Registered(g, Len(g), n) THEN Entry(g[Len(g)], n) ELSE Resolve(f, n)
<1> DEFINE k == Len(f)
<1>1. k \in Nat \ {0} /\ Len(g) = k + 1
  BY SeqIs DEF Chained
<1>2. ChainFrom(f, k) = 1..k /\ ChainFrom(g, k + 1) = 1..k + 1
  <2>1. k \in 1..Len(f) /\ k + 1 \in 1..Len(g)
    BY <1>1
  <2> QED
    BY <2>1, ChainLinked
<1>3. \A i \in 1..k : Registered(g, i, n) = Registered(f, i, n)
  <2>1. 1 \in 1..k
    BY <1>1
  <2> QED
    BY <2>1 DEF Registered
<1>4. 1..k + 1 = 1..k \union {k + 1} /\ k + 1 \notin 1..k
  BY <1>1
<1>5. CASE Registered(g, k + 1, n)
  <2>1. k + 1 \in Holders(g, n)
    BY <1>1, <1>2, <1>4, <1>5 DEF Holders
  <2>2. PICK j \in Holders(g, n) : (\A i \in Holders(g, n) : i <= j) /\ Resolve(g, n) = Entry(g[j], n)
    BY <2>1, ResolveIs
  <2>3. j \in 1..k + 1 /\ k + 1 <= j
    BY <1>1, <2>1, <2>2, ResolveIs
  <2>4. j = k + 1
    BY <1>1, <2>3
  <2> QED
    BY <1>1, <1>5, <2>2, <2>4
<1>6. CASE ~Registered(g, k + 1, n)
  <2>1. Holders(g, n) = Holders(f, n)
    BY <1>1, <1>2, <1>3, <1>4, <1>6 DEF Holders
  <2>2. CASE Holders(f, n) = {}
    <3>1. Resolve(f, n) = Missing /\ Resolve(g, n) = Missing
      BY <2>1, <2>2, ResolveIs
    <3> QED
      BY <1>1, <1>6, <3>1
  <2>3. CASE Holders(f, n) # {}
    <3>1. PICK i \in Holders(f, n) : (\A h \in Holders(f, n) : h <= i) /\ Resolve(f, n) = Entry(f[i], n)
      BY <2>3, ResolveIs
    <3>2. PICK j \in Holders(g, n) : (\A h \in Holders(g, n) : h <= j) /\ Resolve(g, n) = Entry(g[j], n)
      BY <2>1, <2>3, ResolveIs
    <3>3. i \in 1..k /\ j \in 1..k
      BY <2>1, <3>1, <3>2, ResolveIs
    <3>4. i = j /\ f[i] = g[i]
      BY <1>1, <2>1, <3>1, <3>2, <3>3
    <3> QED
      BY <1>1, <1>6, <3>1, <3>2, <3>4
  <2> QED
    BY <2>2, <2>3
<1> QED
  BY <1>1, <1>5, <1>6

---------------------------------------------------------------------------
(***************************************************************************)
(* What is true of every file, however short its updates are: the parts    *)
(* have the shape that write_incremental_for_signing gives them, and what  *)
(* is neither the catalog, the page nor a field has a number that the      *)
(* document did not use.                                                   *)
(***************************************************************************)
PartFields == {"objs", "kind", "aged", "fields", "prev", "size", "end"}

Fresh == {"form", "note", "widget", "sig", "appearance"}

IsObject(o) ==
  /\ o.kind \in {"catalog", "page", "field"} \union Fresh
  /\ o.kind = "catalog" => o = [kind |-> "catalog", form |-> o.form, fields |-> o.fields]
  /\ o.kind = "page" => IsSeq(o.annots)
  /\ o.kind = "sig" => /\ o = [kind |-> "sig", covers |-> o.covers, permits |-> o.permits]
                       /\ o.permits \in Permissions \union {0}

\* An object with its number, in the role that the number has in document b.
IsEntry(e, b) ==
  /\ e = <<e[1], e[2]>> /\ e[1] \in Nat
  /\ IsObject(e[2])
  /\ e[2].kind = "catalog" <=> e[1] = Root
  /\ e[2].kind = "page" <=> e[1] = Page
  /\ e[2].kind = "field" <=> e[1] \in b.fields
  /\ e[2].kind \in Fresh => e[1] >= b.size

Listing(q, b) == IsSeq(q) /\ \A j \in 1..Len(q) : IsEntry(q[j], b)

IsUpdate(p, b) ==
  /\ p = [x \in PartFields |-> p[x]]
  /\ p.kind = "table" /\ p.aged = {} /\ p.fields = {}
  /\ p.size \in Nat /\ p.size >= b.size
  /\ p.end \in Nat
  /\ Listing(p.objs, b)

IsFile(f) ==
  /\ IsSeq(f) /\ Len(f) # 0
  /\ f[1] \in Bases
  /\ \A i \in 2..Len(f) : f[i].prev \in 1..i - 1 /\ IsUpdate(f[i], f[1])
  /\ \A i, k \in 1..Len(f) : i < k => f[i].end < f[k].end

LEMMA BaseIs ==
  ASSUME NEW b \in Bases
  PROVE  /\ IsSeq(b.objs) /\ b.prev = 0 /\ b.size \in Nat /\ b.end \in Nat
         /\ b.fields \subseteq Nat /\ \A n \in b.fields : n < b.size
         /\ Root < b.size /\ Page < b.size
         /\ Root \notin b.fields /\ Page \notin b.fields
         /\ \A j \in DOMAIN b.objs :
              /\ b.objs[j][1] \in Nat /\ b.objs[j][1] < b.size
              /\ IsObject(b.objs[j][2])
              /\ b.objs[j][2].kind = "catalog" <=> b.objs[j][1] = Root
              /\ b.objs[j][2].kind = "page" <=> b.objs[j][1] = Page
              /\ b.objs[j][2].kind = "field" <=> b.objs[j][1] \in b.fields
              /\ b.objs[j][2].kind \notin {"sig", "widget", "appearance"}
         /\ {Root, Page} \union b.fields \subseteq Numbers(b)
<1>1. WellMade(b)
  BY BasesAssumption
<1>2. IsSeq(b.objs) /\ b.prev = 0 /\ b.size \in Nat /\ b.end \in Nat
      /\ {Root, Page} \union b.fields \subseteq Numbers(b)
  BY <1>1 DEF WellMade, IsSeq
<1>3. ASSUME NEW j \in DOMAIN b.objs
      PROVE  /\ b.objs[j][1] \in Nat /\ b.objs[j][1] < b.size
             /\ b.objs[j][2].kind \in {"catalog", "page", "form", "field", "note"}
             /\ b.objs[j][2].kind = "catalog" <=> b.objs[j][1] = Root
             /\ b.objs[j][2].kind = "page" <=> b.objs[j][1] = Page
             /\ b.objs[j][2].kind = "field" <=> b.objs[j][1] \in b.fields
             /\ b.objs[j][1] = Root =>
                  b.objs[j][2] \in [kind : {"catalog"}, form : Nat, fields : Seq(b.fields)]
             /\ b.objs[j][1] = Page => IsSeq(b.objs[j][2].annots)
  <2>1. b.objs \in Seq(Nat \X {b.objs[i][2] : i \in DOMAIN b.objs})
    BY <1>1 DEF WellMade
  <2>2. b.objs[j] \in Nat \X {b.objs[i][2] : i \in DOMAIN b.objs}
    BY <2>1
  <2>3. b.objs[j][1] \in Nat
    BY <2>2
  <2> QED
    BY <1>1, <2>3 DEF WellMade, IsSeq
<1>4. ASSUME NEW j \in DOMAIN b.objs PROVE IsObject(b.objs[j][2])
  <2> DEFINE o == b.objs[j][2]
  <2>1. o.kind = "catalog" => o = [kind |-> "catalog", form |-> o.form, fields |-> o.fields]
    BY <1>3
  <2> QED
    BY <1>3, <2>1 DEF IsObject, Fresh
<1>5. \A n \in Numbers(b) : \E j \in DOMAIN b.objs : n = b.objs[j][1]
  BY DEF Numbers
<1>6. \A n \in Numbers(b) : n \in Nat /\ n < b.size
  BY <1>3, <1>5
<1>7. Root \notin b.fields /\ Page \notin b.fields
  <2>1. ASSUME NEW n \in b.fields PROVE n # Root /\ n # Page
    <3>1. PICK j \in DOMAIN b.objs : n = b.objs[j][1]
      BY <1>2, <1>5
    <3>2. b.objs[j][2].kind = "field"
      BY <1>3, <3>1
    <3> QED
      BY <1>3, <3>1, <3>2
  <2> QED
    BY <2>1
<1> QED
  BY <1>2, <1>3, <1>4, <1>6, <1>7

LEMMA FileIsChained ==
  ASSUME NEW f, IsFile(f)
  PROVE  /\ Chained(f) /\ Len(f) \in Nat \ {0} /\ DOMAIN f = 1..Len(f)
         /\ \A i \in 1..Len(f) : i = 1 \/ i \in 2..Len(f)
<1>1. Len(f) \in Nat \ {0} /\ DOMAIN f = 1..Len(f)
  BY SeqIs DEF IsFile
<1>2. \A i \in 1..Len(f) : i = 1 \/ i \in 2..Len(f)
  BY <1>1
<1>3. f[1].prev = 0 /\ IsSeq(f[1].objs)
  BY BaseIs DEF IsFile
<1>4. \A i \in 2..Len(f) : IsSeq(f[i].objs)
  BY DEF IsFile, IsUpdate, Listing, IsEntry
<1> QED
  BY <1>1, <1>2, <1>3, <1>4 DEF IsFile, Chained

\* The roles, in any part.
LEMMA Roles ==
  ASSUME NEW f, IsFile(f), NEW i \in 1..Len(f), NEW j \in DOMAIN f[i].objs
  PROVE  LET n == f[i].objs[j][1]
             o == f[i].objs[j][2]
         IN /\ n \in Nat /\ IsObject(o)
            /\ o.kind = "catalog" <=> n = Root
            /\ o.kind = "page" <=> n = Page
            /\ o.kind = "field" <=> n \in f[1].fields
            /\ i # 1 /\ o.kind \in Fresh => n >= f[1].size
            /\ i = 1 => n < f[1].size /\ o.kind \notin {"sig", "widget", "appearance"}
<1>1. CASE i = 1
  <2>1. f[1] \in Bases
    BY DEF IsFile
  <2> QED
    BY <1>1, <2>1, BaseIs
<1>2. CASE i \in 2..Len(f)
  <2>1. Listing(f[i].objs, f[1])
    BY <1>2 DEF IsFile, IsUpdate
  <2>2. j \in 1..Len(f[i].objs)
    BY <2>1, SeqIs DEF Listing, IsEntry
  <2> QED
    BY <1>2, <2>1, <2>2 DEF Listing, IsEntry
<1> QED
  BY <1>1, <1>2, FileIsChained

\* The catalog and the page of a file.
LEMMA RootAndPage ==
  ASSUME NEW f, IsFile(f)
  PROVE  /\ Catalog(f).kind = "catalog" /\ IsObject(Catalog(f))
         /\ Resolve(f, Page).kind = "page" /\ IsSeq(Annots(f))
<1>1. Chained(f) /\ f[1] \in Bases
  BY FileIsChained DEF IsFile
<1>2. Root \in Numbers(f[1]) /\ Page \in Numbers(f[1])
  BY <1>1, BaseIs
<1>3. PICK k \in 1..Len(f) : \E m \in DOMAIN f[k].objs :
         f[k].objs[m][1] = Root /\ Resolve(f, Root) = f[k].objs[m][2]
  <2>1. \/ Resolve(f, Root) = Missing /\ Root \notin Numbers(f[1])
        \/ \E k \in 1..Len(f) : \E m \in DOMAIN f[k].objs :
             f[k].objs[m][1] = Root /\ Resolve(f, Root) = f[k].objs[m][2]
    BY <1>1, ResolveFinds
  <2> QED
    BY <1>2, <2>1
<1>4. PICK h \in 1..Len(f) : \E m \in DOMAIN f[h].objs :
         f[h].objs[m][1] = Page /\ Resolve(f, Page) = f[h].objs[m][2]
  <2>1. \/ Resolve(f, Page) = Missing /\ Page \notin Numbers(f[1])
        \/ \E h \in 1..Len(f) : \E m \in DOMAIN f[h].objs :
             f[h].objs[m][1] = Page /\ Resolve(f, Page) = f[h].objs[m][2]
    BY <1>1, ResolveFinds
  <2> QED
    BY <1>2, <2>1
<1>5. Catalog(f).kind = "catalog" /\ IsObject(Catalog(f))
  BY <1>3, Roles DEF Catalog
<1>6. Resolve(f, Page).kind = "page" /\ IsObject(Resolve(f, Page))
  BY <1>4, Roles
<1> QED
  BY <1>5, <1>6 DEF IsObject, Annots

---------------------------------------------------------------------------
(* Filling in a signature. *)

Hole(c, P) == [kind |-> "sig", covers |-> c, permits |-> P]

\* The last part with the contents c in its object j.
Filled(p, j, c) ==
  [x \in PartFields |->
     IF x = "objs"
       THEN [k \in 1..Len(p.objs) |->
               IF k = j THEN <<p.objs[j][1], Hole(c, p.objs[j][2].permits)>> ELSE p.objs[k]]
       ELSE p[x]]

Fillable(f, j) ==
  /\ IsFile(f) /\ Len(f) >= 2
  /\ j \in DOMAIN f[Len(f)].objs
  /\ f[Len(f)].objs[j][2].kind = "sig"

LEMMA FillIs ==
  ASSUME NEW f, NEW j, NEW c, Fillable(f, j)
  PROVE  Fill(f, j, c) = [i \in 1..Len(f) |-> IF i = Len(f) THEN Filled(f[i], j, c) ELSE f[i]]
<1> DEFINE n == Len(f)
           p == f[n]
           q == p.objs
           e == q[j]
           o == e[2]
<1>1. n \in Nat /\ n \in 2..n /\ f = [i \in 1..n |-> f[i]]
  BY SeqIs DEF Fillable, IsFile
<1>2. IsUpdate(p, f[1])
  BY <1>1 DEF Fillable, IsFile
<1>3. /\ p = [x \in PartFields |-> p[x]]
      /\ q = [k \in 1..Len(q) |-> q[k]] /\ j \in 1..Len(q)
      /\ e = <<e[1], e[2]>>
      /\ o = Hole(o.covers, o.permits)
  BY <1>2, SeqIs DEF IsUpdate, Listing, IsEntry, Fillable, IsObject, Hole
<1>4. [o EXCEPT !.covers = c] = Hole(c, o.permits)
  <2>1. ASSUME NEW d, NEW P PROVE [Hole(d, P) EXCEPT !.covers = c] = Hole(c, P)
    BY DEF Hole
  <2> HIDE DEF o
  <2>2. [Hole(o.covers, o.permits) EXCEPT !.covers = c] = Hole(c, o.permits)
    BY <2>1
  <2> QED
    BY <1>3, <2>2
<1>5. [e EXCEPT ![2] = [o EXCEPT !.covers = c]] = <<e[1], Hole(c, o.permits)>>
  <2>1. ASSUME NEW a, NEW b, NEW d PROVE [<<a, b>> EXCEPT ![2] = d] = <<a, d>>
    OBVIOUS
  <2>2. e = <<e[1], e[2]>>
    BY <1>3
  <2> HIDE DEF e
  <2>3. [<<e[1], e[2]>> EXCEPT ![2] = Hole(c, o.permits)] = <<e[1], Hole(c, o.permits)>>
    BY <2>1
  <2> QED
    BY <1>4, <2>2, <2>3
<1>6. Fill(f, j, c) =
        [f EXCEPT ![n] = [p EXCEPT !.objs = [q EXCEPT ![j] = <<e[1], Hole(c, o.permits)>>]]]
  BY <1>5 DEF Fill
<1> DEFINE r == [k \in 1..Len(q) |-> IF k = j THEN <<e[1], Hole(c, o.permits)>> ELSE q[k]]
<1>7. [q EXCEPT ![j] = <<e[1], Hole(c, o.permits)>>] = r
  <2> HIDE DEF q, e, o
  <2> QED
    BY <1>3
<1>8. [p EXCEPT !.objs = r] = Filled(p, j, c)
  <2>1. Filled(p, j, c) = [x \in PartFields |-> IF x = "objs" THEN r ELSE p[x]]
    BY DEF Filled
  <2> HIDE DEF p, r
  <2> QED
    BY <1>3, <2>1
<1>9. [f EXCEPT ![n] = Filled(p, j, c)] = [i \in 1..n |-> IF i = n THEN Filled(f[i], j, c) ELSE f[i]]
  BY <1>1
<1> QED
  BY <1>6, <1>7, <1>8, <1>9

FilledIn(f, g, j, c) ==
  LET n == Len(f) IN
  /\ IsSeq(g) /\ Len(g) = n
  /\ \A i \in 1..n : i # n => g[i] = f[i]
  /\ g[n] = Filled(f[n], j, c)
  /\ g[n] = [x \in PartFields |-> g[n][x]]
  /\ \A x \in PartFields : x # "objs" => g[n][x] = f[n][x]
  /\ IsSeq(g[n].objs) /\ Len(g[n].objs) = Len(f[n].objs)
  /\ g[n].objs[j] = <<f[n].objs[j][1], Hole(c, f[n].objs[j][2].permits)>>
  /\ \A k \in 1..Len(f[n].objs) : k # j => g[n].objs[k] = f[n].objs[k]

LEMMA FillFacts ==
  ASSUME NEW f, NEW j, NEW c, Fillable(f, j)
  PROVE  FilledIn(f, Fill(f, j, c), j, c)
<1> DEFINE n == Len(f)
           g == Fill(f, j, c)
           q == f[n].objs
           r == [k \in 1..Len(q) |->
                   IF k = j THEN <<q[j][1], Hole(c, q[j][2].permits)>> ELSE q[k]]
<1>1. n \in Nat /\ n \in 2..n
  BY SeqIs DEF Fillable, IsFile
<1>2. g = [i \in 1..n |-> IF i = n THEN Filled(f[i], j, c) ELSE f[i]]
  BY FillIs
<1>3. IsSeq(g) /\ Len(g) = n
  <2>1. g = [i \in 1..n |-> g[i]]
    BY <1>2
  <2> HIDE DEF g
  <2> QED
    BY <1>1, <2>1, SeqFrom
<1>4. g[n] = Filled(f[n], j, c) /\ \A i \in 1..n : i # n => g[i] = f[i]
  <2> HIDE DEF g
  <2> QED
    BY <1>1, <1>2
<1>5. Filled(f[n], j, c) = [x \in PartFields |-> IF x = "objs" THEN r ELSE f[n][x]]
  BY DEF Filled
<1>6. "objs" \in PartFields
  BY DEF PartFields
<1>7. IsSeq(q) /\ Len(q) \in Nat /\ j \in 1..Len(q)
  BY <1>1, SeqIs DEF Fillable, IsFile, IsUpdate, Listing, IsEntry
<1>8. IsSeq(r) /\ Len(r) = Len(q)
  <2>1. r = [k \in 1..Len(q) |-> r[k]]
    OBVIOUS
  <2> HIDE DEF r, q
  <2> QED
    BY <1>7, <2>1, SeqFrom
<1>9. r[j] = <<q[j][1], Hole(c, q[j][2].permits)>> /\ \A k \in 1..Len(q) : k # j => r[k] = q[k]
  BY <1>7
<1> HIDE DEF g, r
<1>10. g[n] = [x \in PartFields |-> g[n][x]] /\ g[n].objs = r
       /\ \A x \in PartFields : x # "objs" => g[n][x] = f[n][x]
  BY <1>4, <1>5, <1>6
<1> QED
  BY <1>3, <1>4, <1>8, <1>9, <1>10 DEF g, FilledIn

\* A file stays a file.
LEMMA FillKeepsFile ==
  ASSUME NEW f, NEW j, NEW c, Fillable(f, j)
  PROVE  IsFile(Fill(f, j, c))
<1> DEFINE g == Fill(f, j, c)
           n == Len(f)
<1>1. /\ IsSeq(g) /\ Len(g) = n
      /\ \A i \in 1..n : i # n => g[i] = f[i]
      /\ g[n] = [x \in PartFields |-> g[n][x]]
      /\ \A x \in PartFields : x # "objs" => g[n][x] = f[n][x]
      /\ IsSeq(g[n].objs) /\ Len(g[n].objs) = Len(f[n].objs)
      /\ g[n].objs[j] = <<f[n].objs[j][1], Hole(c, f[n].objs[j][2].permits)>>
      /\ \A k \in 1..Len(f[n].objs) : k # j => g[n].objs[k] = f[n].objs[k]
  <2>1. FilledIn(f, g, j, c)
    BY FillFacts
  <2> HIDE DEF g
  <2> QED
    BY <2>1 DEF FilledIn
<1> HIDE DEF g
<1>2. n \in Nat /\ n \in 2..n /\ 1 \in 1..n /\ 1 # n /\ \A i \in 2..n : i \in 1..n
  BY SeqIs DEF Fillable, IsFile
<1>3. g[n].kind = f[n].kind /\ g[n].aged = f[n].aged /\ g[n].fields = f[n].fields
      /\ g[n].prev = f[n].prev /\ g[n].size = f[n].size /\ g[n].end = f[n].end
  BY <1>1 DEF PartFields
<1>4. IsUpdate(f[n], f[1])
  BY <1>2 DEF Fillable, IsFile
<1>5. Listing(g[n].objs, f[1])
  <2>1. /\ Listing(f[n].objs, f[1]) /\ j \in 1..Len(f[n].objs)
        /\ f[n].objs[j][2].kind = "sig" /\ f[n].objs[j][2].permits \in Permissions \union {0}
    BY <1>4, SeqIs DEF Fillable, IsUpdate, Listing, IsEntry, IsObject
  <2> DEFINE h == Hole(c, f[n].objs[j][2].permits)
  <2>2. IsObject(h) /\ h.kind = "sig"
    BY <2>1 DEF Hole, IsObject, Fresh
  <2>3. /\ g[n].objs[j][1] = f[n].objs[j][1] /\ g[n].objs[j][2] = h
        /\ g[n].objs[j] = <<g[n].objs[j][1], g[n].objs[j][2]>>
    <3>1. ASSUME NEW a, NEW e PROVE <<a, e>>[1] = a /\ <<a, e>>[2] = e
      OBVIOUS
    <3>2. g[n].objs[j] = <<f[n].objs[j][1], h>>
      BY <1>1
    <3> HIDE DEF h
    <3> QED
      BY <3>1, <3>2
  <2> HIDE DEF h
  <2>4. ASSUME NEW k \in 1..Len(g[n].objs)
        PROVE  /\ g[n].objs[k] = <<g[n].objs[k][1], g[n].objs[k][2]>>
               /\ g[n].objs[k][1] = f[n].objs[k][1]
               /\ g[n].objs[k][2].kind = f[n].objs[k][2].kind
               /\ IsObject(g[n].objs[k][2])
    <3>1. CASE k = j
      BY <2>1, <2>2, <2>3, <3>1
    <3>2. CASE k # j
      <4>1. k \in 1..Len(f[n].objs) /\ g[n].objs[k] = f[n].objs[k]
        BY <1>1, <3>2
      <4>2. f[n].objs[k] = <<f[n].objs[k][1], f[n].objs[k][2]>> /\ IsObject(f[n].objs[k][2])
        BY <2>1, <4>1 DEF Listing, IsEntry
      <4> QED
        BY <4>1, <4>2
    <3> QED
      BY <3>1, <3>2
  <2>5. ASSUME NEW k \in 1..Len(g[n].objs)
        PROVE  /\ g[n].objs[k][1] \in Nat
               /\ g[n].objs[k][2].kind = "catalog" <=> g[n].objs[k][1] = Root
               /\ g[n].objs[k][2].kind = "page" <=> g[n].objs[k][1] = Page
               /\ g[n].objs[k][2].kind = "field" <=> g[n].objs[k][1] \in f[1].fields
               /\ g[n].objs[k][2].kind \in Fresh => g[n].objs[k][1] >= f[1].size
    <3>1. k \in 1..Len(f[n].objs)
      BY <1>1
    <3> QED
      BY <2>1, <2>4, <3>1 DEF Listing, IsEntry
  <2>6. IsSeq(g[n].objs)
    BY <1>1
  <2> QED
    BY <2>4, <2>5, <2>6 DEF Listing, IsEntry
<1>6. IsUpdate(g[n], f[1])
  BY <1>1, <1>3, <1>4, <1>5 DEF IsUpdate
<1>7. g[1] = f[1]
  BY <1>1, <1>2
<1>8. \A i \in 1..n : g[i].end = f[i].end /\ g[i].prev = f[i].prev
  BY <1>1, <1>3
<1> QED
  BY <1>1, <1>2, <1>6, <1>7, <1>8 DEF Fillable, IsFile, g

\* What was filled in is forgotten when the hole is filled again, and filling it with
\* what it holds changes nothing.
LEMMA FillAgain ==
  ASSUME NEW f, NEW j, NEW c, NEW d, Fillable(f, j)
  PROVE  /\ Fillable(Fill(f, j, c), j)
         /\ Fill(Fill(f, j, c), j, d) = Fill(f, j, d)
         /\ Fill(f, j, f[Len(f)].objs[j][2].covers) = f
<1> DEFINE g == Fill(f, j, c)
           h == Fill(f, j, d)
           same == Fill(f, j, f[Len(f)].objs[j][2].covers)
           n == Len(f)
           q == f[n].objs
<1>1. n \in Nat /\ n \in 2..n /\ n >= 2 /\ IsSeq(f) /\ f = [i \in 1..n |-> f[i]]
  BY SeqIs DEF Fillable, IsFile
<1>2. /\ f[n] = [x \in PartFields |-> f[n][x]] /\ IsSeq(q) /\ j \in 1..Len(q)
      /\ q = [k \in 1..Len(q) |-> q[k]]
      /\ q[j] = <<q[j][1], q[j][2]>> /\ q[j][2] = Hole(q[j][2].covers, q[j][2].permits)
  <2>1. IsUpdate(f[n], f[1]) /\ j \in DOMAIN q /\ q[j][2].kind = "sig"
    BY <1>1 DEF Fillable, IsFile
  <2>2. Listing(q, f[1]) /\ f[n] = [x \in PartFields |-> f[n][x]]
    BY <2>1 DEF IsUpdate
  <2>3. IsSeq(q)
    BY <2>2 DEF Listing, IsEntry
  <2>4. q = [k \in 1..Len(q) |-> q[k]] /\ j \in 1..Len(q)
    BY <2>1, <2>3, SeqIs
  <2>5. q[j] = <<q[j][1], q[j][2]>> /\ q[j][2] = Hole(q[j][2].covers, q[j][2].permits)
    BY <2>1, <2>2, <2>4 DEF Listing, IsEntry, IsObject, Hole
  <2> QED
    BY <2>2, <2>3, <2>4, <2>5
<1> HIDE DEF h, same
<1>3. /\ IsSeq(g) /\ Len(g) = n
      /\ \A i \in 1..n : i # n => g[i] = f[i]
      /\ IsSeq(g[n].objs) /\ Len(g[n].objs) = Len(q)
      /\ \A x \in PartFields : x # "objs" => g[n][x] = f[n][x]
      /\ g[n].objs[j] = <<q[j][1], Hole(c, q[j][2].permits)>>
      /\ \A k \in 1..Len(q) : k # j => g[n].objs[k] = q[k]
  <2>1. FilledIn(f, g, j, c)
    BY FillFacts
  <2> HIDE DEF g
  <2> QED
    BY <2>1 DEF FilledIn
<1>4. Fillable(g, j)
  <2>1. IsFile(g)
    BY FillKeepsFile
  <2> HIDE DEF g
  <2>2. j \in DOMAIN g[n].objs
    BY <1>2, <1>3, SeqIs
  <2>3. g[n].objs[j][2] = Hole(c, q[j][2].permits)
    <3>1. ASSUME NEW a, NEW e PROVE <<a, e>>[2] = e
      OBVIOUS
    <3> QED
      BY <1>3, <3>1
  <2>4. g[n].objs[j][2].kind = "sig"
    BY <2>3 DEF Hole
  <2> QED
    BY <1>1, <1>3, <2>1, <2>2, <2>4 DEF Fillable
<1>5. Fill(g, j, d) = h
  <2>1. Filled(g[n], j, d) = Filled(f[n], j, d)
    <3>1. g[n].objs[j][1] = q[j][1] /\ g[n].objs[j][2].permits = q[j][2].permits
      BY <1>3 DEF Hole
    <3> HIDE DEF g
    <3>2. [k \in 1..Len(g[n].objs) |->
             IF k = j THEN <<g[n].objs[j][1], Hole(d, g[n].objs[j][2].permits)>> ELSE g[n].objs[k]]
          = [k \in 1..Len(q) |->
             IF k = j THEN <<q[j][1], Hole(d, q[j][2].permits)>> ELSE q[k]]
      BY <1>3, <3>1
    <3> QED
      BY <1>3, <3>2 DEF Filled
  <2>2. Fill(g, j, d) = [i \in 1..n |-> IF i = n THEN Filled(g[i], j, d) ELSE g[i]]
    BY <1>3, <1>4, FillIs
  <2>3. h = [i \in 1..n |-> IF i = n THEN Filled(f[i], j, d) ELSE f[i]]
    BY FillIs DEF h
  <2> HIDE DEF g, h
  <2> QED
    BY <1>3, <2>1, <2>2, <2>3
<1>6. same = f
  <2> DEFINE o == q[j][2]
  <2>1. same = [i \in 1..n |-> IF i = n THEN Filled(f[i], j, o.covers) ELSE f[i]]
    BY FillIs DEF same
  <2>2. Filled(f[n], j, o.covers) = f[n]
    <3>1. [k \in 1..Len(q) |-> IF k = j THEN <<q[j][1], Hole(o.covers, o.permits)>> ELSE q[k]] = q
      <4> HIDE DEF q
      <4> QED
        BY <1>2
    <3>2. Filled(f[n], j, o.covers) = [x \in PartFields |-> IF x = "objs" THEN q ELSE f[n][x]]
      BY <3>1 DEF Filled
    <3>3. [x \in PartFields |-> IF x = "objs" THEN q ELSE f[n][x]] = [x \in PartFields |-> f[n][x]]
      OBVIOUS
    <3> QED
      BY <1>2, <3>2, <3>3
  <2> HIDE DEF same, o
  <2> QED
    BY <1>1, <2>1, <2>2
<1> QED
  BY <1>4, <1>5, <1>6 DEF h, same

---------------------------------------------------------------------------
(***************************************************************************)
(* What is true of a session, whatever was edited: it has the document it  *)
(* loaded, and the numbers it gave are those that the trailer it read left *)
(* free, each to one thing only.                                           *)
(***************************************************************************)
SessionFields == {"base", "shows", "prev", "next", "count", "fields", "annots",
                  "signatures", "form", "writes"}

Low(s) == Trailer(s.base, s.prev).size

Loaded(s) ==
  /\ IsFile(s.base) /\ Len(s.base) < MaxParts
  /\ s.prev = StartSection(s.base)
  /\ s.count = Cardinality(ChainFrom(s.base, s.prev))

Edited(s) ==
  /\ IsSeq(s.fields) /\ \A i \in 1..Len(s.fields) : s.fields[i].object \in s.base[1].fields
  /\ IsSeq(s.annots)
  /\ Len(s.fields) + Len(s.annots) + Len(s.signatures) <= MaxEdits

NumberedBy(low, next, form, signatures) ==
  /\ next \in Nat /\ next >= low
  /\ IsSeq(signatures)
  /\ form = 0 <=> signatures = <<>>
  /\ form # 0 => form \in low..next - 1
  /\ \A i \in 1..Len(signatures) :
       /\ {signatures[i].field, signatures[i].object} \subseteq (low..next - 1) \ {form}
       /\ signatures[i].permits \in Permissions
       /\ \A k \in 1..Len(signatures) : signatures[i].field # signatures[k].object

Numbered(s) == NumberedBy(Low(s), s.next, s.form, s.signatures)

IsSession(s) == s = [x \in SessionFields |-> s[x]] /\ Loaded(s) /\ Edited(s) /\ Numbered(s)

\* find_startxref finds a section of the file, and the size read after it is not less
\* than that of the document.
LEMMA SectionIs ==
  ASSUME NEW f, IsFile(f)
  PROVE  /\ StartSection(f) \in 1..Len(f) /\ InWindow(f, StartSection(f))
         /\ \A i \in 1..Len(f) : InWindow(f, i) => StartSection(f) <= i
<1>1. Len(f) \in Nat \ {0} /\ DOMAIN f = 1..Len(f)
  BY FileIsChained
<1>2. InWindow(f, Len(f))
  <2>1. f[Len(f)].end \in Nat
    <3>1. Len(f) = 1 \/ Len(f) \in 2..Len(f)
      BY <1>1
    <3>2. f[1].end \in Nat
      BY BaseIs DEF IsFile
    <3>3. \A i \in 2..Len(f) : f[i].end \in Nat
      BY DEF IsFile, IsUpdate
    <3> QED
      BY <3>1, <3>2, <3>3
  <2> QED
    BY <2>1, WindowAssumption DEF InWindow
<1> DEFINE S == {i \in DOMAIN f : InWindow(f, i)}
<1>3. S \subseteq Nat /\ S # {}
  BY <1>1, <1>2
<1>4. Min(S) \in S /\ \A y \in S : Min(S) <= y
  <2> HIDE DEF S
  <2> QED
    BY <1>3, MinIsLeast
<1> QED
  BY <1>1, <1>4 DEF StartSection

LEMMA SizeIs ==
  ASSUME NEW f, IsFile(f), NEW i \in 1..Len(f)
  PROVE  /\ f[i].size \in Nat /\ f[i].size >= f[1].size /\ f[i].end \in Nat
         /\ \E k \in i..Len(f) : Trailer(f, i) = f[k]
<1>1. Len(f) \in Nat \ {0}
  BY FileIsChained
<1>2. f[1].size \in Nat /\ f[1].end \in Nat
  BY BaseIs DEF IsFile
<1>3. \A k \in 2..Len(f) : f[k].size \in Nat /\ f[k].size >= f[1].size /\ f[k].end \in Nat
  BY DEF IsFile, IsUpdate
<1>4. i = 1 \/ i \in 2..Len(f)
  BY <1>1
<1> DEFINE tables == {j \in i..Len(f) : f[j].kind = "table"}
<1>5. Trailer(f, i) = IF tables = {} THEN f[i] ELSE f[Min(tables)]
  BY DEF Trailer
<1>6. tables # {} => Min(tables) \in i..Len(f)
  <2>1. tables \subseteq Nat /\ tables \subseteq i..Len(f)
    BY <1>1
  <2> HIDE DEF tables
  <2> QED
    BY <2>1, MinIsLeast
<1>7. i \in i..Len(f)
  BY <1>1
<1> HIDE DEF tables
<1>8. \E k \in i..Len(f) : Trailer(f, i) = f[k]
  BY <1>5, <1>6, <1>7
<1> QED
  BY <1>2, <1>3, <1>4, <1>8

LEMMA LowIs ==
  ASSUME NEW s, IsSession(s)
  PROVE  /\ IsFile(s.base) /\ s.prev \in 1..Len(s.base) /\ s.base[1] \in Bases
         /\ s.base[1].size \in Nat /\ Low(s) \in Nat /\ Low(s) >= s.base[1].size
         /\ s.next \in Nat /\ s.next >= Low(s)
<1>1. IsFile(s.base) /\ s.base[1] \in Bases /\ s.next \in Nat /\ s.next >= Low(s)
  BY DEF IsSession, Loaded, Edited, Numbered, NumberedBy, IsFile
<1>2. s.prev \in 1..Len(s.base)
  BY <1>1, SectionIs DEF IsSession, Loaded, Edited, Numbered, NumberedBy
<1>3. PICK k \in s.prev..Len(s.base) : Trailer(s.base, s.prev) = s.base[k]
  BY <1>1, <1>2, SizeIs
<1>4. k \in 1..Len(s.base) /\ 1 \in 1..Len(s.base)
  BY <1>1, <1>2, FileIsChained
<1>5. s.base[k].size \in Nat /\ s.base[k].size >= s.base[1].size /\ s.base[1].size \in Nat
  BY <1>1, <1>4, SizeIs
<1> QED
  BY <1>1, <1>2, <1>3, <1>5 DEF Low

---------------------------------------------------------------------------
(* The numbers of the annotations. *)

LEMMA AddedIs ==
  ASSUME IsSession(session)
  PROVE  IsSeq(Added) /\ Len(Added) \in Nat
         /\ \A x \in 1..Len(Added) : \E i \in 1..Len(session.annots) :
              session.annots[i].kind = "add" /\ Added[x] = session.annots[i]
<1>1. IsSeq(session.annots)
  BY DEF IsSession, Loaded, Edited, Numbered, NumberedBy
<1>2. DOMAIN session.annots = 1..Len(session.annots)
  BY <1>1, SeqIs
<1> DEFINE S == {i \in DOMAIN session.annots : session.annots[i].kind = "add"}
<1>3. Added = At(session.annots, S)
  BY DEF Added
<1>4. /\ IsSeq(At(session.annots, S))
      /\ \A x \in 1..Len(At(session.annots, S)) :
           \E i \in 1..Len(session.annots) : i \in S /\ At(session.annots, S)[x] = session.annots[i]
  <2> HIDE DEF S
  <2> QED
    BY <1>1, AtHolds
<1>5. IsSeq(Added) /\ Len(Added) \in Nat
  BY <1>3, <1>4, SeqIs
<1> QED
  BY <1>3, <1>4, <1>5

Marked(i) == {j \in 1..(i - 1) : Added[j].markup}

LEMMA MarkedIs ==
  ASSUME NEW i \in Nat \ {0}
  PROVE  /\ Marked(1) = {} /\ Cardinality(Marked(1)) = 0
         /\ IsFiniteSet(Marked(i)) /\ Cardinality(Marked(i)) \in Nat
         /\ Marked(i + 1) = Marked(i) \union {j \in {i} : Added[j].markup}
         /\ i \notin Marked(i)
<1>1. Marked(1) = {}
  BY DEF Marked
<1>2. Cardinality(Marked(1)) = 0
  BY <1>1, FS_EmptySet
<1>3. IsFiniteSet(1..i - 1)
  BY FS_Interval
<1>4. IsFiniteSet(Marked(i))
  BY <1>3, FS_Subset DEF Marked
<1>5. Cardinality(Marked(i)) \in Nat
  BY <1>4, FS_CardinalityType
<1>6. 1..(i + 1) - 1 = (1..i - 1) \union {i} /\ i \notin 1..i - 1
  OBVIOUS
<1>7. Marked(i + 1) = Marked(i) \union {j \in {i} : Added[j].markup}
  BY <1>6 DEF Marked
<1> QED
  BY <1>1, <1>2, <1>4, <1>5, <1>6, <1>7 DEF Marked

\* Each annotation has a number of its own, and one more if it has an appearance.
LEMMA NumberSteps ==
  ASSUME IsSession(session), NEW i \in Nat \ {0}
  PROVE  /\ Number(1) = session.next
         /\ Number(i) \in Nat
         /\ Number(i + 1) = IF Added[i].markup THEN Number(i) + 2 ELSE Number(i) + 1
<1>1. session.next \in Nat
  BY DEF IsSession, Loaded, Edited, Numbered, NumberedBy
<1>2. \A k : Number(k) = session.next + k - 1 + Cardinality(Marked(k))
  BY DEF Number, Marked
<1>3. Cardinality(Marked(1)) = 0 /\ IsFiniteSet(Marked(i)) /\ Cardinality(Marked(i)) \in Nat
      /\ Marked(i + 1) = Marked(i) \union {j \in {i} : Added[j].markup} /\ i \notin Marked(i)
  BY MarkedIs
<1>4. CASE Added[i].markup
  <2>1. Marked(i + 1) = Marked(i) \union {i}
    BY <1>3, <1>4
  <2>2. Cardinality(Marked(i + 1)) = Cardinality(Marked(i)) + 1
    BY <1>3, <2>1, FS_AddElement
  <2> QED
    BY <1>1, <1>2, <1>3, <1>4, <2>2
<1>5. CASE ~Added[i].markup
  <2>1. Marked(i + 1) = Marked(i)
    BY <1>3, <1>5
  <2> QED
    BY <1>1, <1>2, <1>3, <1>5, <2>1
<1> QED
  BY <1>4, <1>5

\* So the numbers rise, from those that the session has not given.
LEMMA NumbersRise ==
  ASSUME IsSession(session)
  PROVE  /\ \A i \in Nat \ {0} : Number(i) \in Nat /\ Number(i) >= session.next
         /\ \A i, k \in Nat \ {0} : i < k => Number(i) < Number(k)
                                       /\ (Added[i].markup => Number(i) + 1 < Number(k))
<1> DEFINE Over(i, k) == Number(i) < Number(k) /\ (Added[i].markup => Number(i) + 1 < Number(k))
           S == {d \in Nat : \A i \in Nat \ {0} : Over(i, i + 1 + d)}
<1>1. session.next \in Nat
  BY DEF IsSession, Loaded, Edited, Numbered, NumberedBy
<1>2. \A i \in Nat \ {0} :
        /\ Number(i) \in Nat
        /\ Number(i + 1) = IF Added[i].markup THEN Number(i) + 2 ELSE Number(i) + 1
  BY NumberSteps
<1>3. 0 \in S
  <2>1. ASSUME NEW i \in Nat \ {0} PROVE Over(i, i + 1 + 0)
    <3>1. i + 1 + 0 = i + 1
      OBVIOUS
    <3> QED
      BY <1>2, <3>1
  <2> QED
    BY <2>1
<1>4. ASSUME NEW d \in Nat, d \in S PROVE d + 1 \in S
  <2>1. ASSUME NEW i \in Nat \ {0} PROVE Over(i, i + 1 + (d + 1))
    <3>1. i + 1 + (d + 1) = (i + 1 + d) + 1 /\ i + 1 + d \in Nat \ {0} /\ i + 1 + d + 1 \in Nat \ {0}
      OBVIOUS
    <3>2. Over(i, i + 1 + d)
      BY <1>4
    <3>3. Number((i + 1 + d) + 1) > Number(i + 1 + d)
      BY <1>2, <3>1
    <3> QED
      BY <1>2, <3>1, <3>2, <3>3
  <2> QED
    BY <2>1
<1>5. Nat \subseteq S
  <2> HIDE DEF S
  <2> QED
    BY <1>3, <1>4, Inherited
<1>6. ASSUME NEW i \in Nat \ {0}, NEW k \in Nat \ {0}, i < k PROVE Over(i, k)
  <2>1. k - i - 1 \in Nat /\ i + 1 + (k - i - 1) = k
    BY <1>6
  <2>2. k - i - 1 \in S
    BY <1>5, <2>1
  <2> QED
    BY <2>1, <2>2
<1>7. ASSUME NEW i \in Nat \ {0} PROVE Number(i) >= session.next
  <2>1. 1 \in Nat \ {0} /\ Number(1) = session.next
    BY NumberSteps
  <2>2. 1 < i => Number(1) < Number(i)
    BY <1>6, <2>1
  <2> QED
    BY <1>1, <1>2, <2>1, <2>2
<1> QED
  BY <1>2, <1>6, <1>7

---------------------------------------------------------------------------
(* What an update holds. *)

FormFields == FieldsOf(session.base) \o Each(session.signatures, LAMBDA s : s.field)
PageAnnots == Kept(Annots(session.base)) \o [i \in DOMAIN Added |-> Number(i)]
                \o Each(session.signatures, LAMBDA s : s.field)

IsHole(e) ==
  \E i \in 1..Len(session.signatures) : \E P \in Permissions \union {0} :
    e = <<session.signatures[i].object, Hole(<<>>, P)>>
IsWidget(e) ==
  \E i \in 1..Len(session.signatures) :
    e = <<session.signatures[i].field, [kind |-> "widget", sig |-> session.signatures[i].object]>>
IsForm(e) ==
  session.signatures # <<>> /\ e = <<session.form, [kind |-> "form", fields |-> FormFields]>>
IsCatalog(e) ==
  session.signatures # <<>> /\ e = <<Root, [Catalog(session.base) EXCEPT !.form = session.form]>>
IsField(e) ==
  \E i \in 1..Len(session.fields) :
    e = <<session.fields[i].object, [kind |-> "field", value |-> session.fields[i].value]>>
IsNote(e) ==
  \E i \in 1..Len(Added) : e = <<Number(i), [kind |-> "note", text |-> Added[i].text]>>
IsAppearance(e) ==
  \E i \in 1..Len(Added) : Added[i].markup /\ e = <<Number(i) + 1, [kind |-> "appearance"]>>
IsPage(e) ==
  /\ session.annots # <<>> \/ session.signatures # <<>>
  /\ e = <<Page, [kind |-> "page", annots |-> PageAnnots]>>

LEMMA SignatureObjectsAre ==
  ASSUME IsSession(session)
  PROVE  /\ IsSeq(SignatureObjects)
         /\ \A e \in ToSet(SignatureObjects) : IsHole(e) \/ IsWidget(e)
         /\ \A e : IsWidget(e) => e \in ToSet(SignatureObjects)
<1> DEFINE n == Len(session.signatures)
           certifying == {i \in DOMAIN session.signatures : session.signatures[i].permits # 0}
           Permits(i) == IF certifying # {} /\ i = Min(certifying)
                           THEN session.signatures[i].permits ELSE 0
           hole(i) == <<session.signatures[i].object,
                        [kind |-> "sig", covers |-> <<>>, permits |-> Permits(i)]>>
           widget(i) == <<session.signatures[i].field,
                          [kind |-> "widget", sig |-> session.signatures[i].object]>>
           ss == [i \in DOMAIN session.signatures |-> << hole(i), widget(i) >>]
<1>1. /\ n \in Nat /\ DOMAIN session.signatures = 1..n
      /\ \A i \in 1..n : session.signatures[i].permits \in Permissions
  BY SeqIs DEF IsSession, Loaded, Edited, Numbered, NumberedBy
<1>2. SignatureObjects = FlattenSeq(ss)
  BY DEF SignatureObjects
<1>3. \A i \in 1..n : Permits(i) \in Permissions \union {0}
  BY <1>1
<1>4. \A i \in 1..n : hole(i) = <<session.signatures[i].object, Hole(<<>>, Permits(i))>>
  BY DEF Hole
<1> HIDE DEF Permits, hole, widget
<1>5. ss = [i \in 1..n |-> ss[i]] /\ \A i \in 1..n : ss[i] = << hole(i), widget(i) >>
  BY <1>1
<1> HIDE DEF ss
<1>6. IsSeq(ss) /\ Len(ss) = n
  BY <1>1, <1>5, SeqFrom
<1>7. ASSUME NEW i \in 1..n PROVE IsSeq(ss[i]) /\ ToSet(ss[i]) = {hole(i), widget(i)}
  <2>1. IsSeq(<<hole(i), widget(i)>>) /\ ToSet(<<hole(i), widget(i)>>) = {hole(i), widget(i)}
    BY Singles
  <2> QED
    BY <1>5, <2>1
<1>8. IsSeq(FlattenSeq(ss)) /\ ToSet(FlattenSeq(ss)) = UNION {ToSet(ss[i]) : i \in 1..n}
  BY <1>6, <1>7, FlatHolds
<1>9. ASSUME NEW e \in ToSet(SignatureObjects) PROVE IsHole(e) \/ IsWidget(e)
  <2>1. PICK i \in 1..n : e \in {hole(i), widget(i)}
    BY <1>2, <1>7, <1>8
  <2>2. CASE e = hole(i)
    BY <1>3, <1>4, <2>2 DEF IsHole
  <2>3. CASE e = widget(i)
    BY <2>3 DEF IsWidget, widget
  <2> QED
    BY <2>1, <2>2, <2>3
<1>10. ASSUME NEW e, IsWidget(e) PROVE e \in ToSet(SignatureObjects)
  <2>1. PICK i \in 1..n : e = widget(i)
    BY <1>10 DEF IsWidget, widget
  <2> QED
    BY <1>2, <1>7, <1>8, <2>1
<1> QED
  BY <1>2, <1>8, <1>9, <1>10

LEMMA FormObjectsAre ==
  /\ IsSeq(FormObjects)
  /\ \A e : e \in ToSet(FormObjects) <=> IsForm(e) \/ IsCatalog(e)
<1> DEFINE form == <<session.form, [kind |-> "form", fields |-> FormFields]>>
           catalog == <<Root, [Catalog(session.base) EXCEPT !.form = session.form]>>
<1>1. FormObjects = IF session.signatures = <<>> THEN <<>> ELSE <<form, catalog>>
  BY DEF FormObjects, FormFields
<1>2. \A e : IsForm(e) <=> session.signatures # <<>> /\ e = form
  BY DEF IsForm
<1>3. \A e : IsCatalog(e) <=> session.signatures # <<>> /\ e = catalog
  BY DEF IsCatalog
<1> HIDE DEF form, catalog
<1>4. /\ IsSeq(<<>>) /\ ToSet(<<>>) = {}
      /\ IsSeq(<<form, catalog>>) /\ ToSet(<<form, catalog>>) = {form, catalog}
  BY Singles
<1> QED
  BY <1>1, <1>2, <1>3, <1>4

LEMMA FieldObjectsAre ==
  ASSUME IsSession(session)
  PROVE  /\ IsSeq(FieldObjects)
         /\ \A e : e \in ToSet(FieldObjects) <=> IsField(e)
<1> DEFINE n == Len(session.fields)
           field(i) == <<session.fields[i].object, [kind |-> "field", value |-> session.fields[i].value]>>
<1>1. n \in Nat /\ DOMAIN session.fields = 1..n
  BY SeqIs DEF IsSession, Loaded, Edited, Numbered, NumberedBy
<1>2. FieldObjects = [i \in 1..n |-> field(i)]
  BY <1>1 DEF FieldObjects, Each
<1>3. \A e : IsField(e) <=> \E i \in 1..n : e = field(i)
  BY DEF IsField
<1> HIDE DEF field
<1>4. FieldObjects = [i \in 1..n |-> FieldObjects[i]] /\ DOMAIN FieldObjects = 1..n
      /\ \A i \in 1..n : FieldObjects[i] = field(i)
  BY <1>2
<1>5. IsSeq(FieldObjects)
  BY <1>1, <1>4, SeqFrom
<1> QED
  BY <1>3, <1>4, <1>5 DEF ToSet

LEMMA AnnotObjectsAre ==
  ASSUME IsSession(session)
  PROVE  /\ IsSeq(AnnotObjects)
         /\ \A e : e \in ToSet(AnnotObjects) <=> IsNote(e) \/ IsAppearance(e)
<1> DEFINE n == Len(Added)
           note(i) == <<Number(i), [kind |-> "note", text |-> Added[i].text]>>
           appearance(i) == <<Number(i) + 1, [kind |-> "appearance"]>>
           ss == [i \in DOMAIN Added |->
                    << note(i) >> \o (IF Added[i].markup THEN << appearance(i) >> ELSE <<>>)]
<1>1. n \in Nat /\ DOMAIN Added = 1..n
  BY AddedIs, SeqIs
<1>2. AnnotObjects = FlattenSeq(ss)
  BY DEF AnnotObjects
<1>3. \A e : IsNote(e) <=> \E i \in 1..n : e = note(i)
  BY DEF IsNote
<1>4. \A e : IsAppearance(e) <=> \E i \in 1..n : Added[i].markup /\ e = appearance(i)
  BY DEF IsAppearance
<1> HIDE DEF note, appearance
<1>5. ss = [i \in 1..n |-> ss[i]]
      /\ \A i \in 1..n : ss[i] = << note(i) >> \o (IF Added[i].markup THEN << appearance(i) >> ELSE <<>>)
  BY <1>1
<1> HIDE DEF ss
<1>6. IsSeq(ss) /\ Len(ss) = n
  BY <1>1, <1>5, SeqFrom
<1>7. ASSUME NEW i \in 1..n
      PROVE  /\ IsSeq(ss[i])
             /\ ToSet(ss[i]) = {note(i)} \union (IF Added[i].markup THEN {appearance(i)} ELSE {})
  <2> DEFINE more == IF Added[i].markup THEN << appearance(i) >> ELSE <<>>
  <2>1. IsSeq(<<note(i)>>) /\ ToSet(<<note(i)>>) = {note(i)}
    BY Singles
  <2>2. IsSeq(<<appearance(i)>>) /\ ToSet(<<appearance(i)>>) = {appearance(i)}
        /\ IsSeq(<<>>) /\ ToSet(<<>>) = {}
    BY Singles
  <2>3. IsSeq(more) /\ ToSet(more) = IF Added[i].markup THEN {appearance(i)} ELSE {}
    BY <2>2
  <2>4. ss[i] = << note(i) >> \o more
    BY <1>5
  <2> HIDE DEF more
  <2> QED
    BY <2>1, <2>3, <2>4, ToSetJoined
<1>8. IsSeq(FlattenSeq(ss)) /\ ToSet(FlattenSeq(ss)) = UNION {ToSet(ss[i]) : i \in 1..n}
  BY <1>6, <1>7, FlatHolds
<1>9. \A e : e \in ToSet(AnnotObjects) <=> \E i \in 1..n : e \in ToSet(ss[i])
  BY <1>2, <1>8
<1>10. ASSUME NEW e PROVE e \in ToSet(AnnotObjects) <=> IsNote(e) \/ IsAppearance(e)
  <2>1. \A i \in 1..n : e \in ToSet(ss[i]) <=> e = note(i) \/ (Added[i].markup /\ e = appearance(i))
    BY <1>7
  <2> QED
    BY <1>3, <1>4, <1>9, <2>1
<1> QED
  BY <1>2, <1>8, <1>10

LEMMA PageObjectsAre ==
  /\ IsSeq(PageObjects)
  /\ \A e : e \in ToSet(PageObjects) <=> IsPage(e)
<1> DEFINE page == <<Page, [kind |-> "page", annots |-> PageAnnots]>>
<1>1. PageObjects = IF session.annots = <<>> /\ session.signatures = <<>> THEN <<>> ELSE <<page>>
  BY DEF PageObjects, PageAnnots
<1>2. \A e : IsPage(e) <=> (session.annots # <<>> \/ session.signatures # <<>>) /\ e = page
  BY DEF IsPage
<1> HIDE DEF page
<1>3. IsSeq(<<>>) /\ ToSet(<<>>) = {} /\ IsSeq(<<page>>) /\ ToSet(<<page>>) = {page}
  BY Singles
<1> QED
  BY <1>1, <1>2, <1>3

LEMMA NewObjectsAre ==
  ASSUME IsSession(session)
  PROVE  /\ IsSeq(NewObjects)
         /\ \A e \in ToSet(NewObjects) :
              \/ IsHole(e) \/ IsWidget(e) \/ IsForm(e) \/ IsCatalog(e)
              \/ IsField(e) \/ IsNote(e) \/ IsAppearance(e) \/ IsPage(e)
         /\ \A e :
              \/ IsWidget(e) \/ IsForm(e) \/ IsCatalog(e)
              \/ IsField(e) \/ IsNote(e) \/ IsAppearance(e) \/ IsPage(e)
              => e \in ToSet(NewObjects)
<1>1. IsSeq(SignatureObjects) /\ IsSeq(FormObjects) /\ IsSeq(FieldObjects)
      /\ IsSeq(AnnotObjects) /\ IsSeq(PageObjects)
  BY SignatureObjectsAre, FormObjectsAre, FieldObjectsAre, AnnotObjectsAre, PageObjectsAre
<1> DEFINE a == SignatureObjects \o FormObjects
           b == a \o FieldObjects
           c == b \o AnnotObjects
<1>2. IsSeq(a) /\ ToSet(a) = ToSet(SignatureObjects) \union ToSet(FormObjects)
  BY <1>1, ToSetJoined
<1> HIDE DEF a
<1>3. IsSeq(b) /\ ToSet(b) = ToSet(a) \union ToSet(FieldObjects)
  BY <1>1, <1>2, ToSetJoined
<1> HIDE DEF b
<1>4. IsSeq(c) /\ ToSet(c) = ToSet(b) \union ToSet(AnnotObjects)
  BY <1>1, <1>3, ToSetJoined
<1> HIDE DEF c
<1>5. IsSeq(c \o PageObjects) /\ ToSet(c \o PageObjects) = ToSet(c) \union ToSet(PageObjects)
  BY <1>1, <1>4, ToSetJoined
<1>6. NewObjects = c \o PageObjects
  BY DEF NewObjects, a, b, c
<1>7. \A e \in ToSet(SignatureObjects) : IsHole(e) \/ IsWidget(e)
  BY SignatureObjectsAre
<1>8. \A e : IsWidget(e) => e \in ToSet(SignatureObjects)
  BY SignatureObjectsAre
<1>9. \A e : e \in ToSet(FormObjects) <=> IsForm(e) \/ IsCatalog(e)
  BY FormObjectsAre
<1>10. \A e : e \in ToSet(FieldObjects) <=> IsField(e)
  BY FieldObjectsAre
<1>11. \A e : e \in ToSet(AnnotObjects) <=> IsNote(e) \/ IsAppearance(e)
  BY AnnotObjectsAre
<1>12. \A e : e \in ToSet(PageObjects) <=> IsPage(e)
  BY PageObjectsAre
<1> QED
  BY <1>2, <1>3, <1>4, <1>5, <1>6, <1>7, <1>8, <1>9, <1>10, <1>11, <1>12

---------------------------------------------------------------------------
(* The numbers of an update tell its objects apart. *)

LEMMA PageAnnotsIs ==
  ASSUME IsSession(session)
  PROVE  IsSeq(PageAnnots) /\ IsSeq(Kept(Annots(session.base)))
<1>1. IsSeq(Annots(session.base))
  BY RootAndPage DEF IsSession, Loaded, Edited, Numbered, NumberedBy
<1>2. IsSeq(Kept(Annots(session.base)))
  <2>1. DOMAIN Annots(session.base) \ Deleted = DOMAIN Annots(session.base) \ Deleted
    OBVIOUS
  <2> QED
    BY <1>1, AtHolds DEF Kept
<1> DEFINE numbers == [i \in DOMAIN Added |-> Number(i)]
           widgets == Each(session.signatures, LAMBDA s : s.field)
<1>3. IsSeq(numbers)
  <2>1. DOMAIN Added = 1..Len(Added) /\ Len(Added) \in Nat
    BY AddedIs, SeqIs
  <2>2. numbers = [i \in 1..Len(Added) |-> numbers[i]]
    BY <2>1
  <2> HIDE DEF numbers
  <2> QED
    BY <2>1, <2>2, SeqFrom
<1>4. IsSeq(widgets)
  <2>1. DOMAIN session.signatures = 1..Len(session.signatures) /\ Len(session.signatures) \in Nat
    BY SeqIs DEF IsSession, Loaded, Edited, Numbered, NumberedBy
  <2>2. widgets = [i \in 1..Len(session.signatures) |-> session.signatures[i].field]
    BY <2>1 DEF Each
  <2>3. widgets = [i \in 1..Len(session.signatures) |-> widgets[i]]
    BY <2>2
  <2> HIDE DEF widgets
  <2> QED
    BY <2>1, <2>3, SeqFrom
<1>5. PageAnnots = Kept(Annots(session.base)) \o numbers \o widgets
  BY DEF PageAnnots
<1> HIDE DEF numbers, widgets
<1>6. IsSeq(Kept(Annots(session.base)) \o numbers)
  BY <1>2, <1>3, ToSetJoined
<1> QED
  BY <1>2, <1>4, <1>5, <1>6, ToSetJoined

\* The numbers of a signature.
LEMMA GivenIs ==
  ASSUME IsSession(session), NEW i \in 1..Len(session.signatures)
  PROVE  LET field == session.signatures[i].field
             object == session.signatures[i].object
         IN /\ field \in Nat /\ field >= Low(session) /\ field < session.next /\ field # session.form
            /\ object \in Nat /\ object >= Low(session) /\ object < session.next /\ object # session.form
            /\ \A k \in 1..Len(session.signatures) : session.signatures[k].field # object
<1> DEFINE field == session.signatures[i].field
           object == session.signatures[i].object
<1>1. Low(session) \in Nat /\ session.next \in Nat
  BY LowIs
<1>2. {field, object} \subseteq (Low(session)..session.next - 1) \ {session.form}
  BY DEF IsSession, Loaded, Edited, Numbered, NumberedBy
<1>3. \A k \in 1..Len(session.signatures) : session.signatures[k].field # object
  BY DEF IsSession, Loaded, Edited, Numbered, NumberedBy
<1> HIDE DEF field, object
<1>4. field \in Low(session)..session.next - 1 /\ field # session.form
      /\ object \in Low(session)..session.next - 1 /\ object # session.form
  BY <1>2
<1> QED
  BY <1>1, <1>3, <1>4 DEF field, object

\* What e is, by its number.
Described(e) ==
  LET n == e[1]
      o == e[2]
  IN /\ e = <<n, o>> /\ n \in Nat /\ IsObject(o)
     /\ \/ /\ o = Hole(<<>>, o.permits)
           /\ \E i \in 1..Len(session.signatures) : n = session.signatures[i].object
        \/ /\ o.kind = "widget"
           /\ \E i \in 1..Len(session.signatures) : n = session.signatures[i].field
        \/ o.kind = "form" /\ n = session.form /\ n # 0
        \/ o.kind = "note" /\ \E i \in 1..Len(Added) : n = Number(i)
        \/ o.kind = "appearance" /\ \E i \in 1..Len(Added) : Added[i].markup /\ n = Number(i) + 1
        \/ o.kind = "catalog" /\ n = Root
        \/ /\ o.kind = "page" /\ n = Page /\ o.annots = PageAnnots
           /\ session.annots # <<>> \/ session.signatures # <<>>
        \/ /\ o.kind = "field" /\ n \in session.base[1].fields
           /\ \E i \in 1..Len(session.fields) : n = session.fields[i].object

LEMMA NewDescribed ==
  ASSUME IsSession(session), NEW e \in ToSet(NewObjects)
  PROVE  Described(e)
<1> DEFINE s == session
<1>1. ASSUME NEW a, NEW b PROVE <<a, b>>[1] = a /\ <<a, b>>[2] = b
  OBVIOUS
<1>2. /\ s.base[1] \in Bases /\ IsFile(s.base) /\ s.next \in Nat /\ Low(s) \in Nat
  BY LowIs
<1>3. \A i \in 1..Len(s.signatures) :
        s.signatures[i].field \in Nat /\ s.signatures[i].object \in Nat
  BY GivenIs
<1>4. s.form # 0 => s.form \in Nat
  BY <1>2 DEF IsSession, Loaded, Edited, Numbered, NumberedBy
<1>5. \A i \in 1..Len(Added) : Number(i) \in Nat
  <2>1. \A i \in 1..Len(Added) : i \in Nat \ {0}
    BY AddedIs
  <2> QED
    BY <2>1, NumbersRise
<1>6. CASE IsHole(e)
  <2>1. PICK i \in 1..Len(s.signatures), P \in Permissions \union {0} :
          e = <<s.signatures[i].object, Hole(<<>>, P)>>
    BY <1>6 DEF IsHole
  <2>2. e[1] = s.signatures[i].object /\ e[2] = Hole(<<>>, P)
    BY <1>1, <2>1
  <2>3. e[2] = Hole(<<>>, e[2].permits) /\ IsObject(e[2])
    BY <2>2 DEF Hole, IsObject, Fresh
  <2> QED
    BY <1>3, <2>1, <2>2, <2>3 DEF Described
<1>7. CASE IsWidget(e)
  <2>1. PICK i \in 1..Len(s.signatures) :
          e = <<s.signatures[i].field, [kind |-> "widget", sig |-> s.signatures[i].object]>>
    BY <1>7 DEF IsWidget
  <2>2. e[1] = s.signatures[i].field /\ e[2] = [kind |-> "widget", sig |-> s.signatures[i].object]
    BY <1>1, <2>1
  <2>3. e[2].kind = "widget" /\ IsObject(e[2])
    BY <2>2 DEF IsObject, Fresh
  <2> QED
    BY <1>3, <2>1, <2>2, <2>3 DEF Described
<1>8. CASE IsForm(e)
  <2>1. e = <<s.form, [kind |-> "form", fields |-> FormFields]>> /\ s.form # 0
    BY <1>8 DEF IsForm, IsSession, Loaded, Edited, Numbered, NumberedBy
  <2>2. e[1] = s.form /\ e[2] = [kind |-> "form", fields |-> FormFields]
    BY <1>1, <2>1
  <2>3. e[2].kind = "form" /\ IsObject(e[2])
    BY <2>2 DEF IsObject, Fresh
  <2> QED
    BY <1>4, <2>1, <2>2, <2>3 DEF Described
<1>9. CASE IsCatalog(e)
  <2>1. e[1] = Root /\ e[2] = [Catalog(s.base) EXCEPT !.form = s.form]
        /\ e = <<Root, [Catalog(s.base) EXCEPT !.form = s.form]>>
    BY <1>1, <1>9 DEF IsCatalog
  <2> DEFINE c == Catalog(s.base)
  <2>2. c = [kind |-> "catalog", form |-> c.form, fields |-> c.fields]
    BY <1>2, RootAndPage DEF IsObject
  <2>3. [c EXCEPT !.form = s.form] = [kind |-> "catalog", form |-> s.form, fields |-> c.fields]
    <3> HIDE DEF c
    <3>1. ASSUME NEW x, NEW y, NEW z
          PROVE  [[kind |-> "catalog", form |-> x, fields |-> y] EXCEPT !.form = z]
                   = [kind |-> "catalog", form |-> z, fields |-> y]
      OBVIOUS
    <3>2. [[kind |-> "catalog", form |-> c.form, fields |-> c.fields] EXCEPT !.form = s.form]
            = [kind |-> "catalog", form |-> s.form, fields |-> c.fields]
      BY <3>1
    <3> QED
      BY <2>2, <3>2
  <2>4. e[2] = [kind |-> "catalog", form |-> s.form, fields |-> c.fields]
    BY <2>1, <2>3
  <2>5. e[2].kind = "catalog" /\ IsObject(e[2])
    BY <2>4 DEF IsObject, Fresh
  <2>6. Root \in Nat
    BY DEF Root
  <2> QED
    BY <2>1, <2>5, <2>6 DEF Described
<1>10. CASE IsField(e)
  <2>1. PICK i \in 1..Len(s.fields) :
          e = <<s.fields[i].object, [kind |-> "field", value |-> s.fields[i].value]>>
    BY <1>10 DEF IsField
  <2>2. e[1] = s.fields[i].object /\ e[2] = [kind |-> "field", value |-> s.fields[i].value]
    BY <1>1, <2>1
  <2>3. e[2].kind = "field" /\ IsObject(e[2])
    BY <2>2 DEF IsObject, Fresh
  <2>4. e[1] \in s.base[1].fields
    BY <2>1, <2>2 DEF IsSession, Loaded, Edited, Numbered, NumberedBy
  <2>5. e[1] \in Nat
    BY <1>2, <2>4, BaseIs
  <2> QED
    BY <2>1, <2>2, <2>3, <2>4, <2>5 DEF Described
<1>11. CASE IsNote(e)
  <2>1. PICK i \in 1..Len(Added) : e = <<Number(i), [kind |-> "note", text |-> Added[i].text]>>
    BY <1>11 DEF IsNote
  <2>2. e[1] = Number(i) /\ e[2] = [kind |-> "note", text |-> Added[i].text]
    BY <1>1, <2>1
  <2>3. e[2].kind = "note" /\ IsObject(e[2])
    BY <2>2 DEF IsObject, Fresh
  <2> QED
    BY <1>5, <2>1, <2>2, <2>3 DEF Described
<1>12. CASE IsAppearance(e)
  <2>1. PICK i \in 1..Len(Added) : Added[i].markup /\ e = <<Number(i) + 1, [kind |-> "appearance"]>>
    BY <1>12 DEF IsAppearance
  <2>2. e[1] = Number(i) + 1 /\ e[2] = [kind |-> "appearance"]
    BY <1>1, <2>1
  <2>3. e[2].kind = "appearance" /\ IsObject(e[2])
    BY <2>2 DEF IsObject, Fresh
  <2>4. Number(i) + 1 \in Nat
    BY <1>5
  <2> QED
    BY <2>1, <2>2, <2>3, <2>4 DEF Described
<1>13. CASE IsPage(e)
  <2>1. e[1] = Page /\ e[2] = [kind |-> "page", annots |-> PageAnnots]
        /\ e = <<Page, [kind |-> "page", annots |-> PageAnnots]>>
    BY <1>1, <1>13 DEF IsPage
  <2>2. IsSeq(PageAnnots)
    BY PageAnnotsIs
  <2>3. e[2].kind = "page" /\ IsObject(e[2])
    BY <2>1, <2>2 DEF IsObject, Fresh
  <2>4. Page \in Nat
    BY DEF Page
  <2> QED
    BY <1>13, <2>1, <2>3, <2>4 DEF Described, IsPage
<1> QED
  BY <1>6, <1>7, <1>8, <1>9, <1>10, <1>11, <1>12, <1>13, NewObjectsAre

\* Where the numbers of an update lie.
LEMMA NewEntry ==
  ASSUME IsSession(session), NEW e \in ToSet(NewObjects)
  PROVE  /\ IsEntry(e, session.base[1])
         /\ e[2].kind \in Fresh => e[1] >= Low(session)
         /\ e[1] < NextNumber
         /\ e[2].kind = "sig" => e[2].covers = <<>>
<1> DEFINE s == session
<1>1. Described(e)
  BY NewDescribed
<1>2. /\ s.base[1] \in Bases /\ s.next \in Nat /\ Low(s) \in Nat /\ s.base[1].size \in Nat
      /\ Low(s) >= s.base[1].size /\ s.next >= Low(s)
  BY LowIs
<1>3. /\ \A n \in s.base[1].fields : n \in Nat /\ n < s.base[1].size
      /\ Root < s.base[1].size /\ Page < s.base[1].size /\ Root # Page
      /\ Root \notin s.base[1].fields /\ Page \notin s.base[1].fields
  BY <1>2, BaseIs DEF Root, Page
<1>4. \A i \in 1..Len(s.signatures) :
        s.signatures[i].field \in Low(s)..s.next - 1 /\ s.signatures[i].object \in Low(s)..s.next - 1
  BY <1>2, GivenIs
<1>5. s.form # 0 => s.form \in Low(s)..s.next - 1
  BY DEF IsSession, Loaded, Edited, Numbered, NumberedBy
<1>6. Len(Added) \in Nat /\ Len(Added) + 1 \in Nat \ {0} /\ \A i \in 1..Len(Added) : i \in Nat \ {0} /\ i < Len(Added) + 1
  BY AddedIs
<1>7. NextNumber \in Nat /\ NextNumber >= s.next
  BY <1>6, NumbersRise DEF NextNumber
<1>8. \A i \in 1..Len(Added) : /\ Number(i) \in Nat /\ Number(i) >= s.next /\ Number(i) < NextNumber
                               /\ Added[i].markup => Number(i) + 1 < NextNumber
  BY <1>6, NumbersRise DEF NextNumber
<1>9. e = <<e[1], e[2]>> /\ e[1] \in Nat /\ IsObject(e[2])
  BY <1>1 DEF Described
<1>10. CASE e[2] = Hole(<<>>, e[2].permits)
            /\ \E i \in 1..Len(s.signatures) : e[1] = s.signatures[i].object
  <2>1. e[2].kind = "sig" /\ e[2].covers = <<>>
    BY <1>10 DEF Hole
  <2>2. e[1] \in Low(s)..s.next - 1
    BY <1>4, <1>10
  <2> QED
    BY <1>2, <1>3, <1>7, <1>9, <2>1, <2>2 DEF IsEntry
<1>11. CASE e[2].kind = "widget" /\ \E i \in 1..Len(s.signatures) : e[1] = s.signatures[i].field
  <2>1. e[1] \in Low(s)..s.next - 1
    BY <1>4, <1>11
  <2>2. e[1] >= Low(s) /\ e[1] >= s.base[1].size /\ e[1] < NextNumber
    BY <1>2, <1>7, <2>1
  <2>3. e[1] # Root /\ e[1] # Page /\ e[1] \notin s.base[1].fields
    BY <1>2, <1>3, <1>9, <2>2 DEF Root, Page
  <2> QED
    BY <1>9, <1>11, <2>2, <2>3 DEF IsEntry
<1>12. CASE e[2].kind = "form" /\ e[1] = s.form /\ e[1] # 0
  <2>1. e[1] \in Low(s)..s.next - 1
    BY <1>5, <1>12
  <2> QED
    BY <1>2, <1>3, <1>7, <1>9, <1>12, <2>1 DEF IsEntry
<1>13. CASE e[2].kind = "note" /\ \E i \in 1..Len(Added) : e[1] = Number(i)
  <2>1. e[1] >= s.next /\ e[1] < NextNumber
    BY <1>8, <1>13
  <2> QED
    BY <1>2, <1>3, <1>9, <1>13, <2>1 DEF IsEntry
<1>14. CASE e[2].kind = "appearance"
            /\ \E i \in 1..Len(Added) : Added[i].markup /\ e[1] = Number(i) + 1
  <2>1. e[1] >= s.next /\ e[1] < NextNumber
    BY <1>2, <1>8, <1>14
  <2> QED
    BY <1>2, <1>3, <1>9, <1>14, <2>1 DEF IsEntry
<1>15. CASE e[2].kind = "catalog" /\ e[1] = Root
  BY <1>2, <1>3, <1>7, <1>9, <1>15 DEF IsEntry, Fresh, Root
<1>16. CASE e[2].kind = "page" /\ e[1] = Page
  BY <1>2, <1>3, <1>7, <1>9, <1>16 DEF IsEntry, Fresh, Page
<1>17. CASE e[2].kind = "field" /\ e[1] \in s.base[1].fields
  BY <1>2, <1>3, <1>7, <1>9, <1>17 DEF IsEntry, Fresh
<1> QED
  BY <1>1, <1>10, <1>11, <1>12, <1>13, <1>14, <1>15, <1>16, <1>17 DEF Described

\* No number stands for two kinds of object.
LEMMA NewKinds ==
  ASSUME IsSession(session), NEW e \in ToSet(NewObjects), NEW d \in ToSet(NewObjects), e[1] = d[1]
  PROVE  e[2].kind = d[2].kind
<1> DEFINE s == session
           Sigs(n) == \E i \in 1..Len(s.signatures) : n = s.signatures[i].object
           Widgets(n) == \E i \in 1..Len(s.signatures) : n = s.signatures[i].field
           Notes(n) == \E i \in 1..Len(Added) : n = Number(i)
           Appearances(n) == \E i \in 1..Len(Added) : Added[i].markup /\ n = Number(i) + 1
           By(x) == /\ x[2].kind = "catalog" <=> x[1] = Root
                    /\ x[2].kind = "page" <=> x[1] = Page
                    /\ x[2].kind = "field" <=> x[1] \in s.base[1].fields
                    /\ x[2].kind \in {"catalog", "page", "field"} \union Fresh
                    /\ x[2].kind = "sig" => Sigs(x[1])
                    /\ x[2].kind = "widget" => Widgets(x[1])
                    /\ x[2].kind = "form" => x[1] = s.form /\ x[1] # 0
                    /\ x[2].kind = "note" => Notes(x[1])
                    /\ x[2].kind = "appearance" => Appearances(x[1])
<1>1. ASSUME NEW x \in ToSet(NewObjects) PROVE By(x)
  <2>1. Described(x) /\ IsEntry(x, s.base[1])
    BY NewDescribed, NewEntry
  <2>2. x[2] = Hole(<<>>, x[2].permits) => x[2].kind = "sig"
    BY DEF Hole
  <2> QED
    BY <2>1, <2>2 DEF Described, IsEntry, IsObject
<1>2. /\ s.base[1] \in Bases /\ s.next \in Nat /\ Low(s) \in Nat
  BY LowIs
<1>3. \A n : Sigs(n) => n \in Nat /\ n < s.next /\ n # s.form /\ ~Widgets(n)
  BY GivenIs
<1>4. \A n : Widgets(n) => n \in Nat /\ n < s.next /\ n # s.form
  BY GivenIs
<1>5. s.form # 0 => s.form \in Nat /\ s.form < s.next
  BY <1>2 DEF IsSession, Loaded, Edited, Numbered, NumberedBy
<1>6. Len(Added) \in Nat /\ \A i \in 1..Len(Added) : i \in Nat \ {0}
  BY AddedIs
<1>7. \A n : Notes(n) => n \in Nat /\ n >= s.next
  BY <1>2, <1>6, NumbersRise
<1>8. \A n : Appearances(n) => n \in Nat /\ n >= s.next /\ ~Notes(n)
  <2> SUFFICES ASSUME NEW i \in 1..Len(Added), Added[i].markup
               PROVE  Number(i) + 1 \in Nat /\ Number(i) + 1 >= s.next /\ ~Notes(Number(i) + 1)
    OBVIOUS
  <2>1. Number(i) \in Nat /\ Number(i) >= s.next
    BY <1>6, NumbersRise
  <2>2. ASSUME NEW k \in 1..Len(Added) PROVE Number(k) # Number(i) + 1
    <3>1. Number(k) \in Nat /\ i \in Nat \ {0} /\ k \in Nat \ {0}
      BY <1>6, NumbersRise
    <3>2. i < k => Number(i) + 1 < Number(k)
      BY <3>1, NumbersRise
    <3>3. k < i => Number(k) < Number(i)
      BY <3>1, NumbersRise
    <3> QED
      BY <2>1, <3>1, <3>2, <3>3
  <2> QED
    BY <1>2, <2>1, <2>2
<1> HIDE DEF Sigs, Widgets, Notes, Appearances
<1>9. By(e) /\ By(d)
  BY <1>1
<1>10. \A n : \/ Sigs(n) \/ Widgets(n) \/ (n = s.form /\ n # 0) => ~Notes(n) /\ ~Appearances(n)
  BY <1>2, <1>3, <1>4, <1>5, <1>7, <1>8
<1> QED
  BY <1>3, <1>4, <1>8, <1>9, <1>10 DEF Fresh

---------------------------------------------------------------------------
(* Writing makes a file of the document and the update. *)

Extends(g, f, p) ==
  /\ Len(g) = Len(f) + 1 /\ g[Len(f) + 1] = p
  /\ \A i \in 1..Len(f) : g[i] = f[i]

LEMMA UpdateIs ==
  ASSUME IsSession(session)
  PROVE  LET u == Update(NewObjects) IN
         /\ IsUpdate(u, session.base[1]) /\ u.objs = NewObjects
         /\ u.prev = session.prev /\ u.size = NextNumber
         /\ u.size \in Nat /\ u.size >= session.next
         /\ u.end > session.base[Len(session.base)].end
         /\ session.signatures # <<>> => u.end - session.base[Len(session.base)].end >= Window
<1> DEFINE u == Update(NewObjects)
           b == session.base
           last == b[Len(b)].end
<1>1. /\ IsFile(b) /\ session.prev \in 1..Len(b) /\ b[1].size \in Nat
      /\ session.next \in Nat /\ session.next >= Low(session)
      /\ Low(session) \in Nat /\ Low(session) >= b[1].size
  BY LowIs
<1>2. Len(b) \in 1..Len(b) /\ last \in Nat
  <2>1. Len(b) \in 1..Len(b)
    BY <1>1, FileIsChained
  <2> QED
    BY <1>1, <2>1, SizeIs
<1>3. IsSeq(NewObjects) /\ Len(NewObjects) \in Nat /\ DOMAIN NewObjects = 1..Len(NewObjects)
  BY NewObjectsAre, SeqIs
<1>4. Listing(NewObjects, b[1])
  <2>1. \A j \in 1..Len(NewObjects) : NewObjects[j] \in ToSet(NewObjects)
    BY <1>3 DEF ToSet
  <2> QED
    BY <1>3, <2>1, NewEntry DEF Listing
<1>5. NextNumber \in Nat /\ NextNumber >= session.next
  <2>1. Len(Added) + 1 \in Nat \ {0}
    BY AddedIs
  <2> QED
    BY <2>1, NumbersRise DEF NextNumber
<1>6. /\ Weight(NewObjects) \in Nat \ {0}
      /\ session.signatures # <<>> => Weight(NewObjects) >= Window
  BY <1>3, WindowAssumption DEF Weight
<1>7. /\ u.objs = NewObjects /\ u.kind = "table" /\ u.aged = {} /\ u.fields = {}
      /\ u.prev = session.prev /\ u.size = NextNumber
      /\ u.end = last + Weight(NewObjects)
      /\ u = [x \in PartFields |-> u[x]]
  BY DEF Update, PartFields
<1> HIDE DEF u, last, b
<1>8. u.end \in Nat /\ u.end > last /\ (session.signatures # <<>> => u.end - last >= Window)
  BY <1>2, <1>6, <1>7, WindowAssumption
<1>9. IsUpdate(u, b[1])
  BY <1>1, <1>4, <1>5, <1>7, <1>8 DEF IsUpdate
<1> QED
  BY <1>1, <1>5, <1>7, <1>8, <1>9 DEF u, last, b

LEMMA AppendedFile ==
  ASSUME NEW f, IsFile(f), NEW p, IsUpdate(p, f[1]), p.prev \in 1..Len(f), p.end > f[Len(f)].end
  PROVE  IsFile(Append(f, p)) /\ Extends(Append(f, p), f, p)
<1> DEFINE g == Append(f, p)
           n == Len(f)
<1>1. n \in Nat \ {0} /\ IsSeq(f)
  BY FileIsChained DEF IsFile
<1>2. IsSeq(g) /\ Extends(g, f, p)
  BY <1>1, Appended DEF Extends
<1> HIDE DEF g
<1>3. Len(g) = n + 1 /\ g[n + 1] = p /\ \A i \in 1..n : g[i] = f[i]
  BY <1>2 DEF Extends
<1>4. g[1] = f[1] /\ f[1] \in Bases
  <2>1. 1 \in 1..n
    BY <1>1
  <2> QED
    BY <1>3, <2>1 DEF IsFile
<1>5. ASSUME NEW i \in 2..n + 1 PROVE g[i].prev \in 1..i - 1 /\ IsUpdate(g[i], g[1])
  <2>1. CASE i = n + 1
    BY <1>1, <1>3, <1>4, <2>1
  <2>2. CASE i # n + 1
    <3>1. i \in 2..n /\ i \in 1..n
      BY <1>1, <2>2
    <3> QED
      BY <1>3, <1>4, <3>1 DEF IsFile
  <2> QED
    BY <2>1, <2>2
<1>6. ASSUME NEW i \in 1..n + 1, NEW k \in 1..n + 1, i < k PROVE g[i].end < g[k].end
  <2>1. i \in 1..n
    BY <1>1, <1>6
  <2>2. \A h \in 1..n : f[h].end \in Nat
    BY SizeIs
  <2>3. CASE k = n + 1
    <3>1. i < n => f[i].end < f[n].end
      BY <1>1, <2>1 DEF IsFile
    <3>2. f[i].end \in Nat /\ f[n].end \in Nat /\ g[i].end = f[i].end /\ g[k].end = p.end
      BY <1>1, <1>3, <2>1, <2>2, <2>3
    <3>3. p.end \in Nat
      BY DEF IsUpdate
    <3> QED
      BY <1>1, <2>1, <3>1, <3>2, <3>3
  <2>4. CASE k # n + 1
    <3>1. k \in 1..n
      BY <1>1, <2>4
    <3> QED
      BY <1>3, <1>6, <2>1, <3>1 DEF IsFile
  <2> QED
    BY <2>3, <2>4
<1>7. IsFile(g)
  BY <1>1, <1>2, <1>3, <1>4, <1>5, <1>6 DEF IsFile
<1> QED
  BY <1>2, <1>7 DEF g

---------------------------------------------------------------------------
(* The edits keep what is true of a session. *)

LEMMA BoundsAre == MaxParts \in Nat /\ MaxEdits \in Nat
  BY BoundsAssumption

LEMMA LoadKeeps ==
  ASSUME IsFile(file), LoadExisting
  PROVE  IsSession(session') /\ session'.base = file
<1> DEFINE s == session'
<1>1. /\ s.base = file /\ s.prev = StartSection(file) /\ s.next = Trailer(file, s.prev).size
      /\ s.count = Cardinality(ChainFrom(file, s.prev))
      /\ s.fields = <<>> /\ s.annots = <<>> /\ s.signatures = <<>> /\ s.form = 0
      /\ s = [x \in SessionFields |-> s[x]] /\ Len(file) < MaxParts
  BY DEF LoadExisting, SessionFields
<1> HIDE DEF s
<1>2. s.prev \in 1..Len(file)
  BY <1>1, SectionIs
<1>3. PICK k \in s.prev..Len(file) : Trailer(file, s.prev) = file[k]
  BY <1>2, SizeIs
<1>4. k \in 1..Len(file)
  BY <1>2, FileIsChained
<1>5. file[k].size \in Nat
  BY <1>4, SizeIs
<1>6. Low(s) = s.next /\ s.next \in Nat
  BY <1>1, <1>3, <1>5 DEF Low
<1>7. IsSeq(<<>>) /\ Len(<<>>) = 0
  BY Singles
<1>8. 0 <= MaxEdits
  BY BoundsAre
<1>9. Len(s.fields) + Len(s.annots) + Len(s.signatures) <= MaxEdits
  BY <1>1, <1>7, <1>8
<1> QED
  BY <1>1, <1>6, <1>7, <1>9 DEF IsSession, Loaded, Edited, Numbered, NumberedBy, s

\* There is room for one more.
LEMMA EditsAre ==
  ASSUME IsSession(session), Editing
  PROVE  \E a, b, c \in Nat :
           /\ Len(session.fields) = a /\ Len(session.annots) = b /\ Len(session.signatures) = c
           /\ a + b + c + 1 <= MaxEdits
<1> DEFINE a == Len(session.fields)
           b == Len(session.annots)
           c == Len(session.signatures)
<1>1. a \in Nat /\ b \in Nat /\ c \in Nat
  BY SeqIs DEF IsSession, Loaded, Edited, Numbered, NumberedBy
<1>2. a + b + c < MaxEdits
  BY DEF Editing, Edits
<1>3. Len(session.fields) = a /\ Len(session.annots) = b /\ Len(session.signatures) = c
  OBVIOUS
<1> HIDE DEF a, b, c
<1>4. a + b + c + 1 <= MaxEdits
  BY <1>1, <1>2, BoundsAre
<1> QED
  BY <1>1, <1>3, <1>4

\* What may be set is a field of the document.
LEMMA FieldIs ==
  ASSUME NEW f, IsFile(f), NEW n, Resolve(f, n).kind = "field"
  PROVE  n \in f[1].fields
<1>1. Chained(f)
  BY FileIsChained
<1>2. \/ Resolve(f, n) = Missing
      \/ \E k \in 1..Len(f) : \E m \in DOMAIN f[k].objs :
           f[k].objs[m][1] = n /\ Resolve(f, n) = f[k].objs[m][2]
  BY <1>1, ResolveFinds
<1>3. Missing.kind # "field"
  BY DEF Missing
<1>4. PICK k \in 1..Len(f) : \E m \in DOMAIN f[k].objs :
        f[k].objs[m][1] = n /\ Resolve(f, n) = f[k].objs[m][2]
  BY <1>2, <1>3
<1>5. PICK m \in DOMAIN f[k].objs : f[k].objs[m][1] = n /\ Resolve(f, n) = f[k].objs[m][2]
  BY <1>4
<1> QED
  BY <1>5, Roles

LEMMA SetFieldKeeps ==
  ASSUME IsSession(session), NEW n, NEW v, SetField(n, v)
  PROVE  IsSession(session') /\ session'.base = session.base
<1> DEFINE s == session
           t == session'
           r == [object |-> n, value |-> v]
<1>1. t = [s EXCEPT !.fields = Append(@, r)] /\ s = [x \in SessionFields |-> s[x]]
  BY DEF SetField, IsSession, Loaded, Edited, Numbered, NumberedBy
<1>2. "fields" \in SessionFields
  BY DEF SessionFields
<1>3. n \in s.base[1].fields
  BY FieldIs DEF SetField, IsSession, Loaded, Edited, Numbered, NumberedBy
<1>4. PICK a, b, c \in Nat :
         /\ Len(s.fields) = a /\ Len(s.annots) = b /\ Len(s.signatures) = c
         /\ a + b + c + 1 <= MaxEdits
  BY EditsAre DEF SetField
<1>5. r.object = n
  OBVIOUS
<1> HIDE DEF r, s, t
<1>6. /\ t = [x \in SessionFields |-> t[x]] /\ t.fields = Append(s.fields, r)
      /\ \A x \in SessionFields : x # "fields" => t[x] = s[x]
  BY <1>1, <1>2
<1>7. /\ t.base = s.base /\ t.prev = s.prev /\ t.next = s.next /\ t.count = s.count
      /\ t.annots = s.annots /\ t.signatures = s.signatures /\ t.form = s.form
  BY <1>6 DEF SessionFields
<1>8. IsSession(s)
  BY DEF s
<1>9. IsSeq(t.fields) /\ Len(t.fields) = a + 1
      /\ \A i \in 1..Len(t.fields) : t.fields[i].object \in s.base[1].fields
  <2>1. IsSeq(s.fields) /\ \A i \in 1..Len(s.fields) : s.fields[i].object \in s.base[1].fields
    BY <1>8 DEF IsSession, Loaded, Edited, Numbered, NumberedBy
  <2> DEFINE q == s.fields
  <2>2. /\ IsSeq(t.fields) /\ Len(t.fields) = a + 1 /\ t.fields[a + 1] = r
        /\ \A i \in 1..a : t.fields[i] = q[i]
    <3>1. IsSeq(q) /\ t.fields = Append(q, r) /\ Len(q) = a
      BY <1>4, <1>6, <2>1
    <3> HIDE DEF q
    <3>2. /\ IsSeq(Append(q, r)) /\ Len(Append(q, r)) = Len(q) + 1 /\ Append(q, r)[Len(q) + 1] = r
          /\ \A i \in 1..Len(q) : Append(q, r)[i] = q[i]
      BY <3>1, Appended
    <3> QED
      BY <3>1, <3>2
  <2>3. \A i \in 1..a + 1 : i \in 1..a \/ i = a + 1
    OBVIOUS
  <2>4. \A i \in 1..a : q[i].object \in s.base[1].fields
    BY <1>4, <2>1
  <2> HIDE DEF q
  <2> QED
    BY <1>3, <1>5, <2>2, <2>3, <2>4
<1>10. Low(t) = Low(s)
  BY <1>7 DEF Low
<1>11. Len(t.fields) + Len(t.annots) + Len(t.signatures) <= MaxEdits
  <2>1. Len(t.fields) = a + 1 /\ Len(t.annots) = b /\ Len(t.signatures) = c
    BY <1>4, <1>7, <1>9
  <2>2. (a + 1) + b + c <= MaxEdits
    BY <1>4, BoundsAre
  <2> QED
    BY <2>1, <2>2
<1>12. IsSession(t)
  <2>1. Loaded(t)
    BY <1>7, <1>8 DEF IsSession, Loaded
  <2>2. Edited(t)
    BY <1>7, <1>8, <1>9, <1>11 DEF IsSession, Edited
  <2>3. Numbered(t)
    BY <1>7, <1>8, <1>10 DEF IsSession, Numbered
  <2> QED
    BY <1>6, <2>1, <2>2, <2>3 DEF IsSession
<1> QED
  BY <1>7, <1>12 DEF s, t

LEMMA AnnotsKeep ==
  ASSUME IsSession(session), Editing, NEW r,
         session' = [session EXCEPT !.annots = Append(@, r)]
  PROVE  IsSession(session') /\ session'.base = session.base
<1> DEFINE s == session
           t == session'
<1>1. t = [s EXCEPT !.annots = Append(@, r)] /\ s = [x \in SessionFields |-> s[x]] /\ IsSession(s)
  BY DEF IsSession, Loaded, Edited, Numbered, NumberedBy
<1>2. "annots" \in SessionFields
  BY DEF SessionFields
<1>4. PICK a, b, c \in Nat :
         /\ Len(s.fields) = a /\ Len(s.annots) = b /\ Len(s.signatures) = c
         /\ a + b + c + 1 <= MaxEdits
  BY EditsAre
<1> HIDE DEF s, t
<1>6. /\ t = [x \in SessionFields |-> t[x]] /\ t.annots = Append(s.annots, r)
      /\ \A x \in SessionFields : x # "annots" => t[x] = s[x]
  BY <1>1, <1>2
<1>7. /\ t.base = s.base /\ t.prev = s.prev /\ t.next = s.next /\ t.count = s.count
      /\ t.fields = s.fields /\ t.signatures = s.signatures /\ t.form = s.form
  BY <1>6 DEF SessionFields
<1>9. IsSeq(t.annots) /\ Len(t.annots) = b + 1
  BY <1>1, <1>4, <1>6, Appended DEF IsSession, Loaded, Edited, Numbered, NumberedBy
<1>10. Low(t) = Low(s)
  BY <1>7 DEF Low
<1>11. Len(t.fields) + Len(t.annots) + Len(t.signatures) <= MaxEdits
  <2>1. Len(t.fields) = a /\ Len(t.annots) = b + 1 /\ Len(t.signatures) = c
    BY <1>4, <1>7, <1>9
  <2>2. a + (b + 1) + c <= MaxEdits
    BY <1>4, BoundsAre
  <2> QED
    BY <2>1, <2>2
<1>12. IsSession(t)
  <2>1. Loaded(t)
    BY <1>1, <1>7 DEF IsSession, Loaded
  <2>2. Edited(t)
    BY <1>1, <1>7, <1>9, <1>11 DEF IsSession, Edited
  <2>3. Numbered(t)
    BY <1>1, <1>7, <1>10 DEF IsSession, Numbered
  <2> QED
    BY <1>6, <2>1, <2>2, <2>3 DEF IsSession
<1> QED
  BY <1>7, <1>12 DEF s, t

LEMMA AddSignatureKeeps ==
  ASSUME IsSession(session), NEW p \in Permissions, AddSignatureField(p)
  PROVE  IsSession(session') /\ session'.base = session.base
<1> DEFINE s == session
           t == session'
           form == IF s.form = 0 THEN s.next ELSE s.form
           next == IF s.form = 0 THEN s.next + 1 ELSE s.next
           r == [field |-> next, object |-> next + 1, permits |-> p]
           n == Len(s.signatures)
<1>1. /\ t = [s EXCEPT !.form = form, !.next = next + 3, !.signatures = Append(@, r)]
      /\ s = [x \in SessionFields |-> s[x]] /\ IsSession(s)
  BY DEF AddSignatureField, IsSession, Loaded, Edited, Numbered, NumberedBy
<1>2. {"form", "next", "signatures"} \subseteq SessionFields
  BY DEF SessionFields
<1>3. PICK a, b, c \in Nat :
         /\ Len(s.fields) = a /\ Len(s.annots) = b /\ Len(s.signatures) = c
         /\ a + b + c + 1 <= MaxEdits
  BY EditsAre DEF AddSignatureField
<1> n \in Nat
  BY <1>3
<1>4. r.field = next /\ r.object = next + 1 /\ r.permits = p
  OBVIOUS
<1>5. s.next \in Nat /\ Low(s) \in Nat /\ s.next >= Low(s)
  BY LowIs
<1>6. s.form # 0 => s.form \in Low(s)..s.next - 1
  BY DEF IsSession, Loaded, Edited, Numbered, NumberedBy
<1>7. /\ form \in Nat /\ next \in Nat /\ form \in Low(s)..next - 1 /\ next >= s.next
      /\ s.form # 0 => form = s.form
      /\ s.form = 0 => form = s.next
  BY <1>5, <1>6
<1>8. \A i \in 1..n : s.form # 0
  BY <1>1, <1>3, SeqIs DEF IsSession, Loaded, Edited, Numbered, NumberedBy
<1>9. \A i \in 1..n :
        /\ s.signatures[i].field \in Nat /\ s.signatures[i].field >= Low(s)
        /\ s.signatures[i].field < s.next /\ s.signatures[i].field # s.form
        /\ s.signatures[i].object \in Nat /\ s.signatures[i].object >= Low(s)
        /\ s.signatures[i].object < s.next /\ s.signatures[i].object # s.form
        /\ \A k \in 1..n : s.signatures[k].field # s.signatures[i].object
        /\ s.signatures[i].permits \in Permissions
  <2>1. \A i \in 1..n : s.signatures[i].permits \in Permissions
    BY DEF IsSession, Loaded, Edited, Numbered, NumberedBy
  <2> QED
    BY <2>1, GivenIs
<1>10. IsSeq(s.signatures)
  BY DEF IsSession, Loaded, Edited, Numbered, NumberedBy
<1> HIDE DEF r, s, t, form, next, n
<1>11. /\ t = [x \in SessionFields |-> t[x]]
       /\ t.signatures = Append(s.signatures, r) /\ t.form = form /\ t.next = next + 3
       /\ \A x \in SessionFields : x \notin {"form", "next", "signatures"} => t[x] = s[x]
  BY <1>1, <1>2
<1>12. /\ t.base = s.base /\ t.prev = s.prev /\ t.count = s.count
       /\ t.fields = s.fields /\ t.annots = s.annots
  BY <1>11 DEF SessionFields
<1>13. /\ IsSeq(t.signatures) /\ Len(t.signatures) = n + 1 /\ t.signatures[n + 1] = r
       /\ \A i \in 1..n : t.signatures[i] = s.signatures[i]
  <2> DEFINE q == s.signatures
  <2>1. IsSeq(q) /\ t.signatures = Append(q, r) /\ n = Len(q)
    BY <1>10, <1>11 DEF n
  <2> HIDE DEF q
  <2>2. /\ IsSeq(Append(q, r)) /\ Len(Append(q, r)) = Len(q) + 1 /\ Append(q, r)[Len(q) + 1] = r
        /\ \A i \in 1..Len(q) : Append(q, r)[i] = q[i]
    BY <2>1, Appended
  <2>3. /\ IsSeq(t.signatures) /\ Len(t.signatures) = n + 1 /\ t.signatures[n + 1] = r
        /\ \A i \in 1..n : t.signatures[i] = q[i]
    BY <2>1, <2>2
  <2> QED
    BY <2>3 DEF q
<1>14. Low(t) = Low(s)
  BY <1>12 DEF Low
<1>15. Len(t.fields) + Len(t.annots) + Len(t.signatures) <= MaxEdits
  <2>1. Len(t.fields) = a /\ Len(t.annots) = b /\ Len(t.signatures) = c + 1
    BY <1>3, <1>12, <1>13 DEF n
  <2>2. a + b + (c + 1) <= MaxEdits
    BY <1>3, BoundsAre
  <2> QED
    BY <2>1, <2>2
<1>16. \A i \in 1..n + 1 : i \in 1..n \/ i = n + 1
  BY <1>3
<1>17. t.signatures # <<>> /\ t.form # 0 /\ t.form \in Low(t)..t.next - 1
  <2>1. t.signatures # <<>>
    BY <1>3, <1>13, SeqIs
  <2>2. form # 0
    <3>1. s.base[1].size \in Nat /\ Low(s) >= s.base[1].size /\ s.base[1] \in Bases
      BY LowIs DEF s
    <3>2. s.base[1].size > 1
      BY <3>1, BaseIs DEF Root
    <3> QED
      BY <1>5, <1>7, <3>1, <3>2
  <2> QED
    BY <1>5, <1>7, <1>11, <1>14, <2>1, <2>2
<1>18. ASSUME NEW i \in 1..n + 1
       PROVE  /\ t.signatures[i].field \in Low(t)..t.next - 1 /\ t.signatures[i].field # t.form
              /\ t.signatures[i].object \in Low(t)..t.next - 1 /\ t.signatures[i].object # t.form
              /\ t.signatures[i].permits \in Permissions
  <2>1. CASE i = n + 1
    <3>1. t.signatures[i].field = next /\ t.signatures[i].object = next + 1
          /\ t.signatures[i].permits = p
      BY <1>4, <1>13, <2>1
    <3>2. next \in Low(s)..(next + 3) - 1 /\ next + 1 \in Low(s)..(next + 3) - 1
          /\ next # form /\ next + 1 # form
      BY <1>5, <1>7
    <3> QED
      BY <1>11, <1>14, <3>1, <3>2
  <2>2. CASE i \in 1..n
    <3>1. t.signatures[i] = s.signatures[i] /\ t.form = s.form
      BY <1>7, <1>8, <1>11, <1>13, <2>2
    <3> DEFINE x == s.signatures[i]
    <3>2. /\ x.field \in Nat /\ x.field >= Low(s) /\ x.field < s.next /\ x.field # s.form
          /\ x.object \in Nat /\ x.object >= Low(s) /\ x.object < s.next /\ x.object # s.form
          /\ x.permits \in Permissions
      BY <1>9, <2>2
    <3> HIDE DEF x
    <3>3. x.field \in Low(s)..(next + 3) - 1 /\ x.object \in Low(s)..(next + 3) - 1
      BY <1>5, <1>7, <3>2
    <3>4. t.signatures[i] = x
      BY <3>1 DEF x
    <3> QED
      BY <1>11, <1>14, <3>1, <3>2, <3>3, <3>4
  <2> QED
    BY <1>16, <2>1, <2>2
<1>19. ASSUME NEW i \in 1..n + 1, NEW k \in 1..n + 1
       PROVE  t.signatures[i].field # t.signatures[k].object
  <2>1. CASE i \in 1..n /\ k \in 1..n
    BY <1>9, <1>13, <2>1
  <2>2. CASE i \in 1..n /\ k = n + 1
    <3>1. t.signatures[k].object = next + 1 /\ t.signatures[i] = s.signatures[i]
      BY <1>4, <1>13, <2>2
    <3> DEFINE x == s.signatures[i].field
    <3>2. x \in Nat /\ x < s.next
      BY <1>9, <2>2
    <3> HIDE DEF x
    <3>3. x # next + 1
      BY <1>5, <1>7, <3>2
    <3> QED
      BY <3>1, <3>3 DEF x
  <2>3. CASE i = n + 1 /\ k \in 1..n
    <3>1. t.signatures[i].field = next /\ t.signatures[k] = s.signatures[k]
      BY <1>4, <1>13, <2>3
    <3> DEFINE x == s.signatures[k].object
    <3>2. x \in Nat /\ x < s.next
      BY <1>9, <2>3
    <3> HIDE DEF x
    <3>3. x # next
      BY <1>5, <1>7, <3>2
    <3> QED
      BY <3>1, <3>3 DEF x
  <2>4. CASE i = n + 1 /\ k = n + 1
    BY <1>4, <1>7, <1>13, <2>4
  <2> QED
    BY <1>16, <2>1, <2>2, <2>3, <2>4
<1>20. ASSUME NEW i \in 1..Len(t.signatures)
       PROVE  /\ {t.signatures[i].field, t.signatures[i].object} \subseteq (Low(t)..t.next - 1) \ {t.form}
              /\ t.signatures[i].permits \in Permissions
              /\ \A k \in 1..Len(t.signatures) : t.signatures[i].field # t.signatures[k].object
  BY <1>13, <1>18, <1>19
<1>21. t.next \in Nat /\ t.next >= Low(t)
  BY <1>5, <1>7, <1>11, <1>14
<1>22. IsSession(t)
  BY <1>1, <1>11, <1>12, <1>13, <1>14, <1>15, <1>17, <1>20, <1>21 DEF IsSession, Loaded, Edited, Numbered, NumberedBy
<1> QED
  BY <1>12, <1>22 DEF s, t

LEMMA WriteKeeps ==
  ASSUME IsSession(session), WriteIncremental
  PROVE  IsSession(session') /\ session'.base = session.base
<1> DEFINE s == session
           t == session'
           m == NextNumber
<1>1. t = [s EXCEPT !.next = m, !.writes = @ + 1] /\ s = [x \in SessionFields |-> s[x]] /\ IsSession(s)
  BY DEF WriteIncremental, IsSession, Loaded, Edited, Numbered, NumberedBy
<1>2. {"next", "writes"} \subseteq SessionFields
  BY DEF SessionFields
<1>3. m \in Nat /\ m >= s.next
  BY UpdateIs
<1>4. s.next \in Nat /\ Low(s) \in Nat /\ s.next >= Low(s)
  BY LowIs
<1> HIDE DEF s, t, m
<1>5. /\ t = [x \in SessionFields |-> t[x]] /\ t.next = m
      /\ \A x \in SessionFields : x \notin {"next", "writes"} => t[x] = s[x]
  BY <1>1, <1>2
<1>6. /\ t.base = s.base /\ t.prev = s.prev /\ t.count = s.count
      /\ t.fields = s.fields /\ t.annots = s.annots /\ t.signatures = s.signatures /\ t.form = s.form
  BY <1>5 DEF SessionFields
<1>7. Low(t) = Low(s)
  BY <1>6 DEF Low
<1>8. Low(s)..s.next - 1 \subseteq Low(t)..t.next - 1
  BY <1>3, <1>4, <1>5, <1>7
<1>9. IsSession(t)
  <2>1. Loaded(t)
    BY <1>1, <1>6 DEF IsSession, Loaded
  <2>2. Edited(t)
    BY <1>1, <1>6 DEF IsSession, Edited
  <2>3. Numbered(t)
    <3>1. t.next \in Nat /\ t.next >= Low(t)
      BY <1>3, <1>4, <1>5, <1>7
    <3>2. Numbered(s)
      BY <1>1 DEF IsSession
    <3> QED
      BY <1>6, <1>8, <3>1, <3>2 DEF Numbered, NumberedBy
  <2> QED
    BY <1>5, <2>1, <2>2, <2>3 DEF IsSession
<1> QED
  BY <1>6, <1>9 DEF s, t

---------------------------------------------------------------------------
(* Signatures. *)

Upto(f, i) == SubSeq(f, 1, i)

\* The signature in object j of part i covers what SignaturesHold says.
Covering(f, i, j) ==
  \/ f[i].objs[j][2].covers = Fill(Upto(f, i), j, <<>>)
  \/ \E k \in DOMAIN f[i].objs :
       /\ k # j /\ f[i].objs[k][2].kind = "sig" /\ f[i].objs[k][2].covers # <<>>
       /\ f[i].objs[k][2].covers[i].objs[j][2].covers # <<>>

Signed(f) ==
  \A i \in 1..Len(f) : \A j \in DOMAIN f[i].objs :
    f[i].objs[j][2].kind = "sig" /\ f[i].objs[j][2].covers # <<>> =>
      Len(f[i].objs[j][2].covers) = i /\ Covering(f, i, j)

LEMMA UptoIs ==
  ASSUME NEW f, IsSeq(f)
  PROVE  /\ Upto(f, Len(f)) = f
         /\ \A g : IsSeq(g) => \A n \in 0..Len(f) : n <= Len(g) /\ (\A i \in 1..n : g[i] = f[i])
              => Upto(g, n) = Upto(f, n)
<1>1. Len(f) \in Nat
  BY SeqIs
<1>2. Upto(f, Len(f)) = f
  <2>1. Len(f) \in 0..Len(f)
    BY <1>1
  <2>2. /\ IsSeq(Upto(f, Len(f))) /\ Len(Upto(f, Len(f))) = Len(f)
        /\ \A i \in 1..Len(f) : Upto(f, Len(f))[i] = f[i]
    BY <2>1, FirstOf DEF Upto
  <2> QED
    BY <2>2, SameSeq
<1>3. ASSUME NEW g, IsSeq(g), NEW n \in 0..Len(f), n <= Len(g), \A i \in 1..n : g[i] = f[i]
      PROVE  Upto(g, n) = Upto(f, n)
  <2>1. Len(g) \in Nat
    BY <1>3, SeqIs
  <2>2. n \in 0..Len(g)
    BY <1>1, <1>3, <2>1
  <2>3. IsSeq(Upto(f, n)) /\ Len(Upto(f, n)) = n /\ \A i \in 1..n : Upto(f, n)[i] = f[i]
    BY FirstOf DEF Upto
  <2>4. IsSeq(Upto(g, n)) /\ Len(Upto(g, n)) = n /\ \A i \in 1..n : Upto(g, n)[i] = g[i]
    BY <1>3, <2>2, FirstOf DEF Upto
  <2>5. \A i \in 1..n : Upto(g, n)[i] = Upto(f, n)[i]
    BY <1>3, <2>3, <2>4
  <2> HIDE DEF Upto
  <2> QED
    BY <2>3, <2>4, <2>5, SameSeq
<1> QED
  BY <1>2, <1>3

\* The document has none.
LEMMA BaseIsSigned ==
  ASSUME NEW f, IsFile(f), Len(f) = 1
  PROVE  Signed(f)
<1>1. ASSUME NEW j \in DOMAIN f[1].objs PROVE f[1].objs[j][2].kind # "sig"
  <2>1. 1 \in 1..Len(f)
    OBVIOUS
  <2> QED
    BY <2>1, Roles
<1> QED
  BY <1>1 DEF Signed

\* The parts before are read as they were.
LEMMA SignedSame ==
  ASSUME NEW f, NEW g, IsSeq(f), IsSeq(g), Signed(f), NEW n \in 0..Len(f), n <= Len(g),
         \A i \in 1..n : g[i] = f[i],
         NEW i \in 1..n, NEW j \in DOMAIN g[i].objs,
         g[i].objs[j][2].kind = "sig", g[i].objs[j][2].covers # <<>>
  PROVE  Len(g[i].objs[j][2].covers) = i /\ Covering(g, i, j)
<1>1. Len(f) \in Nat
  BY SeqIs
<1>2. i \in 0..Len(f) /\ i <= Len(g) /\ g[i] = f[i] /\ i \in 1..Len(f)
  <2>1. Len(g) \in Nat
    BY SeqIs
  <2> QED
    BY <1>1, <2>1
<1>3. \A h \in 1..i : g[h] = f[h]
  BY <1>1
<1>4. Upto(g, i) = Upto(f, i)
  BY <1>2, <1>3, UptoIs
<1>5. Len(f[i].objs[j][2].covers) = i /\ Covering(f, i, j)
  BY <1>2 DEF Signed
<1>6. CASE f[i].objs[j][2].covers = Fill(Upto(f, i), j, <<>>)
  BY <1>2, <1>4, <1>5, <1>6 DEF Covering
<1>7. CASE \E k \in DOMAIN f[i].objs :
             /\ k # j /\ f[i].objs[k][2].kind = "sig" /\ f[i].objs[k][2].covers # <<>>
             /\ f[i].objs[k][2].covers[i].objs[j][2].covers # <<>>
  BY <1>2, <1>5, <1>7 DEF Covering
<1> QED
  BY <1>5, <1>6, <1>7 DEF Covering

\* An update holds nothing but holes.
LEMMA AppendedSigned ==
  ASSUME NEW f, NEW g, NEW p, IsFile(f), IsFile(g), Signed(f), Extends(g, f, p),
         \A j \in DOMAIN p.objs : p.objs[j][2].kind = "sig" => p.objs[j][2].covers = <<>>
  PROVE  Signed(g)
<1>1. Len(f) \in Nat \ {0} /\ IsSeq(f) /\ IsSeq(g) /\ Len(g) = Len(f) + 1 /\ g[Len(f) + 1] = p
      /\ \A i \in 1..Len(f) : g[i] = f[i]
  BY FileIsChained DEF IsFile, Extends
<1>2. ASSUME NEW i \in 1..Len(g), NEW j \in DOMAIN g[i].objs,
             g[i].objs[j][2].kind = "sig", g[i].objs[j][2].covers # <<>>
      PROVE  Len(g[i].objs[j][2].covers) = i /\ Covering(g, i, j)
  <2>1. i # Len(f) + 1
    BY <1>1, <1>2
  <2>2. i \in 1..Len(f) /\ Len(f) \in 0..Len(f) /\ Len(f) <= Len(g)
    BY <1>1, <2>1
  <2> QED
    BY <1>1, <1>2, <2>2, SignedSame
<1> QED
  BY <1>2 DEF Signed

\* A hole that is filled in with all of the file: the signature covers the file as it
\* was, and what another one of the update covers is now out of date, as it had a hole here.
LEMMA FilledSigned ==
  ASSUME NEW f, NEW j, Fillable(f, j), f[Len(f)].objs[j][2].covers = <<>>, Signed(f)
  PROVE  Signed(Fill(f, j, f))
<1> DEFINE n == Len(f)
           g == Fill(f, j, f)
           q == f[n].objs
<1>1. FilledIn(f, g, j, f) /\ Fillable(g, j) /\ Fill(g, j, <<>>) = f
  <2>1. FilledIn(f, g, j, f)
    BY FillFacts
  <2>2. Fillable(g, j) /\ Fill(g, j, <<>>) = Fill(f, j, <<>>)
    BY FillAgain
  <2>3. Fill(f, j, f[Len(f)].objs[j][2].covers) = f
    BY FillAgain
  <2>4. Fill(f, j, <<>>) = f
    BY <2>3
  <2> HIDE DEF g
  <2> QED
    BY <2>1, <2>2, <2>4
<1> HIDE DEF g
<1>2. /\ IsSeq(g) /\ Len(g) = n /\ \A i \in 1..n : i # n => g[i] = f[i]
      /\ IsSeq(g[n].objs) /\ Len(g[n].objs) = Len(q)
      /\ g[n].objs[j] = <<q[j][1], Hole(f, q[j][2].permits)>>
      /\ \A k \in 1..Len(q) : k # j => g[n].objs[k] = q[k]
  BY <1>1 DEF FilledIn
<1>3. n \in Nat /\ n >= 2 /\ IsSeq(f) /\ f # <<>>
  BY SeqIs DEF Fillable, IsFile
<1>4. DOMAIN g[n].objs = 1..Len(q) /\ j \in 1..Len(q) /\ DOMAIN q = 1..Len(q)
  <2>1. DOMAIN g[n].objs = 1..Len(q)
    BY <1>2, SeqIs
  <2>2. Chained(f) /\ n \in 1..n
    BY <1>3, FileIsChained DEF Fillable
  <2>3. DOMAIN q = 1..Len(q)
    BY <2>2, SeqIs DEF Chained
  <2> QED
    BY <2>1, <2>3 DEF Fillable
<1>5. g[n].objs[j][2] = Hole(f, q[j][2].permits)
  <2>1. ASSUME NEW a, NEW b PROVE <<a, b>>[2] = b
    OBVIOUS
  <2> QED
    BY <1>2, <2>1
<1>6. g[n].objs[j][2].kind = "sig" /\ g[n].objs[j][2].covers = f
  BY <1>5 DEF Hole
<1>7. Upto(g, n) = g
  BY <1>2, UptoIs
<1>8. Covering(g, n, j) /\ Len(g[n].objs[j][2].covers) = n
  BY <1>1, <1>6, <1>7 DEF Covering
<1>9. ASSUME NEW k \in 1..Len(q), k # j, g[n].objs[k][2].kind = "sig", g[n].objs[k][2].covers # <<>>
      PROVE  Len(g[n].objs[k][2].covers) = n /\ Covering(g, n, k)
  <2>1. g[n].objs[k] = q[k]
    BY <1>2, <1>9
  <2>2. n \in 1..Len(f)
    BY <1>3
  <2>3. Len(q[k][2].covers) = n
    BY <1>4, <1>9, <2>1, <2>2 DEF Signed
  <2>4. g[n].objs[j][2].covers[n].objs[k][2].covers # <<>>
    BY <1>6, <1>9, <2>1
  <2> QED
    BY <1>3, <1>4, <1>6, <1>9, <2>1, <2>3, <2>4 DEF Covering
<1>10. ASSUME NEW i \in 1..Len(g), NEW k \in DOMAIN g[i].objs,
              g[i].objs[k][2].kind = "sig", g[i].objs[k][2].covers # <<>>
       PROVE  Len(g[i].objs[k][2].covers) = i /\ Covering(g, i, k)
  <2>1. CASE i = n
    <3>1. k \in 1..Len(q)
      BY <1>4, <2>1
    <3> QED
      BY <1>8, <1>9, <1>10, <2>1, <3>1
  <2>2. CASE i # n
    <3>1. i \in 1..n - 1 /\ n - 1 \in 0..Len(f) /\ n - 1 <= Len(g)
      BY <1>2, <1>3, <2>2
    <3>2. \A h \in 1..n - 1 : g[h] = f[h]
      BY <1>2, <1>3
    <3> QED
      BY <1>2, <1>3, <1>10, <3>1, <3>2, SignedSame
  <2> QED
    BY <2>1, <2>2
<1>11. Signed(g)
  BY <1>10 DEF Signed
<1> QED
  BY <1>11 DEF g

---------------------------------------------------------------------------
(***************************************************************************)
(* The inductive invariant.  The document that was saved, the one that a   *)
(* session loaded and the bytes that it wrote are all files; the edits of  *)
(* a session name what is in the one it loaded.                            *)
(***************************************************************************)
IsOutput(o) ==
  /\ o = [bytes |-> o.bytes, shows |-> o.shows]
  /\ IsFile(o.bytes) /\ Len(o.bytes) \in 2..MaxParts

UInv ==
  /\ IsFile(file) /\ Signed(file)
  /\ session = Closed \/ (IsSession(session) /\ Signed(session.base))
  /\ output = Nothing \/ (IsOutput(output) /\ Signed(output.bytes))

LEMMA OpenIs ==
  ASSUME UInv, Open
  PROVE  IsSession(session) /\ Signed(session.base)
  BY DEF UInv, Open, Closed

LEMMA InitHolds == Init => UInv
<1> SUFFICES ASSUME Init PROVE UInv
  OBVIOUS
<1>1. PICK b \in Bases : file = <<b>>
  BY DEF Init
<1>2. IsSeq(file) /\ Len(file) = 1 /\ file[1] = b
  <2>1. IsSeq(<<b>>) /\ Len(<<b>>) = 1 /\ <<b>>[1] = b
    BY Singles
  <2> QED
    BY <1>1, <2>1
<1>3. IsFile(file)
  BY <1>2 DEF IsFile
<1>4. Signed(file)
  BY <1>2, <1>3, BaseIsSigned
<1> QED
  BY <1>3, <1>4 DEF Init, UInv

LEMMA WriteIs ==
  ASSUME IsSession(session), Signed(session.base), WriteIncremental
  PROVE  /\ IsOutput(output') /\ Signed(output'.bytes)
         /\ Extends(output'.bytes, session.base, Update(NewObjects))
<1> DEFINE b == session.base
           u == Update(NewObjects)
           g == Append(b, u)
<1>1. output' = [bytes |-> g, shows |-> Asked]
  BY DEF WriteIncremental
<1>2. IsFile(b) /\ session.prev \in 1..Len(b) /\ Len(b) < MaxParts
  BY LowIs DEF IsSession, Loaded
<1>3. IsUpdate(u, b[1]) /\ u.objs = NewObjects /\ u.prev = session.prev /\ u.end > b[Len(b)].end
  BY UpdateIs
<1>4. \A j \in DOMAIN u.objs : u.objs[j][2].kind = "sig" => u.objs[j][2].covers = <<>>
  <2>1. \A j \in DOMAIN NewObjects : NewObjects[j] \in ToSet(NewObjects)
    BY DEF ToSet
  <2> QED
    BY <1>3, <2>1, NewEntry
<1> HIDE DEF u
<1>5. IsFile(g) /\ Extends(g, b, u)
  BY <1>2, <1>3, AppendedFile
<1>6. Signed(g)
  <2> HIDE DEF g
  <2> QED
    BY <1>2, <1>4, <1>5, AppendedSigned
<1>7. Len(g) \in 2..MaxParts
  <2>1. Len(b) \in Nat \ {0} /\ Len(g) = Len(b) + 1
    BY <1>2, <1>5, FileIsChained DEF Extends
  <2> DEFINE m == Len(b)
  <2>2. m \in Nat \ {0} /\ m < MaxParts /\ Len(g) = m + 1
    BY <1>2, <2>1
  <2> HIDE DEF m, g, b
  <2>3. m + 1 \in 2..MaxParts
    BY <2>2, BoundsAre
  <2> QED
    BY <2>2, <2>3
<1>8. output' = [bytes |-> output'.bytes, shows |-> output'.shows] /\ output'.bytes = g
  BY <1>1
<1> HIDE DEF g
<1> QED
  BY <1>5, <1>6, <1>7, <1>8 DEF IsOutput, u

LEMMA ApplyIs ==
  ASSUME UInv, NEW j, ApplySignature(j)
  PROVE  /\ IsOutput(output) /\ Fillable(output.bytes, j)
         /\ output.bytes[Len(output.bytes)].objs[j][2].covers = <<>>
         /\ IsOutput(output') /\ Signed(output'.bytes)
         /\ output'.bytes = Fill(output.bytes, j, output.bytes) /\ output'.shows = output.shows
<1> DEFINE f == output.bytes
           g == Fill(f, j, f)
<1>1. IsOutput(output) /\ Signed(f)
  BY DEF UInv, ApplySignature
<1>2. Len(f) \in 2..MaxParts /\ IsFile(f)
  BY <1>1 DEF IsOutput
<1>3. Len(f) >= 2
  BY <1>2, BoundsAre
<1>4. Fillable(f, j) /\ f[Len(f)].objs[j][2].covers = <<>>
  BY <1>2, <1>3 DEF ApplySignature, Last, Fillable
<1>5. output' = [output EXCEPT !.bytes = Fill(@, j, @)] /\ output = [bytes |-> f, shows |-> output.shows]
  BY <1>1 DEF ApplySignature, IsOutput
<1>6. IsFile(g) /\ Len(g) = Len(f)
  <2>1. FilledIn(f, g, j, f)
    BY <1>4, FillFacts
  <2> QED
    BY <1>4, <2>1, FillKeepsFile DEF FilledIn
<1>7. Signed(g)
  BY <1>1, <1>4, FilledSigned
<1>8. output' = [bytes |-> g, shows |-> output.shows]
  BY <1>5
<1> HIDE DEF g
<1>9. output'.bytes = g /\ output'.shows = output.shows
  BY <1>8
<1>10. IsOutput(output')
  BY <1>2, <1>6, <1>8, <1>9 DEF IsOutput
<1> QED
  BY <1>1, <1>4, <1>7, <1>9, <1>10 DEF g

LEMMA StepHolds == UInv /\ [Next]_vars => UInv'
<1> SUFFICES ASSUME UInv, [Next]_vars PROVE UInv'
  OBVIOUS
<1>1. CASE LoadExisting
  <2>1. IsFile(file) /\ Signed(file)
    BY DEF UInv
  <2>2. IsSession(session') /\ session'.base = file
    BY <1>1, <2>1, LoadKeeps
  <2> QED
    BY <1>1, <2>1, <2>2 DEF UInv, LoadExisting
<1>2. CASE Open /\ \E n \in ToSet(FieldsOf(session.base)), v \in Values : SetField(n, v)
  <2>1. IsSession(session) /\ Signed(session.base)
    BY <1>2, OpenIs
  <2>2. IsSession(session') /\ session'.base = session.base
    BY <1>2, <2>1, SetFieldKeeps
  <2> QED
    BY <1>2, <2>1, <2>2 DEF UInv, SetField
<1>3. CASE \E t \in Texts, markup \in BOOLEAN : AddAnnot(t, markup)
  <2>1. PICK t \in Texts, markup \in BOOLEAN : AddAnnot(t, markup)
    BY <1>3
  <2>2. IsSession(session) /\ Signed(session.base) /\ Editing
    BY <2>1, OpenIs DEF AddAnnot, Editing
  <2>3. session' = [session EXCEPT !.annots =
                      Append(@, [kind |-> "add", text |-> t, markup |-> markup])]
    BY <2>1 DEF AddAnnot
  <2>4. IsSession(session') /\ session'.base = session.base
    BY <2>2, <2>3, AnnotsKeep
  <2> QED
    BY <2>1, <2>2, <2>4 DEF UInv, AddAnnot
<1>4. CASE Open /\ \E i \in DOMAIN Annots(session.base) : DeleteAnnot(i)
  <2>1. PICK i : DeleteAnnot(i)
    BY <1>4
  <2>2. IsSession(session) /\ Signed(session.base) /\ Editing
    BY <2>1, OpenIs DEF DeleteAnnot, Editing
  <2>3. session' = [session EXCEPT !.annots = Append(@, [kind |-> "delete", index |-> i])]
    BY <2>1 DEF DeleteAnnot
  <2>4. IsSession(session') /\ session'.base = session.base
    BY <2>2, <2>3, AnnotsKeep
  <2> QED
    BY <2>1, <2>2, <2>4 DEF UInv, DeleteAnnot
<1>5. CASE \E p \in Permissions : AddSignatureField(p)
  <2>1. PICK p \in Permissions : AddSignatureField(p)
    BY <1>5
  <2>2. IsSession(session) /\ Signed(session.base)
    BY <2>1, OpenIs DEF AddSignatureField, Editing
  <2>3. IsSession(session') /\ session'.base = session.base
    BY <2>1, <2>2, AddSignatureKeeps
  <2> QED
    BY <2>1, <2>2, <2>3 DEF UInv, AddSignatureField
<1>6. CASE WriteIncremental
  <2>1. IsSession(session) /\ Signed(session.base)
    BY <1>6, OpenIs DEF WriteIncremental
  <2>2. IsSession(session') /\ session'.base = session.base
    BY <1>6, <2>1, WriteKeeps
  <2>3. IsOutput(output') /\ Signed(output'.bytes)
    BY <1>6, <2>1, WriteIs
  <2> QED
    BY <1>6, <2>1, <2>2, <2>3 DEF UInv, WriteIncremental
<1>7. CASE output # Nothing /\ \E j \in DOMAIN Last(output.bytes).objs : ApplySignature(j)
  <2>1. PICK j : ApplySignature(j)
    BY <1>7
  <2>2. IsOutput(output') /\ Signed(output'.bytes)
    BY <2>1, ApplyIs
  <2> QED
    BY <2>1, <2>2 DEF UInv, ApplySignature
<1>8. CASE Save
  BY <1>8 DEF UInv, Save, IsOutput
<1>9. CASE UNCHANGED vars
  BY <1>9 DEF UInv, vars
<1> QED
  BY <1>1, <1>2, <1>3, <1>4, <1>5, <1>6, <1>7, <1>8, <1>9 DEF Next

\* The invariant holds throughout.
THEOREM UpdatesInvariance == Spec => []UInv
  BY InitHolds, StepHolds, PTL DEF Spec

\* Types: what write_incremental_for_signing appends links back into the file.
THEOREM UpdatesTypes == Spec => []TypeOK
<1>1. UInv => TypeOK
  <2> SUFFICES ASSUME UInv PROVE TypeOK
    OBVIOUS
  <2>1. Len(file) \in Nat \ {0} /\ DOMAIN file = 1..Len(file) /\ file # <<>>
    <3>1. IsSeq(file) /\ IsFile(file)
      BY DEF UInv, IsFile
    <3> QED
      BY <3>1, FileIsChained, SeqIs
  <2>2. \A i \in 1..Len(file) : i = 1 \/ i \in 2..Len(file)
    BY <2>1
  <2>3. file[1].prev = 0
    BY BaseIs DEF UInv, IsFile
  <2>4. \A i \in DOMAIN file : file[i].prev \in 0..i - 1
    <3>1. \A i \in 2..Len(file) : file[i].prev \in 1..i - 1
      BY DEF UInv, IsFile
    <3> QED
      BY <2>1, <2>2, <2>3, <3>1
  <2>5. Open => /\ session.base # <<>> /\ session.prev \in DOMAIN session.base
                /\ session.next \in Nat /\ Edits \in 0..MaxEdits
    <3> SUFFICES ASSUME Open PROVE /\ session.base # <<>> /\ session.prev \in DOMAIN session.base
                                   /\ session.next \in Nat /\ Edits \in 0..MaxEdits
      OBVIOUS
    <3>1. IsSession(session)
      BY OpenIs
    <3>2. IsFile(session.base) /\ session.prev \in 1..Len(session.base) /\ session.next \in Nat
      BY <3>1, LowIs
    <3>3. DOMAIN session.base = 1..Len(session.base)
      BY <3>2, FileIsChained
    <3> DEFINE a == Len(session.fields)
               b == Len(session.annots)
               c == Len(session.signatures)
    <3>4. a \in Nat /\ b \in Nat /\ c \in Nat /\ a + b + c <= MaxEdits /\ Edits = a + b + c
      BY <3>1, SeqIs DEF IsSession, Edited, Numbered, NumberedBy, Edits
    <3> HIDE DEF a, b, c
    <3>5. a + b + c \in 0..MaxEdits
      BY <3>4, BoundsAre
    <3> QED
      BY <3>2, <3>3, <3>4, <3>5 DEF Open
  <2>6. output # Nothing => Len(output.bytes) <= MaxParts
    <3>1. output # Nothing => Len(output.bytes) \in 2..MaxParts
      BY DEF UInv, IsOutput
    <3> QED
      BY <3>1, BoundsAre
  <2> QED
    BY <2>1, <2>4, <2>5, <2>6 DEF TypeOK
<1> QED
  BY <1>1, UpdatesInvariance, PTL

\* apply_signature: what a signature covers stays as it was, in every later file.
THEOREM SignaturesStand == Spec => []SignaturesHold
<1>1. UInv => SignaturesHold
  <2> SUFFICES ASSUME UInv PROVE SignaturesHold
    OBVIOUS
  <2>1. Signed(file) /\ DOMAIN file = 1..Len(file)
    BY FileIsChained DEF UInv
  <2> QED
    BY <2>1 DEF SignaturesHold, Signed, Covering, Upto
<1> QED
  BY <1>1, UpdatesInvariance, PTL

---------------------------------------------------------------------------
(* Where updates are long, the last section is the one that is found. *)

Reached(f) == LongUpdates(f) /\ (Len(f) > 1 => Long(f, Len(f)))

LEMMA LastIsFound ==
  ASSUME NEW f, IsFile(f), Reached(f)
  PROVE  StartSection(f) = Len(f) /\ Trailer(f, StartSection(f)) = f[Len(f)]
<1> DEFINE n == Len(f)
           k == StartSection(f)
<1>1. n \in Nat \ {0} /\ \A i \in 1..n : f[i].end \in Nat
  BY FileIsChained, SizeIs
<1>2. k \in 1..n /\ InWindow(f, k)
  BY SectionIs
<1>3. k = n
  <2> SUFFICES ASSUME k # n PROVE FALSE
    OBVIOUS
  <2> HIDE DEF k
  <2>1. n > 1 /\ n - 1 \in 1..n /\ k <= n - 1 /\ n \in 1..n
    BY <1>1, <1>2
  <2>2. f[n].end - f[n - 1].end >= Window
    BY <2>1 DEF Reached, Long
  <2>3. f[k].end <= f[n - 1].end
    <3>1. k < n - 1 => f[k].end < f[n - 1].end
      BY <1>2, <2>1 DEF IsFile
    <3>2. f[k].end \in Nat /\ f[n - 1].end \in Nat
      BY <1>1, <1>2, <2>1
    <3> QED
      BY <1>1, <1>2, <2>1, <3>1, <3>2
  <2>4. f[n].end - f[k].end < Window
    BY <1>2 DEF InWindow
  <2>5. f[n].end \in Nat /\ f[k].end \in Nat /\ f[n - 1].end \in Nat
    BY <1>1, <1>2, <2>1
  <2> QED
    BY <2>2, <2>3, <2>4, <2>5, WindowAssumption
<1>4. Trailer(f, n) = f[n]
  <2>1. PICK h \in n..Len(f) : Trailer(f, n) = f[h]
    <3>1. n \in 1..n
      BY <1>1
    <3> QED
      BY <3>1, SizeIs
  <2>2. h = n
    BY <1>1, <2>1
  <2> QED
    BY <2>1, <2>2
<1> HIDE DEF k
<1> QED
  BY <1>3, <1>4 DEF k

\* Numbers rise from part to part.
Rising(f) ==
  \A i \in 2..Len(f) :
    /\ f[i].prev = i - 1
    /\ f[i].size >= f[i - 1].size
    /\ \A j \in DOMAIN f[i].objs : f[i].objs[j][2].kind \in Fresh => f[i].objs[j][1] >= f[i - 1].size

\* Those of a part are below its size, and tell its objects apart.
Apart(p) ==
  /\ \A j \in DOMAIN p.objs : p.objs[j][1] < p.size
  /\ \A j, k \in DOMAIN p.objs :
       p.objs[j][1] = p.objs[k][1] => p.objs[j][2].kind = p.objs[k][2].kind

Sound(f) ==
  /\ \A i \in 1..Len(f) : Apart(f[i])
  /\ LongUpdates(f) => Rising(f)

LEMMA BaseIsSound ==
  ASSUME NEW f, IsFile(f), Len(f) = 1
  PROVE  Sound(f)
<1>1. f[1] \in Bases
  BY DEF IsFile
<1>2. WellMade(f[1])
  BY <1>1, BasesAssumption
<1>3. \A j \in DOMAIN f[1].objs : f[1].objs[j][1] < f[1].size
  BY <1>1, BaseIs
<1>4. \A j, k \in DOMAIN f[1].objs : f[1].objs[j][1] = f[1].objs[k][1] => j = k
  BY <1>2 DEF WellMade
<1>5. Apart(f[1])
  BY <1>3, <1>4 DEF Apart
<1>6. \A i \in 1..Len(f) : i = 1
  OBVIOUS
<1>7. 2..Len(f) = {}
  OBVIOUS
<1> QED
  BY <1>5, <1>6, <1>7 DEF Sound, Rising

LEMMA NewApart ==
  ASSUME IsSession(session)
  PROVE  Apart(Update(NewObjects))
<1> DEFINE u == Update(NewObjects)
<1>1. u.objs = NewObjects /\ u.size = NextNumber
  BY UpdateIs
<1>2. \A j \in DOMAIN NewObjects : NewObjects[j] \in ToSet(NewObjects)
  BY DEF ToSet
<1>3. \A j \in DOMAIN NewObjects : NewObjects[j][1] < NextNumber
  BY <1>2, NewEntry
<1>4. ASSUME NEW j \in DOMAIN NewObjects, NEW k \in DOMAIN NewObjects,
             NewObjects[j][1] = NewObjects[k][1]
      PROVE  NewObjects[j][2].kind = NewObjects[k][2].kind
  BY <1>2, <1>4, NewKinds
<1> HIDE DEF u
<1> QED
  BY <1>1, <1>3, <1>4 DEF Apart, u

LEMMA WrittenSound ==
  ASSUME IsSession(session), Sound(session.base), NEW g, IsFile(g),
         Extends(g, session.base, Update(NewObjects))
  PROVE  /\ Sound(g)
         /\ LongUpdates(g) => /\ Reached(session.base)
                              /\ Linked(session.base) /\ Linked(g)
                              /\ Low(session) = session.base[Len(session.base)].size
<1> DEFINE b == session.base
           u == Update(NewObjects)
           n == Len(b)
<1>1. /\ IsFile(b) /\ n \in Nat \ {0} /\ Len(g) = n + 1 /\ g[n + 1] = u /\ \A i \in 1..n : g[i] = b[i]
  <2>1. IsFile(b)
    BY LowIs
  <2>2. n \in Nat \ {0}
    BY <2>1, FileIsChained
  <2> QED
    BY <2>1, <2>2 DEF Extends
<1>2. /\ u.objs = NewObjects /\ u.prev = session.prev /\ u.size = NextNumber
      /\ u.size \in Nat /\ u.size >= session.next /\ Apart(u)
  BY UpdateIs, NewApart
<1>3. /\ session.next \in Nat /\ session.next >= Low(session) /\ Low(session) \in Nat
  BY LowIs
<1>4. session.prev = StartSection(b)
  BY DEF IsSession, Loaded
<1>5. \A j \in DOMAIN u.objs : u.objs[j][2].kind \in Fresh => u.objs[j][1] >= Low(session)
  <2>1. \A j \in DOMAIN NewObjects : NewObjects[j] \in ToSet(NewObjects)
    BY DEF ToSet
  <2> QED
    BY <1>2, <2>1, NewEntry
<1> HIDE DEF u, b
<1>6. \A i \in 1..n + 1 : Apart(g[i])
  <2>1. \A i \in 1..n + 1 : i \in 1..n \/ i = n + 1
    BY <1>1
  <2> QED
    BY <1>1, <1>2, <2>1 DEF Sound, b
<1>7. ASSUME LongUpdates(g)
      PROVE  Reached(b) /\ Linked(b) /\ Linked(g) /\ Low(session) = b[n].size /\ Rising(g)
  <2>1. \A i \in 2..n : Long(b, i)
    <3>1. \A i \in 2..n : i \in 2..Len(g) - 1 /\ i \in 1..n /\ i - 1 \in 1..n
      BY <1>1
    <3> QED
      BY <1>1, <1>7, <3>1 DEF LongUpdates, Long
  <2>2. Reached(b)
    <3>1. \A i \in 2..n - 1 : i \in 2..n
      BY <1>1
    <3>2. n > 1 => n \in 2..n
      BY <1>1
    <3> QED
      BY <2>1, <3>1, <3>2 DEF Reached, LongUpdates
  <2>3. session.prev = n /\ Low(session) = b[n].size
    BY <1>1, <1>4, <2>2, LastIsFound DEF Low, b
  <2>4. Rising(b)
    BY <2>2 DEF Reached, Sound, b
  <2>5. Rising(g)
    <3>1. ASSUME NEW i \in 2..n + 1
          PROVE  /\ g[i].prev = i - 1
                 /\ g[i].size >= g[i - 1].size
                 /\ \A j \in DOMAIN g[i].objs :
                      g[i].objs[j][2].kind \in Fresh => g[i].objs[j][1] >= g[i - 1].size
      <4>1. CASE i = n + 1
        <5>1. i - 1 = n /\ n \in 1..n /\ g[i] = u /\ g[i - 1] = b[n]
          BY <1>1, <4>1
        <5>2. u.size >= b[n].size
          BY <1>2, <1>3, <2>3
        <5> QED
          BY <1>2, <1>5, <2>3, <5>1, <5>2
      <4>2. CASE i # n + 1
        <5>1. i \in 2..n /\ i \in 1..n /\ i - 1 \in 1..n
          BY <1>1, <4>2
        <5>2. g[i] = b[i] /\ g[i - 1] = b[i - 1]
          BY <1>1, <5>1
        <5> QED
          BY <2>4, <5>1, <5>2 DEF Rising
      <4> QED
        BY <4>1, <4>2
    <3> QED
      BY <1>1, <3>1 DEF Rising
  <2>6. Linked(b) /\ Linked(g)
    BY <2>4, <2>5 DEF Rising, Linked
  <2> QED
    BY <2>2, <2>3, <2>5, <2>6
<1> QED
  BY <1>1, <1>6, <1>7 DEF Sound, b, u

\* Files that differ in nothing but what their signatures cover.
Alike(f, g) ==
  /\ Len(g) = Len(f) /\ g[1] = f[1]
  /\ \A i \in 1..Len(f) :
       /\ g[i].size = f[i].size /\ g[i].end = f[i].end /\ g[i].prev = f[i].prev
       /\ DOMAIN g[i].objs = DOMAIN f[i].objs
       /\ \A k \in DOMAIN f[i].objs :
            /\ g[i].objs[k][1] = f[i].objs[k][1] /\ g[i].objs[k][2].kind = f[i].objs[k][2].kind
            /\ g[i].objs[k][2] = f[i].objs[k][2] \/ f[i].objs[k][2].kind = "sig"

LEMMA FilledAlike ==
  ASSUME NEW f, NEW j, NEW c, Fillable(f, j)
  PROVE  Alike(f, Fill(f, j, c))
<1> DEFINE g == Fill(f, j, c)
           n == Len(f)
<1>1. FilledIn(f, g, j, c)
  BY FillFacts
<1> HIDE DEF g
<1>2. n \in Nat /\ n \in 1..n /\ Chained(f)
  <2>1. Chained(f) /\ n \in Nat \ {0}
    BY FileIsChained DEF Fillable
  <2> QED
    BY <2>1
<1>3. /\ Len(g) = n /\ \A i \in 1..n : i # n => g[i] = f[i]
      /\ \A x \in PartFields : x # "objs" => g[n][x] = f[n][x]
      /\ IsSeq(g[n].objs) /\ Len(g[n].objs) = Len(f[n].objs)
      /\ g[n].objs[j] = <<f[n].objs[j][1], Hole(c, f[n].objs[j][2].permits)>>
      /\ \A k \in 1..Len(f[n].objs) : k # j => g[n].objs[k] = f[n].objs[k]
  BY <1>1 DEF FilledIn
<1>4. g[n].size = f[n].size /\ g[n].end = f[n].end /\ g[n].prev = f[n].prev
  BY <1>3 DEF PartFields
<1>5. DOMAIN g[n].objs = DOMAIN f[n].objs /\ DOMAIN f[n].objs = 1..Len(f[n].objs)
  BY <1>2, <1>3, SeqIs DEF Chained
<1>6. ASSUME NEW k \in DOMAIN f[n].objs
      PROVE  /\ g[n].objs[k][1] = f[n].objs[k][1] /\ g[n].objs[k][2].kind = f[n].objs[k][2].kind
             /\ g[n].objs[k][2] = f[n].objs[k][2] \/ f[n].objs[k][2].kind = "sig"
  <2>1. CASE k = j
    <3>1. ASSUME NEW a, NEW b PROVE <<a, b>>[1] = a /\ <<a, b>>[2] = b
      OBVIOUS
    <3>2. g[n].objs[k][1] = f[n].objs[k][1] /\ g[n].objs[k][2] = Hole(c, f[n].objs[j][2].permits)
      BY <1>3, <2>1, <3>1
    <3> QED
      BY <2>1, <3>2 DEF Hole, Fillable
  <2>2. CASE k # j
    BY <1>3, <1>5, <2>2
  <2> QED
    BY <2>1, <2>2
<1>7. g[1] = f[1]
  BY <1>2, <1>3, SeqIs DEF Fillable
<1>8. ASSUME NEW i \in 1..n
      PROVE  /\ g[i].size = f[i].size /\ g[i].end = f[i].end /\ g[i].prev = f[i].prev
             /\ DOMAIN g[i].objs = DOMAIN f[i].objs
             /\ \A k \in DOMAIN f[i].objs :
                  /\ g[i].objs[k][1] = f[i].objs[k][1] /\ g[i].objs[k][2].kind = f[i].objs[k][2].kind
                  /\ g[i].objs[k][2] = f[i].objs[k][2] \/ f[i].objs[k][2].kind = "sig"
  <2>1. CASE i = n
    BY <1>4, <1>5, <1>6, <2>1
  <2>2. CASE i # n
    BY <1>3, <2>2
  <2> QED
    BY <2>1, <2>2
<1>9. Alike(f, g)
  BY <1>3, <1>7, <1>8 DEF Alike
<1> QED
  BY <1>9 DEF g

LEMMA FilledSound ==
  ASSUME NEW f, NEW j, NEW c, Fillable(f, j), Sound(f)
  PROVE  Sound(Fill(f, j, c))
<1> DEFINE g == Fill(f, j, c)
           n == Len(f)
<1>1. Alike(f, g)
  BY FilledAlike
<1> HIDE DEF g
<1>2. n \in Nat
  BY FileIsChained DEF Fillable
<1>3. Len(g) = n
  BY <1>1 DEF Alike
<1>7. \A i \in 1..n :
        /\ g[i].size = f[i].size /\ g[i].end = f[i].end /\ g[i].prev = f[i].prev
        /\ DOMAIN g[i].objs = DOMAIN f[i].objs
        /\ \A k \in DOMAIN f[i].objs :
             g[i].objs[k][1] = f[i].objs[k][1] /\ g[i].objs[k][2].kind = f[i].objs[k][2].kind
  BY <1>1 DEF Alike
<1>8. \A i \in 1..n : Apart(g[i])
  BY <1>7 DEF Sound, Apart
<1>9. ASSUME LongUpdates(g) PROVE Rising(g)
  <2>1. LongUpdates(f)
    <3>1. \A i \in 2..n - 1 : i \in 1..n /\ i - 1 \in 1..n
      BY <1>2
    <3> QED
      BY <1>3, <1>7, <1>9, <3>1 DEF LongUpdates, Long
  <2>2. Rising(f)
    BY <2>1 DEF Sound
  <2>3. \A i \in 2..n : i \in 1..n /\ i - 1 \in 1..n
    BY <1>2
  <2>4. ASSUME NEW i \in 2..n
        PROVE  /\ g[i].prev = i - 1 /\ g[i].size >= g[i - 1].size
               /\ \A k \in DOMAIN g[i].objs :
                    g[i].objs[k][2].kind \in Fresh => g[i].objs[k][1] >= g[i - 1].size
    <3>1. i \in 1..n /\ i - 1 \in 1..n
      BY <2>3
    <3>2. f[i].prev = i - 1 /\ f[i].size >= f[i - 1].size
          /\ \A k \in DOMAIN f[i].objs :
               f[i].objs[k][2].kind \in Fresh => f[i].objs[k][1] >= f[i - 1].size
      BY <2>2 DEF Rising
    <3>3. g[i].prev = f[i].prev /\ g[i].size = f[i].size /\ g[i - 1].size = f[i - 1].size
      BY <1>7, <3>1
    <3>4. DOMAIN g[i].objs = DOMAIN f[i].objs
      BY <1>7, <3>1
    <3>5. \A k \in DOMAIN f[i].objs :
            g[i].objs[k][1] = f[i].objs[k][1] /\ g[i].objs[k][2].kind = f[i].objs[k][2].kind
      BY <1>7, <3>1
    <3> QED
      BY <3>2, <3>3, <3>4, <3>5
  <2> QED
    BY <1>3, <2>4 DEF Rising
<1>10. Sound(g)
  BY <1>3, <1>8, <1>9 DEF Sound
<1> QED
  BY <1>10 DEF g

SInv ==
  /\ Sound(file)
  /\ Open => Sound(session.base)
  /\ output # Nothing => Sound(output.bytes)

LEMMA SoundInit == Init => SInv
<1> SUFFICES ASSUME Init PROVE SInv
  OBVIOUS
<1>1. UInv
  BY InitHolds
<1>2. PICK b : file = <<b>>
  BY DEF Init
<1>3. Len(file) = 1
  <2>1. Len(<<b>>) = 1
    BY Singles
  <2> QED
    BY <1>2, <2>1
<1>4. Sound(file)
  BY <1>1, <1>3, BaseIsSound DEF UInv
<1> QED
  BY <1>4 DEF Init, SInv, Open, Closed

\* Whatever a session does but write, it has the document it loaded.
LEMMA StaysLoaded ==
  ASSUME UInv, Open, [Next]_vars
  PROVE  session'.base = session.base \/ (LoadExisting /\ session'.base = file)
<1>1. IsSession(session)
  BY OpenIs
<1>2. CASE LoadExisting
  BY <1>2, LoadKeeps DEF UInv
<1>3. CASE \E n \in ToSet(FieldsOf(session.base)), v \in Values : SetField(n, v)
  BY <1>1, <1>3, SetFieldKeeps
<1>4. CASE \E t \in Texts, markup \in BOOLEAN : AddAnnot(t, markup)
  <2>1. PICK t \in Texts, markup \in BOOLEAN : AddAnnot(t, markup)
    BY <1>4
  <2> QED
    BY <1>1, <2>1, AnnotsKeep DEF AddAnnot
<1>5. CASE \E i \in DOMAIN Annots(session.base) : DeleteAnnot(i)
  <2>1. PICK i : DeleteAnnot(i)
    BY <1>5
  <2> QED
    BY <1>1, <2>1, AnnotsKeep DEF DeleteAnnot
<1>6. CASE \E p \in Permissions : AddSignatureField(p)
  BY <1>1, <1>6, AddSignatureKeeps
<1>7. CASE WriteIncremental
  BY <1>1, <1>7, WriteKeeps
<1>8. CASE \E j \in DOMAIN Last(output.bytes).objs : ApplySignature(j)
  BY <1>8 DEF ApplySignature
<1>9. CASE Save
  BY <1>9 DEF Save
<1>10. CASE UNCHANGED vars
  BY <1>10 DEF vars
<1> QED
  BY <1>2, <1>3, <1>4, <1>5, <1>6, <1>7, <1>8, <1>9, <1>10 DEF Next

\* A document is loaded before anything is done with it.
LEMMA OpensByLoading ==
  ASSUME UInv, ~Open, [Next]_vars, Open'
  PROVE  LoadExisting /\ session'.base = file
<1>1. CASE LoadExisting
  BY <1>1, LoadKeeps DEF UInv
<1>2. CASE ~LoadExisting
  <2>1. session' = session
    BY <1>2 DEF Next, SetField, AddAnnot, DeleteAnnot, AddSignatureField, Editing,
                WriteIncremental, ApplySignature, Save, vars
  <2> QED
    BY <2>1 DEF Open
<1> QED
  BY <1>1, <1>2

LEMMA SoundStep == UInv /\ SInv /\ [Next]_vars => SInv'
<1> SUFFICES ASSUME UInv, SInv, [Next]_vars PROVE SInv'
  OBVIOUS
<1>1. Open' => Sound(session'.base)
  BY StaysLoaded, OpensByLoading DEF SInv
<1>2. CASE WriteIncremental
  <2>1. Open /\ IsSession(session) /\ Signed(session.base) /\ Sound(session.base)
    BY <1>2, OpenIs DEF WriteIncremental, SInv
  <2>2. IsFile(output'.bytes) /\ Extends(output'.bytes, session.base, Update(NewObjects))
    BY <1>2, <2>1, WriteIs DEF IsOutput
  <2>3. Sound(output'.bytes)
    BY <2>1, <2>2, WrittenSound
  <2> QED
    BY <1>1, <1>2, <2>3 DEF SInv, WriteIncremental
<1>3. CASE \E j \in DOMAIN Last(output.bytes).objs : ApplySignature(j)
  <2>1. PICK j : ApplySignature(j)
    BY <1>3
  <2>2. Fillable(output.bytes, j) /\ output'.bytes = Fill(output.bytes, j, output.bytes)
    BY <2>1, ApplyIs
  <2>3. Sound(output'.bytes)
    BY <2>1, <2>2, FilledSound DEF SInv, ApplySignature
  <2> QED
    BY <1>1, <2>1, <2>3 DEF SInv, ApplySignature
<1>4. CASE Save
  BY <1>1, <1>4 DEF SInv, Save
<1>5. CASE LoadExisting
  BY <1>1, <1>5 DEF SInv, LoadExisting
<1>6. CASE UNCHANGED <<file, meant, output>>
  BY <1>1, <1>6 DEF SInv
<1> QED
  BY <1>2, <1>3, <1>4, <1>5, <1>6 DEF Next, SetField, AddAnnot, DeleteAnnot, AddSignatureField, vars

THEOREM SoundInvariance == Spec => []SInv
  BY UpdatesInvariance, SoundInit, SoundStep, PTL DEF Spec

\* Sizes rise from the first part to the last.
LEMMA SizesRise ==
  ASSUME NEW f, IsFile(f), Rising(f)
  PROVE  \A a, c \in 1..Len(f) : a <= c => f[a].size <= f[c].size
<1>1. Len(f) \in Nat \ {0}
  BY FileIsChained
<1>2. \A a \in 1..Len(f) : f[a].size \in Nat
  BY SizeIs
<1> DEFINE S == {d \in Nat : \A a \in 1..Len(f) : a + d <= Len(f) => f[a].size <= f[a + d].size}
<1>3. 0 \in S
  <2>1. \A a \in 1..Len(f) : a + 0 = a /\ f[a].size <= f[a].size
    BY <1>1, <1>2
  <2> QED
    BY <2>1
<1>4. ASSUME NEW d \in Nat, d \in S PROVE d + 1 \in S
  <2>1. ASSUME NEW a \in 1..Len(f), a + (d + 1) <= Len(f) PROVE f[a].size <= f[a + (d + 1)].size
    <3>1. a + d \in 1..Len(f) /\ a + d <= Len(f) /\ a + (d + 1) \in 2..Len(f) /\ (a + (d + 1)) - 1 = a + d
          /\ a + (d + 1) \in 1..Len(f)
      BY <1>1, <2>1
    <3>2. f[a].size <= f[a + d].size
      BY <1>4, <3>1
    <3>3. f[a + (d + 1)].size >= f[a + d].size
      BY <1>1, <3>1 DEF Rising
    <3> QED
      BY <1>2, <3>1, <3>2, <3>3
  <2> QED
    BY <2>1
<1>5. Nat \subseteq S
  <2> HIDE DEF S
  <2> QED
    BY <1>3, <1>4, Inherited
<1>6. ASSUME NEW a \in 1..Len(f), NEW c \in 1..Len(f), a <= c PROVE f[a].size <= f[c].size
  <2>1. c - a \in Nat /\ a + (c - a) = c /\ c <= Len(f)
    BY <1>1, <1>6
  <2>2. c - a \in S
    BY <1>5, <2>1
  <2> QED
    BY <2>1, <2>2
<1> QED
  BY <1>6

\* Numbers and their kinds.
LEMMA KindsStay ==
  ASSUME NEW f, IsFile(f), Sound(f), LongUpdates(f),
         NEW i \in 1..Len(f), NEW h \in 1..Len(f),
         NEW k \in DOMAIN f[i].objs, NEW m \in DOMAIN f[h].objs,
         f[i].objs[k][1] = f[h].objs[m][1]
  PROVE  f[i].objs[k][2].kind = f[h].objs[m][2].kind
<1>1. Len(f) \in Nat \ {0} /\ Rising(f)
  BY FileIsChained DEF Sound
<1>2. \A a \in 1..Len(f) : f[a].size \in Nat
  BY SizeIs
<1>6. ASSUME NEW a \in 1..Len(f), NEW c \in 1..Len(f), a <= c PROVE f[a].size <= f[c].size
  BY <1>1, <1>6, SizesRise
<1>7. ASSUME NEW a \in 1..Len(f), NEW c \in 1..Len(f), a < c,
             NEW x \in DOMAIN f[a].objs, NEW y \in DOMAIN f[c].objs,
             f[c].objs[y][2].kind \in Fresh
      PROVE  f[a].objs[x][1] # f[c].objs[y][1]
  <2>1. c \in 2..Len(f) /\ c - 1 \in 1..Len(f) /\ a <= c - 1
    BY <1>1, <1>7
  <2>2. f[c].objs[y][1] >= f[c - 1].size /\ f[c - 1].size >= f[a].size
    BY <1>1, <1>6, <1>7, <2>1 DEF Rising
  <2>3. f[a].objs[x][1] < f[a].size
    BY DEF Sound, Apart
  <2>4. f[a].objs[x][1] \in Nat /\ f[c].objs[y][1] \in Nat /\ f[a].size \in Nat /\ f[c - 1].size \in Nat
    BY <1>2, <2>1, Roles
  <2> QED
    BY <2>2, <2>3, <2>4
<1> DEFINE o == f[i].objs[k][2]
           q == f[h].objs[m][2]
<1>8. /\ o.kind = "catalog" <=> q.kind = "catalog"
      /\ o.kind = "page" <=> q.kind = "page"
      /\ o.kind = "field" <=> q.kind = "field"
      /\ o.kind \in {"catalog", "page", "field"} \union Fresh
      /\ q.kind \in {"catalog", "page", "field"} \union Fresh
  <2> DEFINE a == f[i].objs[k][1]
             b == f[h].objs[m][1]
  <2>1. /\ IsObject(o)
        /\ o.kind = "catalog" <=> a = Root
        /\ o.kind = "page" <=> a = Page
        /\ o.kind = "field" <=> a \in f[1].fields
    BY Roles
  <2>2. /\ IsObject(q)
        /\ q.kind = "catalog" <=> b = Root
        /\ q.kind = "page" <=> b = Page
        /\ q.kind = "field" <=> b \in f[1].fields
    BY Roles
  <2>3. a = b
    OBVIOUS
  <2> HIDE DEF o, q, a, b
  <2> QED
    BY <2>1, <2>2, <2>3 DEF IsObject
<1>9. CASE i = h
  BY <1>9 DEF Sound, Apart
<1>10. CASE i # h
  <2>1. i < h \/ h < i
    BY <1>1, <1>10
  <2>2. ~(o.kind \in Fresh /\ q.kind \in Fresh)
    BY <1>7, <2>1
  <2> HIDE DEF o, q
  <2>3. o.kind = q.kind
    BY <1>8, <2>2 DEF Fresh
  <2> QED
    BY <2>3 DEF o, q
<1> QED
  BY <1>9, <1>10

\* write_incremental_for_signing numbers what it adds from the /Size it read: where
\* updates are long enough to be found, no number is given twice.
THEOREM FilesAreSound == Spec => []FileSound
<1>1. UInv /\ SInv => NumbersKeepTheirKind
  <2> SUFFICES ASSUME UInv, SInv, LongUpdates(file),
                      NEW i \in DOMAIN file, NEW j \in DOMAIN file,
                      NEW k \in DOMAIN file[i].objs, NEW m \in DOMAIN file[j].objs,
                      file[i].objs[k][1] = file[j].objs[m][1]
               PROVE  file[i].objs[k][2].kind = file[j].objs[m][2].kind
    BY DEF NumbersKeepTheirKind
  <2>1. IsFile(file) /\ Sound(file) /\ i \in 1..Len(file) /\ j \in 1..Len(file)
    BY FileIsChained DEF UInv, SInv
  <2> QED
    BY <2>1, KindsStay
<1> QED
  BY <1>1, UpdatesInvariance, UpdatesTypes, SoundInvariance, PTL DEF FileSound

\* find_startxref and the /Prev of an update: where the updates are longer than its
\* window, each links to the one before it, and the sections are counted.
THEOREM LongRevisionsStayLinked == Spec => []LongRevisionsLinked
<1>1. UInv /\ SInv => LongRevisionsLinked
  <2> SUFFICES ASSUME UInv, SInv, LongUpdates(file) PROVE
         /\ RevisionsLinked
         /\ Open /\ session.base = file /\ (Len(file) > 1 => Long(file, Len(file)))
              => session.count = Len(file)
    BY DEF LongRevisionsLinked
  <2>1. IsFile(file) /\ Rising(file)
    BY DEF UInv, SInv, Sound
  <2>2. Chained(file) /\ Linked(file) /\ Len(file) \in Nat \ {0} /\ Len(file) \in 1..Len(file)
    <3>1. Chained(file) /\ Len(file) \in Nat \ {0}
      BY <2>1, FileIsChained
    <3> QED
      BY <2>1, <3>1 DEF Rising, Linked
  <2>3. ASSUME Open, session.base = file, Len(file) > 1 => Long(file, Len(file))
        PROVE  session.count = Len(file)
    <3>1. IsSession(session)
      BY <2>3, OpenIs
    <3>2. StartSection(file) = Len(file)
      BY <2>1, <2>3, LastIsFound DEF Reached
    <3>3. session.count = Cardinality(ChainFrom(file, Len(file)))
      BY <2>3, <3>1, <3>2 DEF IsSession, Loaded
    <3>4. ChainFrom(file, Len(file)) = 1..Len(file)
      BY <2>2, ChainLinked
    <3>5. Cardinality(1..Len(file)) = Len(file)
      <4> DEFINE n == Len(file)
      <4>1. n \in Nat \ {0}
        BY <2>2
      <4> HIDE DEF n
      <4>2. Cardinality(1..n) = IF 1 > n THEN 0 ELSE n - 1 + 1
        BY <4>1, FS_Interval
      <4>3. Cardinality(1..n) = n
        BY <4>1, <4>2
      <4> QED
        BY <4>3 DEF n
    <3> QED
      BY <3>3, <3>4, <3>5
  <2> QED
    BY <2>2, <2>3 DEF RevisionsLinked, Linked
<1> QED
  BY <1>1, UpdatesInvariance, SoundInvariance, PTL

---------------------------------------------------------------------------
(* What a file shows does not depend on what its signatures cover. *)

LEMMA AlikeResolves ==
  ASSUME NEW f, NEW g, Chained(f), Chained(g), Linked(f), Alike(f, g), NEW n
  PROVE  \/ Resolve(g, n) = Resolve(f, n)
         \/ Resolve(g, n).kind = "sig" /\ Resolve(f, n).kind = "sig"
<1> DEFINE k == Len(f)
<1>1. /\ Len(g) = k /\ k \in Nat \ {0} /\ k \in 1..k /\ 1 \in 1..k /\ g[1] = f[1]
      /\ \A i \in 2..k : i \in 1..k
  BY SeqIs DEF Chained, Alike
<1>2. ASSUME NEW i \in 1..k
      PROVE  /\ g[i].prev = f[i].prev /\ DOMAIN g[i].objs = DOMAIN f[i].objs
             /\ \A m \in DOMAIN f[i].objs :
                  /\ g[i].objs[m][1] = f[i].objs[m][1] /\ g[i].objs[m][2].kind = f[i].objs[m][2].kind
                  /\ g[i].objs[m][2] = f[i].objs[m][2] \/ f[i].objs[m][2].kind = "sig"
  BY DEF Alike
<1>3. Linked(g)
  BY <1>1, <1>2 DEF Linked
<1>4. ChainFrom(f, k) = 1..k /\ ChainFrom(g, k) = 1..k
  BY <1>1, <1>3, ChainLinked
<1>5. \A i \in 1..k : Written(g[i], n) = Written(f[i], n)
  BY <1>2 DEF Written
<1>6. \A i \in 1..k : Registered(g, i, n) = Registered(f, i, n)
  BY <1>1, <1>5 DEF Registered
<1>7. Holders(g, n) = Holders(f, n)
  BY <1>1, <1>4, <1>6 DEF Holders
<1>8. CASE Holders(f, n) = {}
  BY <1>7, <1>8, ResolveIs
<1>9. CASE Holders(f, n) # {}
  <2>1. PICK i \in Holders(f, n) : (\A h \in Holders(f, n) : h <= i) /\ Resolve(f, n) = Entry(f[i], n)
    BY <1>9, ResolveIs
  <2>2. PICK h \in Holders(g, n) : (\A l \in Holders(g, n) : l <= h) /\ Resolve(g, n) = Entry(g[h], n)
    BY <1>7, <1>9, ResolveIs
  <2>3. i \in 1..k /\ h \in 1..k
    BY <1>1, <2>1, <2>2, ResolveIs
  <2>4. i = h
    BY <1>1, <1>7, <2>1, <2>2, <2>3
  <2> DEFINE m == Min(Written(f[i], n))
  <2>5. m \in DOMAIN f[i].objs
    <3>1. DOMAIN f[i].objs \subseteq Nat
      BY <2>3, SeqIs DEF Chained
    <3>2. Written(f[i], n) \subseteq Nat /\ Written(f[i], n) # {}
      BY <2>1, <3>1 DEF Holders, Registered, Written
    <3>3. m \in Written(f[i], n)
      BY <3>2, MinIsLeast
    <3> QED
      BY <3>3 DEF Written
  <2>6. Resolve(f, n) = f[i].objs[m][2]
    BY <2>1 DEF Entry
  <2>7. Resolve(g, n) = g[i].objs[m][2]
    BY <1>5, <2>2, <2>3, <2>4 DEF Entry
  <2> HIDE DEF m
  <2> QED
    BY <1>2, <2>3, <2>5, <2>6, <2>7
<1> QED
  BY <1>8, <1>9

LEMMA AlikeShow ==
  ASSUME NEW f, NEW g, IsFile(f), IsFile(g), Linked(f), Alike(f, g)
  PROVE  Show(g) = Show(f) /\ Annots(g) = Annots(f)
<1>1. Chained(f) /\ Chained(g) /\ g[1] = f[1]
  BY FileIsChained DEF Alike
<1>2. \A n : \/ Resolve(g, n) = Resolve(f, n)
             \/ Resolve(g, n).kind = "sig" /\ Resolve(f, n).kind = "sig"
  BY <1>1, AlikeResolves
<1>3. \A n : Shown(Resolve(g, n)) = Shown(Resolve(f, n))
  BY <1>2 DEF Shown
<1>4. Annots(g) = Annots(f)
  <2>1. Resolve(f, Page).kind = "page"
    BY RootAndPage
  <2> QED
    BY <1>2, <2>1 DEF Annots
<1> QED
  BY <1>1, <1>3, <1>4 DEF Show

---------------------------------------------------------------------------
(* What the page of a file names. *)

\* Updates that are long and plain, in all but the last one.
Good(f) == LongUpdates(f) /\ PlainUpdates(f)

\* The annotations have numbers that were given, to nothing else.
KnownIn(b, size, x) == x \in Nat /\ x < size /\ x \notin {Root, Page} \union b.fields

PagesKnown(f) ==
  \A k \in 1..Len(f) : \A j \in DOMAIN f[k].objs :
    f[k].objs[j][2].kind = "page" =>
      \A x \in ToSet(f[k].objs[j][2].annots) : KnownIn(f[1], f[k].size, x)

LEMMA BasePages ==
  ASSUME NEW f, IsFile(f), Len(f) = 1
  PROVE  PagesKnown(f)
<1> DEFINE b == f[1]
           S == {b.objs[k][1] : k \in {h \in DOMAIN b.objs : b.objs[h][2].kind = "note"}}
<1>1. b \in Bases /\ WellMade(b)
  BY BasesAssumption DEF IsFile
<1>2. ASSUME NEW x \in S PROVE KnownIn(b, b.size, x)
  <2>1. PICK k \in DOMAIN b.objs : b.objs[k][2].kind = "note" /\ x = b.objs[k][1]
    BY <1>2
  <2>2. /\ b.objs[k][1] \in Nat /\ b.objs[k][1] < b.size
        /\ b.objs[k][2].kind = "catalog" <=> b.objs[k][1] = Root
        /\ b.objs[k][2].kind = "page" <=> b.objs[k][1] = Page
        /\ b.objs[k][2].kind = "field" <=> b.objs[k][1] \in b.fields
    BY <1>1, BaseIs
  <2> QED
    BY <2>1, <2>2 DEF KnownIn
<1>3. ASSUME NEW j \in DOMAIN b.objs, b.objs[j][2].kind = "page"
      PROVE  b.objs[j][2].annots \in Seq(S)
  BY <1>1, <1>3 DEF WellMade
<1> HIDE DEF S
<1>4. ASSUME NEW j \in DOMAIN b.objs, b.objs[j][2].kind = "page"
      PROVE  \A x \in ToSet(b.objs[j][2].annots) : KnownIn(b, b.size, x)
  <2>1. b.objs[j][2].annots \in Seq(S)
    BY <1>3, <1>4
  <2>2. ToSet(b.objs[j][2].annots) \subseteq S
    BY <2>1 DEF ToSet
  <2> QED
    BY <1>2, <2>2
<1>5. \A k \in 1..Len(f) : k = 1
  OBVIOUS
<1> QED
  BY <1>4, <1>5 DEF PagesKnown

LEMMA AlikePages ==
  ASSUME NEW f, NEW g, Alike(f, g), PagesKnown(f)
  PROVE  PagesKnown(g)
<1>1. Len(g) = Len(f) /\ g[1] = f[1]
  BY DEF Alike
<1>2. ASSUME NEW k \in 1..Len(g), NEW j \in DOMAIN g[k].objs, g[k].objs[j][2].kind = "page"
      PROVE  /\ k \in 1..Len(f) /\ j \in DOMAIN f[k].objs /\ f[k].objs[j][2] = g[k].objs[j][2]
             /\ f[k].size = g[k].size
  BY <1>1, <1>2 DEF Alike
<1> QED
  BY <1>1, <1>2 DEF PagesKnown

\* The page that is read is one of them.
LEMMA AnnotsAreKnown ==
  ASSUME NEW f, IsFile(f), Rising(f), PagesKnown(f)
  PROVE  \A i \in DOMAIN Annots(f) : KnownIn(f[1], f[Len(f)].size, Annots(f)[i])
<1>1. Chained(f) /\ Len(f) \in Nat \ {0}
  BY FileIsChained
<1>2. Resolve(f, Page).kind = "page"
  BY RootAndPage
<1>3. \/ Resolve(f, Page) = Missing /\ Page \notin Numbers(f[1])
      \/ \E k \in 1..Len(f) : \E m \in DOMAIN f[k].objs :
           f[k].objs[m][1] = Page /\ Resolve(f, Page) = f[k].objs[m][2]
  BY <1>1, ResolveFinds
<1>4. PICK k \in 1..Len(f) : \E m \in DOMAIN f[k].objs :
        f[k].objs[m][1] = Page /\ Resolve(f, Page) = f[k].objs[m][2]
  BY <1>2, <1>3 DEF Missing
<1>5. PICK m \in DOMAIN f[k].objs : Resolve(f, Page) = f[k].objs[m][2]
  BY <1>4
<1>6. \A x \in ToSet(Annots(f)) : KnownIn(f[1], f[k].size, x)
  BY <1>2, <1>5 DEF PagesKnown, Annots
<1>7. f[k].size <= f[Len(f)].size /\ f[k].size \in Nat /\ f[Len(f)].size \in Nat
  <2>1. k <= Len(f) /\ Len(f) \in 1..Len(f)
    BY <1>1
  <2> QED
    BY <2>1, SizesRise, SizeIs
<1>8. ASSUME NEW x \in ToSet(Annots(f)) PROVE KnownIn(f[1], f[Len(f)].size, x)
  BY <1>6, <1>7 DEF KnownIn
<1> QED
  BY <1>8 DEF ToSet

LEMMA AlikeLong ==
  ASSUME NEW f, NEW g, IsFile(f), Alike(f, g), LongUpdates(g)
  PROVE  LongUpdates(f)
<1>1. Len(f) \in Nat \ {0} /\ Len(g) = Len(f)
  BY FileIsChained DEF Alike
<1>2. \A i \in 1..Len(f) : g[i].end = f[i].end
  BY DEF Alike
<1>3. \A i \in 2..Len(f) - 1 : i \in 1..Len(f) /\ i - 1 \in 1..Len(f)
  BY <1>1
<1> QED
  BY <1>1, <1>2, <1>3 DEF LongUpdates, Long

LEMMA AlikeGood ==
  ASSUME NEW f, NEW g, IsFile(f), IsFile(g), Alike(f, g), Good(g)
  PROVE  Good(f)
<1>1. Len(f) \in Nat \ {0} /\ Len(g) = Len(f) /\ g[1] = f[1]
  BY FileIsChained DEF Alike
<1>2. \A i \in 1..Len(f) :
        /\ g[i].end = f[i].end /\ DOMAIN g[i].objs = DOMAIN f[i].objs
        /\ \A k \in DOMAIN f[i].objs : g[i].objs[k][1] = f[i].objs[k][1]
  BY DEF Alike
<1>3. LongUpdates(f)
  BY AlikeLong DEF Good
<1>4. \A i \in 2..Len(f) : i \in 1..Len(f)
  BY <1>1
<1>5. ASSUME NEW i \in 2..Len(f)
      PROVE  /\ \A j, k \in DOMAIN f[i].objs : f[i].objs[j][1] = f[i].objs[k][1] => j = k
             /\ Numbers(f[i]) \cap f[1].aged = {}
  <2>1. /\ \A j, k \in DOMAIN g[i].objs : g[i].objs[j][1] = g[i].objs[k][1] => j = k
        /\ Numbers(g[i]) \cap g[1].aged = {}
    BY <1>1 DEF Good, PlainUpdates
  <2>2. Numbers(g[i]) = Numbers(f[i])
    BY <1>2, <1>4 DEF Numbers
  <2> QED
    BY <1>1, <1>2, <1>4, <2>1, <2>2
<1>6. PlainUpdates(f)
  BY <1>5 DEF PlainUpdates
<1> QED
  BY <1>3, <1>6 DEF Good

---------------------------------------------------------------------------
(* Reading an update back. *)

\* g is what a write of the session makes, and its updates are long and plain.
Wrote(g) ==
  /\ IsSession(session) /\ Sound(session.base)
  /\ IsFile(g) /\ Extends(g, session.base, Update(NewObjects)) /\ Good(g)

LEMMA WroteIs ==
  ASSUME NEW g, Wrote(g)
  PROVE  LET b == session.base
             n == Len(b)
         IN /\ IsFile(b) /\ n \in Nat \ {0} /\ Len(g) = n + 1 /\ g[1] = b[1]
            /\ \A i \in 1..n : g[i] = b[i]
            /\ g[n + 1].objs = NewObjects /\ g[n + 1].size = NextNumber
            /\ Good(b) /\ Linked(b) /\ Linked(g) /\ Chained(b) /\ Chained(g)
            /\ Low(session) = b[n].size
            /\ \A j, k \in DOMAIN NewObjects : NewObjects[j][1] = NewObjects[k][1] => j = k
            /\ Numbers(g[n + 1]) \cap b[1].aged = {}
<1> DEFINE b == session.base
           n == Len(b)
           u == Update(NewObjects)
<1>1. IsFile(b) /\ IsSession(session) /\ Sound(b) /\ IsFile(g) /\ Extends(g, b, u)
  BY LowIs DEF Wrote
<1>2. n \in Nat \ {0} /\ Chained(b) /\ Chained(g)
  BY <1>1, FileIsChained
<1>3. Len(g) = n + 1 /\ g[n + 1] = u /\ \A i \in 1..n : g[i] = b[i]
  BY <1>1 DEF Extends
<1>4. u.objs = NewObjects /\ u.size = NextNumber
  BY <1>1, UpdateIs
<1>5. LongUpdates(g) /\ PlainUpdates(g)
  BY DEF Wrote, Good
<1>6. Reached(b) /\ Linked(b) /\ Linked(g) /\ Low(session) = b[n].size
  BY <1>1, <1>5, WrittenSound
<1> HIDE DEF u, b
<1>7. g[1] = b[1]
  <2>1. 1 \in 1..n
    BY <1>2
  <2> QED
    BY <1>3, <2>1
<1>8. PlainUpdates(b)
  <2>1. \A i \in 2..n : i \in 1..n /\ i \in 2..Len(g)
    BY <1>2, <1>3
  <2>2. ASSUME NEW i \in 2..n
        PROVE  /\ \A j, k \in DOMAIN b[i].objs : b[i].objs[j][1] = b[i].objs[k][1] => j = k
               /\ Numbers(b[i]) \cap b[1].aged = {}
    <3>1. g[i] = b[i] /\ i \in 2..Len(g)
      BY <1>3, <2>1
    <3> QED
      BY <1>5, <1>7, <3>1 DEF PlainUpdates
  <2> QED
    BY <2>2 DEF PlainUpdates
<1>9. /\ \A j, k \in DOMAIN NewObjects : NewObjects[j][1] = NewObjects[k][1] => j = k
      /\ Numbers(g[n + 1]) \cap b[1].aged = {}
  <2>1. n + 1 \in 2..Len(g)
    BY <1>2, <1>3
  <2> QED
    BY <1>3, <1>4, <1>5, <1>7, <2>1 DEF PlainUpdates
<1> QED
  BY <1>1, <1>2, <1>3, <1>4, <1>6, <1>7, <1>8, <1>9 DEF Good, Reached, b, u

\* What is written is what is read,
LEMMA Rewritten ==
  ASSUME NEW g, Wrote(g), NEW e \in ToSet(NewObjects)
  PROVE  Resolve(g, e[1]) = e[2]
<1> DEFINE b == session.base
           n == Len(b)
<1>1. /\ n \in Nat \ {0} /\ Len(g) = n + 1 /\ g[1] = b[1]
      /\ \A i \in 1..n : g[i] = b[i]
      /\ g[n + 1].objs = NewObjects
      /\ Linked(b) /\ Linked(g) /\ Chained(b) /\ Chained(g)
      /\ \A j, k \in DOMAIN NewObjects : NewObjects[j][1] = NewObjects[k][1] => j = k
      /\ Numbers(g[n + 1]) \cap b[1].aged = {}
  BY WroteIs
<1> HIDE DEF b
<1>2. PICK j \in DOMAIN NewObjects : e = NewObjects[j]
  BY DEF ToSet
<1>3. j \in Written(g[n + 1], e[1])
  BY <1>1, <1>2 DEF Written
<1>4. e[1] \in Numbers(g[n + 1])
  BY <1>1, <1>2 DEF Numbers
<1>5. Registered(g, n + 1, e[1])
  BY <1>1, <1>3, <1>4 DEF Registered
<1>6. PICK m \in DOMAIN g[n + 1].objs :
        g[n + 1].objs[m][1] = e[1] /\ Entry(g[n + 1], e[1]) = g[n + 1].objs[m][2]
  <2>1. n + 1 \in 1..Len(g)
    BY <1>1
  <2>2. IsSeq(g[n + 1].objs)
    BY <1>1, <2>1 DEF Chained
  <2> QED
    BY <1>3, <2>2, EntryIs
<1>7. m = j
  BY <1>1, <1>2, <1>6
<1>8. Resolve(g, e[1]) = Entry(g[n + 1], e[1])
  BY <1>1, <1>5, ResolveStep
<1> QED
  BY <1>1, <1>2, <1>6, <1>7, <1>8

\* and the rest as it was.
LEMMA Unwritten ==
  ASSUME NEW g, Wrote(g), NEW x, \A e \in ToSet(NewObjects) : e[1] # x
  PROVE  Resolve(g, x) = Resolve(session.base, x)
<1> DEFINE b == session.base
           n == Len(b)
<1>1. /\ n \in Nat \ {0} /\ Len(g) = n + 1 /\ g[1] = b[1]
      /\ \A i \in 1..n : g[i] = b[i]
      /\ g[n + 1].objs = NewObjects
      /\ Linked(b) /\ Linked(g) /\ Chained(b) /\ Chained(g)
  BY WroteIs
<1> HIDE DEF b
<1>2. Written(g[n + 1], x) = {}
  BY <1>1 DEF Written, ToSet
<1>3. ~Registered(g, n + 1, x)
  BY <1>2 DEF Registered
<1> QED
  BY <1>1, <1>3, ResolveStep DEF b

\* Annotations that were there are not touched.
LEMMA OldAnnotsStay ==
  ASSUME NEW g, Wrote(g), NEW x \in Nat, x < Low(session), x \notin {Root, Page} \union session.base[1].fields
  PROVE  Resolve(g, x) = Resolve(session.base, x)
<1>1. Low(session) \in Nat
  BY LowIs DEF Wrote
<1>2. ASSUME NEW e \in ToSet(NewObjects) PROVE e[1] # x
  <2>1. IsEntry(e, session.base[1]) /\ (e[2].kind \in Fresh => e[1] >= Low(session))
    BY NewEntry DEF Wrote
  <2> QED
    BY <1>1, <2>1 DEF IsEntry, IsObject
<1> QED
  BY <1>2, Unwritten

---------------------------------------------------------------------------
(* The values of the fields. *)

LEMMA ValuesRead ==
  ASSUME NEW g, Wrote(g), Show(session.base) = session.shows
  PROVE  Show(g).values = Asked.values
<1> DEFINE b == session.base
           last(n) == {j \in DOMAIN session.fields : session.fields[j].object = n}
<1>1. IsSession(session) /\ g[1] = b[1]
  BY WroteIs DEF Wrote
<1>2. session.shows.values = [n \in b[1].fields |-> Shown(Resolve(b, n))]
  BY DEF Show
<1>3. DOMAIN session.fields = 1..Len(session.fields) /\ Len(session.fields) \in Nat
  BY <1>1, SeqIs DEF IsSession, Edited
<1>4. ASSUME NEW n \in b[1].fields
      PROVE  Shown(Resolve(g, n)) = IF last(n) = {} THEN session.shows.values[n]
                                    ELSE session.fields[Max(last(n))].value
  <2>1. CASE last(n) = {}
    <3>1. ASSUME NEW e \in ToSet(NewObjects) PROVE e[1] # n
      <4> SUFFICES ASSUME e[1] = n PROVE FALSE
        OBVIOUS
      <4>1. e[2].kind = "field" /\ Described(e)
        BY <1>1, NewEntry, NewDescribed DEF IsEntry
      <4>2. \E i \in 1..Len(session.fields) : n = session.fields[i].object
        BY <4>1 DEF Described, Hole
      <4> QED
        BY <1>3, <2>1, <4>2
    <3>2. Resolve(g, n) = Resolve(b, n)
      BY <3>1, Unwritten
    <3> QED
      BY <1>2, <2>1, <3>2
  <2>2. CASE last(n) # {}
    <3>1. last(n) \subseteq 0..Len(session.fields)
      BY <1>3
    <3> DEFINE i == Max(last(n))
    <3>2. i \in last(n)
      <4> DEFINE L == last(n)
      <4> HIDE DEF last
      <4> QED
        BY <1>3, <2>2, <3>1, MaxIsGreatest
    <3>3. i \in 1..Len(session.fields) /\ session.fields[i].object = n
      BY <1>3, <3>2
    <3> HIDE DEF i
    <3> DEFINE o == [kind |-> "field", value |-> session.fields[i].value]
               e == <<session.fields[i].object, o>>
    <3>4. IsField(e)
      BY <3>3 DEF IsField
    <3> HIDE DEF o
    <3>5. e \in ToSet(NewObjects)
      <4> HIDE DEF e
      <4> QED
        BY <1>1, <3>4, NewObjectsAre
    <3>6. e[1] = n /\ e[2] = o
      BY <3>3
    <3> HIDE DEF e
    <3>7. Resolve(g, n) = o
      BY <3>5, <3>6, Rewritten
    <3>8. Shown(o) = session.fields[i].value
      BY DEF Shown, o
    <3> HIDE DEF last
    <3> QED
      BY <2>2, <3>7, <3>8 DEF i
  <2> QED
    BY <2>1, <2>2
<1>5. Show(g).values = [n \in b[1].fields |-> Shown(Resolve(g, n))]
  BY <1>1 DEF Show
<1>6. Asked.values = [n \in b[1].fields |-> IF last(n) = {} THEN session.shows.values[n]
                                            ELSE session.fields[Max(last(n))].value]
  <2>1. DOMAIN session.shows.values = b[1].fields
    BY <1>2
  <2> QED
    BY <2>1 DEF Asked
<1> HIDE DEF last, b
<1> QED
  BY <1>4, <1>5, <1>6

---------------------------------------------------------------------------
(* The annotations of the page. *)

ShownOf(f, q) == [i \in DOMAIN q |-> Shown(Resolve(f, q[i]))]

LEMMA ShownJoins ==
  ASSUME NEW f, NEW s, NEW t, IsSeq(s), IsSeq(t)
  PROVE  /\ IsSeq(ShownOf(f, s))
         /\ ShownOf(f, s \o t) = ShownOf(f, s) \o ShownOf(f, t)
<1> DEFINE a == ShownOf(f, s)
           b == ShownOf(f, t)
           c == ShownOf(f, s \o t)
           m == Len(s)
           n == Len(t)
<1>1. m \in Nat /\ DOMAIN s = 1..m /\ n \in Nat /\ DOMAIN t = 1..n
  BY SeqIs
<1>2. /\ IsSeq(s \o t) /\ Len(s \o t) = m + n
      /\ \A i \in 1..m : (s \o t)[i] = s[i]
      /\ \A i \in 1..n : (s \o t)[m + i] = t[i]
  BY Joined
<1>3. DOMAIN (s \o t) = 1..m + n
  BY <1>2, SeqIs
<1>4. a = [i \in 1..m |-> a[i]] /\ \A i \in 1..m : a[i] = Shown(Resolve(f, s[i]))
  BY <1>1 DEF ShownOf
<1>5. b = [i \in 1..n |-> b[i]] /\ \A i \in 1..n : b[i] = Shown(Resolve(f, t[i]))
  BY <1>1 DEF ShownOf
<1>6. c = [i \in 1..m + n |-> c[i]] /\ \A i \in 1..m + n : c[i] = Shown(Resolve(f, (s \o t)[i]))
  BY <1>3 DEF ShownOf
<1> HIDE DEF a, b, c, m, n
<1>7. IsSeq(a) /\ Len(a) = m
  BY <1>1, <1>4, SeqFrom
<1>8. IsSeq(b) /\ Len(b) = n
  BY <1>1, <1>5, SeqFrom
<1>9. IsSeq(c) /\ Len(c) = m + n
  <2>1. m + n \in Nat
    BY <1>1
  <2> QED
    BY <1>6, <2>1, SeqFrom
<1>10. /\ IsSeq(a \o b) /\ Len(a \o b) = m + n
       /\ \A i \in 1..m : (a \o b)[i] = a[i]
       /\ \A i \in 1..n : (a \o b)[m + i] = b[i]
  BY <1>7, <1>8, Joined
<1>11. ASSUME NEW i \in 1..m + n PROVE c[i] = (a \o b)[i]
  <2>1. CASE i \in 1..m
    BY <1>2, <1>4, <1>6, <1>10, <2>1
  <2>2. CASE i \notin 1..m
    <3>1. i - m \in 1..n /\ i = m + (i - m)
      BY <1>1, <2>2
    <3> DEFINE j == i - m
    <3>2. j \in 1..n /\ i = m + j
      BY <3>1
    <3> HIDE DEF j
    <3>3. (s \o t)[i] = t[j] /\ (a \o b)[i] = b[j] /\ b[j] = Shown(Resolve(f, t[j]))
      BY <1>2, <1>5, <1>10, <3>2
    <3> QED
      BY <1>6, <3>3
  <2> QED
    BY <2>1, <2>2
<1>12. c = a \o b
  BY <1>9, <1>10, <1>11, SameSeq
<1> QED
  BY <1>7, <1>12 DEF a, b, c

\* Nothing is deleted, added or signed: the page stays.
LEMMA PageUntouched ==
  ASSUME IsSession(session), session.annots = <<>>, session.signatures = <<>>
  PROVE  PageAnnots = Annots(session.base)
<1>1. IsSeq(Annots(session.base)) /\ IsFile(session.base)
  BY RootAndPage DEF IsSession, Loaded
<1>2. Deleted = {}
  BY DEF Deleted
<1>3. Kept(Annots(session.base)) = Annots(session.base)
  <2> DEFINE q == Annots(session.base)
  <2>1. 1..Len(q) \subseteq DOMAIN q \ Deleted
    BY <1>1, <1>2, SeqIs
  <2> DEFINE S == DOMAIN q \ Deleted
  <2>2. Kept(q) = At(q, S)
    BY DEF Kept
  <2>3. IsSeq(q)
    BY <1>1
  <2> HIDE DEF q, S
  <2>4. At(q, S) = q
    BY <2>1, <2>3, AtHolds DEF S
  <2> QED
    BY <2>2, <2>4 DEF q
<1>4. Added = <<>>
  <2>1. Len(session.annots) = 0
    BY Singles
  <2>2. IsSeq(Added) /\ Len(Added) \in Nat
        /\ \A x \in 1..Len(Added) : \E i \in 1..Len(session.annots) :
              session.annots[i].kind = "add" /\ Added[x] = session.annots[i]
    BY AddedIs
  <2>3. 1..Len(session.annots) = {}
    BY <2>1
  <2>4. 1..Len(Added) = {}
    BY <2>2, <2>3
  <2>5. Len(Added) = 0
    BY <2>2, <2>4
  <2> QED
    BY <2>2, <2>5, SeqIs
<1>5. [i \in DOMAIN Added |-> Number(i)] = <<>>
  BY <1>4
<1>6. Each(session.signatures, LAMBDA s : s.field) = <<>>
  BY DEF Each
<1>7. \A s : IsSeq(s) => s \o <<>> = s
  BY DEF IsSeq
<1> QED
  BY <1>1, <1>3, <1>5, <1>6, <1>7 DEF PageAnnots

LEMMA PageRead ==
  ASSUME NEW g, Wrote(g)
  PROVE  Annots(g) = PageAnnots
<1>1. IsSession(session)
  BY DEF Wrote
<1>2. CASE session.annots = <<>> /\ session.signatures = <<>>
  <2>1. ASSUME NEW e \in ToSet(NewObjects) PROVE e[1] # Page
    <3> SUFFICES ASSUME e[1] = Page PROVE FALSE
      OBVIOUS
    <3>1. e[2].kind = "page" /\ Described(e)
      BY <1>1, NewEntry, NewDescribed DEF IsEntry
    <3> QED
      BY <1>2, <3>1 DEF Described, Hole
  <2>2. Resolve(g, Page) = Resolve(session.base, Page)
    BY <2>1, Unwritten
  <2> QED
    BY <1>1, <1>2, <2>2, PageUntouched DEF Annots
<1>3. CASE session.annots # <<>> \/ session.signatures # <<>>
  <2> DEFINE o == [kind |-> "page", annots |-> PageAnnots]
             e == <<Page, o>>
  <2>1. IsPage(e)
    BY <1>3 DEF IsPage
  <2> HIDE DEF o
  <2>2. e[1] = Page /\ e[2] = o
    OBVIOUS
  <2> HIDE DEF e
  <2>3. e \in ToSet(NewObjects)
    BY <1>1, <2>1, NewObjectsAre
  <2>4. Resolve(g, Page) = o
    BY <2>2, <2>3, Rewritten
  <2> QED
    BY <2>4 DEF Annots, o
<1> QED
  BY <1>2, <1>3

Notes == [i \in DOMAIN Added |-> Number(i)]
Widgets == Each(session.signatures, LAMBDA s : s.field)

LEMMA NotesAndWidgets ==
  ASSUME IsSession(session)
  PROVE  /\ DOMAIN Added = 1..Len(Added) /\ Len(Added) \in Nat
         /\ IsSeq(Notes) /\ Len(Notes) = Len(Added)
         /\ \A i \in 1..Len(Added) : Notes[i] = Number(i)
         /\ DOMAIN session.signatures = 1..Len(session.signatures) /\ Len(session.signatures) \in Nat
         /\ IsSeq(Widgets) /\ Len(Widgets) = Len(session.signatures)
         /\ \A i \in 1..Len(session.signatures) : Widgets[i] = session.signatures[i].field
         /\ PageAnnots = Kept(Annots(session.base)) \o Notes \o Widgets
<1> DEFINE m == Len(Added)
           n == Len(session.signatures)
<1>1. DOMAIN Added = 1..m /\ m \in Nat
  BY AddedIs, SeqIs
<1>2. DOMAIN session.signatures = 1..n /\ n \in Nat
  BY SeqIs DEF IsSession, Numbered, NumberedBy
<1>3. Notes = [i \in 1..m |-> Notes[i]] /\ \A i \in 1..m : Notes[i] = Number(i)
  BY <1>1 DEF Notes
<1>4. Widgets = [i \in 1..n |-> session.signatures[i].field]
  BY <1>2 DEF Widgets, Each
<1>5. Widgets = [i \in 1..n |-> Widgets[i]] /\ \A i \in 1..n : Widgets[i] = session.signatures[i].field
  BY <1>4
<1>6. PageAnnots = Kept(Annots(session.base)) \o Notes \o Widgets
  BY DEF PageAnnots, Notes, Widgets
<1> HIDE DEF m, n
<1>7. IsSeq(Notes) /\ Len(Notes) = m
  BY <1>1, <1>3, SeqFrom
<1>8. IsSeq(Widgets) /\ Len(Widgets) = n
  BY <1>2, <1>5, SeqFrom
<1> QED
  BY <1>1, <1>2, <1>3, <1>5, <1>6, <1>7, <1>8 DEF m, n

\* The annotations that are not deleted are shown as they were,
LEMMA KeptRead ==
  ASSUME NEW g, Wrote(g), Show(session.base) = session.shows, PagesKnown(session.base)
  PROVE  ShownOf(g, Kept(Annots(session.base))) = Kept(session.shows.annots)
<1> DEFINE b == session.base
           q == Annots(b)
           r == session.shows.annots
           S == DOMAIN q \ Deleted
           n == Len(q)
           p == Places(n, S)
<1>1. /\ IsSession(session) /\ IsFile(b) /\ Low(session) = b[Len(b)].size
      /\ \A i \in DOMAIN q : KnownIn(b[1], b[Len(b)].size, q[i])
  <2>1. IsSession(session) /\ IsFile(b) /\ Low(session) = b[Len(b)].size /\ Good(b) /\ Sound(b)
    BY WroteIs DEF Wrote
  <2> QED
    BY <2>1, AnnotsAreKnown DEF Good, Sound
<1>2. IsSeq(q) /\ n \in Nat /\ DOMAIN q = 1..n
  BY <1>1, RootAndPage, SeqIs
<1>3. r = [i \in DOMAIN q |-> Shown(Resolve(b, q[i]))]
  BY DEF Show
<1>4. \A i \in 1..n : r[i] = Shown(Resolve(b, q[i]))
  BY <1>2, <1>3
<1>5. ASSUME NEW i \in 1..n PROVE Resolve(g, q[i]) = Resolve(b, q[i])
  <2>1. q[i] \in Nat /\ q[i] < Low(session) /\ q[i] \notin {Root, Page} \union b[1].fields
    BY <1>1, <1>2 DEF KnownIn
  <2> HIDE DEF q
  <2> QED
    BY <2>1, OldAnnotsStay
<1>6. Kept(q) = At(q, S) /\ Kept(r) = At(r, S)
  <2>1. DOMAIN r = DOMAIN q
    BY <1>3
  <2> QED
    BY <2>1 DEF Kept
<1> HIDE DEF q, r, S
<1>7. r = [i \in 1..n |-> r[i]]
  BY <1>2, <1>3
<1> HIDE DEF n
<1>8. IsSeq(r) /\ Len(r) = n
  BY <1>2, <1>7, SeqFrom
<1>9. /\ IsSeq(p) /\ \A x \in 1..Len(p) : p[x] \in 1..n
      /\ IsSeq(At(q, S)) /\ Len(At(q, S)) = Len(p)
      /\ \A x \in 1..Len(p) : At(q, S)[x] = q[p[x]]
  BY <1>2, AtIs DEF n
<1>10. /\ IsSeq(At(r, S)) /\ Len(At(r, S)) = Len(p)
       /\ \A x \in 1..Len(p) : At(r, S)[x] = r[p[x]]
  BY <1>8, AtIs
<1> DEFINE k == Kept(q)
           s == ShownOf(g, k)
           l == Len(p)
<1> HIDE DEF p
<1>11. l \in Nat /\ DOMAIN k = 1..l
  BY <1>6, <1>9, SeqIs
<1>12. s = [x \in 1..l |-> s[x]] /\ \A x \in 1..l : s[x] = Shown(Resolve(g, k[x]))
  BY <1>11 DEF ShownOf
<1> HIDE DEF k, s, l
<1>13. IsSeq(s) /\ Len(s) = l
  BY <1>11, <1>12, SeqFrom
<1>14. ASSUME NEW x \in 1..l PROVE s[x] = Kept(r)[x]
  <2>1. p[x] \in 1..n /\ k[x] = q[p[x]] /\ Kept(r)[x] = r[p[x]]
    BY <1>6, <1>9, <1>10 DEF k, l
  <2>2. Resolve(g, k[x]) = Resolve(b, q[p[x]])
    BY <1>5, <2>1
  <2> QED
    BY <1>4, <1>12, <2>1, <2>2
<1>15. s = Kept(r)
  BY <1>6, <1>10, <1>13, <1>14, SameSeq DEF l
<1> QED
  BY <1>15 DEF s, k, q, r

\* the ones that are added with their texts,
LEMMA NotesRead ==
  ASSUME NEW g, Wrote(g)
  PROVE  ShownOf(g, Notes) = Each(Added, LAMBDA a : a.text)
<1>1. IsSession(session)
  BY DEF Wrote
<1>2. /\ DOMAIN Added = 1..Len(Added) /\ IsSeq(Notes) /\ Len(Notes) = Len(Added)
      /\ \A i \in 1..Len(Added) : Notes[i] = Number(i)
  BY <1>1, NotesAndWidgets
<1>3. DOMAIN Notes = 1..Len(Added)
  BY <1>2, SeqIs
<1>4. ASSUME NEW i \in 1..Len(Added) PROVE Shown(Resolve(g, Notes[i])) = Added[i].text
  <2> DEFINE o == [kind |-> "note", text |-> Added[i].text]
             e == <<Number(i), o>>
  <2>1. IsNote(e)
    BY DEF IsNote
  <2>2. e[1] = Number(i) /\ e[2] = o
    OBVIOUS
  <2>3. Shown(o) = Added[i].text
    BY DEF Shown
  <2> HIDE DEF o, e
  <2>4. e \in ToSet(NewObjects)
    BY <1>1, <2>1, NewObjectsAre
  <2>5. Resolve(g, Number(i)) = o
    BY <2>2, <2>4, Rewritten
  <2> QED
    BY <1>2, <2>3, <2>5
<1> QED
  BY <1>2, <1>3, <1>4 DEF ShownOf, Each

\* and the signatures as widgets.
LEMMA WidgetsRead ==
  ASSUME NEW g, Wrote(g)
  PROVE  ShownOf(g, Widgets) = Each(session.signatures, LAMBDA s : "widget")
<1>1. IsSession(session)
  BY DEF Wrote
<1> DEFINE n == Len(session.signatures)
<1>2. /\ DOMAIN session.signatures = 1..n /\ IsSeq(Widgets) /\ Len(Widgets) = n
      /\ \A i \in 1..n : Widgets[i] = session.signatures[i].field
  BY <1>1, NotesAndWidgets
<1>3. DOMAIN Widgets = 1..n
  BY <1>2, SeqIs
<1>4. ASSUME NEW i \in 1..n PROVE Shown(Resolve(g, Widgets[i])) = "widget"
  <2> DEFINE o == [kind |-> "widget", sig |-> session.signatures[i].object]
             e == <<session.signatures[i].field, o>>
  <2>1. IsWidget(e)
    BY DEF IsWidget
  <2>2. e[1] = session.signatures[i].field /\ e[2] = o
    OBVIOUS
  <2>3. Shown(o) = "widget"
    BY DEF Shown
  <2> HIDE DEF o, e
  <2>4. e \in ToSet(NewObjects)
    BY <1>1, <2>1, NewObjectsAre
  <2>5. Resolve(g, session.signatures[i].field) = o
    BY <2>2, <2>4, Rewritten
  <2> QED
    BY <1>2, <2>3, <2>5
<1> QED
  BY <1>2, <1>3, <1>4 DEF ShownOf, Each

\* So what was asked for is what is shown.
LEMMA AskedIsShown ==
  ASSUME NEW g, Wrote(g), Show(session.base) = session.shows, PagesKnown(session.base)
  PROVE  Show(g) = Asked
<1> DEFINE k == Kept(Annots(session.base))
<1>1. IsSession(session) /\ IsSeq(Notes) /\ IsSeq(Widgets) /\ PageAnnots = (k \o Notes) \o Widgets
  BY NotesAndWidgets DEF Wrote
<1>2. IsSeq(k)
  BY <1>1, PageAnnotsIs
<1>3. Annots(g) = PageAnnots
  BY PageRead
<1>4. ShownOf(g, k) = Kept(session.shows.annots)
  BY KeptRead
<1> HIDE DEF k
<1>5. IsSeq(k \o Notes)
  BY <1>1, <1>2, Joined
<1>6. ShownOf(g, k \o Notes) = ShownOf(g, k) \o ShownOf(g, Notes)
  BY <1>1, <1>2, ShownJoins
<1>7. ShownOf(g, PageAnnots) = ShownOf(g, k \o Notes) \o ShownOf(g, Widgets)
  BY <1>1, <1>5, ShownJoins
<1>8. Show(g).annots = ShownOf(g, PageAnnots)
  BY <1>3 DEF Show, ShownOf
<1>9. Asked.annots = Kept(session.shows.annots) \o Each(Added, LAMBDA a : a.text)
                       \o Each(session.signatures, LAMBDA s : "widget")
  BY DEF Asked
<1>10. Show(g).annots = Asked.annots
  BY <1>4, <1>6, <1>7, <1>8, <1>9, NotesRead, WidgetsRead
<1>11. Show(g).values = Asked.values
  BY ValuesRead
<1>12. Show(g) = [values |-> Show(g).values, annots |-> Show(g).annots]
  BY DEF Show
<1>13. Asked = [values |-> Asked.values, annots |-> Asked.annots]
  BY DEF Asked
<1> QED
  BY <1>10, <1>11, <1>12, <1>13

\* The page that is written names numbers that were given.
LEMMA WrittenPages ==
  ASSUME IsSession(session), Sound(session.base), PagesKnown(session.base), NEW g, IsFile(g),
         Extends(g, session.base, Update(NewObjects)), LongUpdates(g)
  PROVE  PagesKnown(g)
<1> DEFINE b == session.base
           k == Kept(Annots(b))
           low == Low(session)
           next == NextNumber
           Known(x) == x \in Nat /\ x < next /\ x \notin {Root, Page} \union b[1].fields
<1>1. /\ IsFile(b) /\ Len(b) \in Nat \ {0} /\ Len(g) = Len(b) + 1
      /\ g[Len(b) + 1] = Update(NewObjects) /\ \A i \in 1..Len(b) : g[i] = b[i]
      /\ low = b[Len(b)].size /\ LongUpdates(b) /\ Rising(b)
  <2>1. IsFile(b) /\ Reached(b) /\ low = b[Len(b)].size
    BY WrittenSound, LowIs
  <2> QED
    BY <2>1, FileIsChained DEF Reached, Sound, Extends
<1>2. /\ b[1] \in Bases /\ low \in Nat /\ b[1].size \in Nat /\ low >= b[1].size
      /\ session.next \in Nat /\ session.next >= low
  BY LowIs
<1>3. /\ next \in Nat /\ next >= session.next
      /\ Update(NewObjects).objs = NewObjects /\ Update(NewObjects).size = next
  BY UpdateIs
<1>4. ASSUME NEW x \in Nat, x >= b[1].size PROVE x \notin {Root, Page} \union b[1].fields
  <2>1. \A y \in {Root, Page} \union b[1].fields : y < b[1].size
    BY <1>2, BaseIs
  <2> QED
    BY <1>2, <1>4, <2>1
<1>5. /\ DOMAIN Added = 1..Len(Added) /\ Len(Added) \in Nat
      /\ IsSeq(Notes) /\ Len(Notes) = Len(Added) /\ \A i \in 1..Len(Added) : Notes[i] = Number(i)
      /\ IsSeq(Widgets) /\ Len(Widgets) = Len(session.signatures)
      /\ \A i \in 1..Len(session.signatures) : Widgets[i] = session.signatures[i].field
      /\ PageAnnots = (k \o Notes) \o Widgets
  BY NotesAndWidgets
<1>6. ASSUME NEW x \in ToSet(k) PROVE Known(x)
  <2> DEFINE q == Annots(b)
             S == DOMAIN q \ Deleted
  <2>1. IsSeq(q)
    BY <1>1, RootAndPage
  <2>2. k = At(q, S)
    BY DEF Kept
  <2>3. IsSeq(At(q, S)) /\ \A y \in 1..Len(At(q, S)) : \E i \in 1..Len(q) : i \in S /\ At(q, S)[y] = q[i]
    <3> HIDE DEF S, q
    <3> QED
      BY <2>1, AtHolds
  <2>4. DOMAIN At(q, S) = 1..Len(At(q, S)) /\ DOMAIN q = 1..Len(q)
    <3> HIDE DEF S, q
    <3> QED
      BY <2>1, <2>3, SeqIs
  <2> HIDE DEF S
  <2>5. PICK i \in DOMAIN q : x = q[i]
    BY <2>2, <2>3, <2>4 DEF ToSet
  <2>6. q[i] \in Nat /\ q[i] < low /\ q[i] \notin {Root, Page} \union b[1].fields
    BY <1>1, <2>5, AnnotsAreKnown DEF KnownIn
  <2> HIDE DEF q
  <2> QED
    BY <1>2, <1>3, <2>5, <2>6
<1>7. ASSUME NEW x \in ToSet(Notes) PROVE Known(x)
  <2>1. PICK i \in 1..Len(Added) : x = Number(i)
    BY <1>5, SeqIs DEF ToSet
  <2>2. Number(i) \in Nat /\ Number(i) >= session.next /\ Number(i) < Number(Len(Added) + 1)
    <3>1. i \in Nat \ {0} /\ Len(Added) + 1 \in Nat \ {0} /\ i < Len(Added) + 1
      BY <1>5
    <3> QED
      BY <3>1, NumbersRise
  <2>3. x \in Nat /\ x < next /\ x >= b[1].size
    BY <1>2, <2>1, <2>2 DEF NextNumber
  <2> QED
    BY <1>2, <1>4, <2>3
<1>8. ASSUME NEW x \in ToSet(Widgets) PROVE Known(x)
  <2>1. PICK i \in 1..Len(session.signatures) : x = session.signatures[i].field
    BY <1>5, SeqIs DEF ToSet
  <2>2. x \in Nat /\ x >= low /\ x < session.next
    BY <2>1, GivenIs
  <2>3. x < next /\ x >= b[1].size
    BY <1>2, <1>3, <2>2
  <2> QED
    BY <1>2, <1>4, <2>2, <2>3
<1>9. IsSeq(k)
  BY PageAnnotsIs
<1> HIDE DEF k, next, low
<1>10. IsSeq(k \o Notes) /\ ToSet(k \o Notes) = ToSet(k) \union ToSet(Notes)
  BY <1>5, <1>9, ToSetJoined
<1>11. ToSet(PageAnnots) = ToSet(k \o Notes) \union ToSet(Widgets)
  BY <1>5, <1>10, ToSetJoined
<1>12. \A x \in ToSet(PageAnnots) : Known(x)
  BY <1>6, <1>7, <1>8, <1>10, <1>11
<1>13. ASSUME NEW j \in DOMAIN NewObjects, NewObjects[j][2].kind = "page"
       PROVE  NewObjects[j][2].annots = PageAnnots
  <2> DEFINE e == NewObjects[j]
  <2>1. e \in ToSet(NewObjects)
    BY DEF ToSet
  <2> HIDE DEF e
  <2>2. Described(e)
    BY <2>1, NewDescribed
  <2> QED
    BY <1>13, <2>2 DEF Described, Hole, e
<1>14. 1 \in 1..Len(b) /\ g[1] = b[1]
  BY <1>1
<1>15. ASSUME NEW h \in 1..Len(g), NEW j \in DOMAIN g[h].objs, g[h].objs[j][2].kind = "page",
              NEW x \in ToSet(g[h].objs[j][2].annots)
       PROVE  KnownIn(g[1], g[h].size, x)
  <2>1. CASE h \in 1..Len(b)
    BY <1>1, <1>14, <1>15, <2>1 DEF PagesKnown
  <2>2. CASE h \notin 1..Len(b)
    <3>1. h = Len(b) + 1
      BY <1>1, <2>2
    <3>2. x \in ToSet(PageAnnots)
      BY <1>1, <1>3, <1>13, <1>15, <3>1
    <3> QED
      BY <1>1, <1>3, <1>12, <1>14, <3>1, <3>2 DEF KnownIn
  <2> QED
    BY <2>1, <2>2
<1> QED
  BY <1>15 DEF PagesKnown

---------------------------------------------------------------------------
(* A file that is long and plain shows what was meant, and so does the one *)
(* a session loaded, and the one it wrote.                                 *)

Reads(f, m) == Good(f) => Show(f) = m

\* The page names numbers that were given.
Known(f) == LongUpdates(f) => PagesKnown(f)

RInv ==
  /\ Known(file) /\ Reads(file, meant)
  /\ Open => Known(session.base) /\ Reads(session.base, session.shows)
  /\ output # Nothing => Known(output.bytes) /\ Reads(output.bytes, output.shows)

LEMMA ReadsInit == Init => RInv
<1> SUFFICES ASSUME Init PROVE RInv
  OBVIOUS
<1>1. IsFile(file)
  BY InitHolds DEF UInv
<1>2. PICK b : file = <<b>>
  BY DEF Init
<1>3. Len(file) = 1
  <2>1. Len(<<b>>) = 1
    BY Singles
  <2> QED
    BY <1>2, <2>1
<1>4. PagesKnown(file)
  BY <1>1, <1>3, BasePages
<1> QED
  BY <1>4 DEF Init, RInv, Known, Reads, Open, Closed

\* What a session says its document shows is set when it is loaded.
LEMMA ShowsStay ==
  ASSUME UInv, Open, [Next]_vars, ~LoadExisting
  PROVE  session'.base = session.base /\ session'.shows = session.shows
<1> DEFINE s == session
<1>1. s = [x \in SessionFields |-> s[x]]
  BY OpenIs DEF IsSession
<1>2. {"base", "shows", "fields", "annots", "form", "next", "signatures", "writes"} \subseteq SessionFields
  BY DEF SessionFields
<1> DEFINE Stays == session'.base = session.base /\ session'.shows = session.shows
<1>3. ASSUME NEW n, NEW v, SetField(n, v) PROVE Stays
  BY <1>1, <1>2, <1>3 DEF SetField
<1>4. ASSUME NEW r, session' = [session EXCEPT !.annots = Append(@, r)] PROVE Stays
  BY <1>1, <1>2, <1>4
<1>5. ASSUME NEW p, AddSignatureField(p) PROVE Stays
  <2>1. PICK a, b, c : session' = [session EXCEPT !.form = a, !.next = b, !.signatures = c]
    BY <1>5 DEF AddSignatureField
  <2> QED
    BY <1>1, <1>2, <2>1
<1>6. ASSUME WriteIncremental PROVE Stays
  <2>1. PICK a, b : session' = [session EXCEPT !.next = a, !.writes = b]
    BY <1>6 DEF WriteIncremental
  <2> QED
    BY <1>1, <1>2, <2>1
<1>7. ASSUME UNCHANGED session PROVE Stays
  BY <1>7
<1> SUFFICES Stays
  OBVIOUS
<1> HIDE DEF Stays, s
<1>8. CASE \E t \in Texts, markup \in BOOLEAN : AddAnnot(t, markup)
  BY <1>4, <1>8 DEF AddAnnot
<1>9. CASE \E i \in DOMAIN Annots(session.base) : DeleteAnnot(i)
  BY <1>4, <1>9 DEF DeleteAnnot
<1>10. CASE (\E j \in DOMAIN Last(output.bytes).objs : ApplySignature(j)) \/ Save \/ UNCHANGED vars
  BY <1>7, <1>10 DEF ApplySignature, Save, vars
<1>11. CASE \E n \in ToSet(FieldsOf(session.base)), v \in Values : SetField(n, v)
  BY <1>3, <1>11
<1>12. CASE \E p \in Permissions : AddSignatureField(p)
  BY <1>5, <1>12
<1>13. CASE WriteIncremental
  BY <1>6, <1>13
<1> QED
  BY <1>8, <1>9, <1>10, <1>11, <1>12, <1>13 DEF Next

LEMMA LoadShows ==
  ASSUME LoadExisting
  PROVE  session'.base = file /\ session'.shows = meant
  BY DEF LoadExisting

LEMMA ReadsStep == UInv /\ SInv /\ RInv /\ [Next]_vars => RInv'
<1> SUFFICES ASSUME UInv, SInv, RInv, [Next]_vars PROVE RInv'
  OBVIOUS
<1>1. ASSUME Open' PROVE Known(session'.base) /\ Reads(session'.base, session'.shows)
  <2>1. CASE LoadExisting
    BY <2>1, LoadShows DEF RInv
  <2>2. CASE ~LoadExisting
    <3>1. Open
      BY <1>1, <2>2, OpensByLoading
    <3> QED
      BY <2>2, <3>1, ShowsStay DEF RInv
  <2> QED
    BY <2>1, <2>2
<1>2. CASE WriteIncremental
  <2> DEFINE g == output'.bytes
  <2>1. Open /\ IsSession(session) /\ Signed(session.base) /\ Sound(session.base)
    BY <1>2, OpenIs DEF WriteIncremental, SInv
  <2>2. IsFile(g) /\ Extends(g, session.base, Update(NewObjects))
    BY <1>2, <2>1, WriteIs DEF IsOutput
  <2>3. output'.shows = Asked /\ file' = file /\ meant' = meant
    BY <1>2 DEF WriteIncremental
  <2> HIDE DEF g
  <2>4. ASSUME LongUpdates(g) PROVE PagesKnown(session.base) /\ PagesKnown(g)
    <3>1. PagesKnown(session.base)
      BY <2>1, <2>2, <2>4, WrittenSound DEF RInv, Known, Reached
    <3> QED
      BY <2>1, <2>2, <2>4, <3>1, WrittenPages
  <2>5. ASSUME Good(g) PROVE Show(g) = Asked
    <3>1. Wrote(g)
      BY <2>1, <2>2, <2>5 DEF Wrote
    <3>2. Good(session.base)
      BY <3>1, WroteIs
    <3>3. Show(session.base) = session.shows /\ PagesKnown(session.base)
      BY <2>1, <3>2 DEF RInv, Reads, Known, Good
    <3> QED
      BY <3>1, <3>3, AskedIsShown
  <2>6. Known(output'.bytes) /\ Reads(output'.bytes, output'.shows)
    BY <2>3, <2>4, <2>5 DEF Known, Reads, g
  <2> QED
    BY <1>1, <2>3, <2>6 DEF RInv
<1>3. CASE \E j \in DOMAIN Last(output.bytes).objs : ApplySignature(j)
  <2>1. PICK j : ApplySignature(j)
    BY <1>3
  <2> DEFINE f == output.bytes
             g == output'.bytes
  <2>2. /\ Fillable(f, j) /\ g = Fill(f, j, f) /\ output'.shows = output.shows
        /\ IsFile(f) /\ IsFile(g)
    BY <2>1, ApplyIs DEF IsOutput
  <2>3. Alike(f, g)
    BY <2>2, FilledAlike
  <2>4. output # Nothing /\ Sound(f) /\ Known(f) /\ Reads(f, output.shows) /\ file' = file /\ meant' = meant
    BY <2>1 DEF ApplySignature, SInv, RInv
  <2> HIDE DEF f, g
  <2>5. ASSUME LongUpdates(g) PROVE PagesKnown(g)
    <3>1. LongUpdates(f)
      BY <2>2, <2>3, <2>5, AlikeLong
    <3> QED
      BY <2>3, <2>4, <3>1, AlikePages DEF Known
  <2>6. ASSUME Good(g) PROVE Show(g) = output.shows
    <3>1. Good(f)
      BY <2>2, <2>3, <2>6, AlikeGood
    <3>2. Linked(f)
      BY <2>4, <3>1 DEF Good, Sound, Rising, Linked
    <3>3. Show(f) = output.shows
      BY <2>4, <3>1 DEF Reads
    <3> QED
      BY <2>2, <2>3, <3>2, <3>3, AlikeShow
  <2>7. Known(output'.bytes) /\ Reads(output'.bytes, output'.shows)
    BY <2>2, <2>5, <2>6 DEF Known, Reads, g
  <2> QED
    BY <1>1, <2>4, <2>7 DEF RInv
<1>4. CASE Save
  BY <1>1, <1>4 DEF RInv, Save
<1>5. CASE LoadExisting
  BY <1>1, <1>5 DEF RInv, LoadExisting
<1>6. CASE UNCHANGED <<file, meant, output>>
  BY <1>1, <1>6 DEF RInv
<1> QED
  BY <1>2, <1>3, <1>4, <1>5, <1>6 DEF Next, SetField, AddAnnot, DeleteAnnot, AddSignatureField, vars

\* What is read is what was meant, at every step of a session: the invariant.
THEOREM ReadsInvariance == Spec => []RInv
  BY UpdatesInvariance, SoundInvariance, ReadsInit, ReadsStep, PTL DEF Spec

\* What every session asked for is read back from the file that was saved, when its
\* updates are longer than the window of find_startxref and write no object twice.
THEOREM EditsAreReadBack == Spec => []EditsReadBack
<1>1. RInv => EditsReadBack
  BY DEF RInv, Reads, Good, EditsReadBack
<1> QED
  BY <1>1, ReadsInvariance, PTL

---------------------------------------------------------------------------
(* What a revision changes. *)

\* The first parts of a file are a file.
LEMMA UptoIsFile ==
  ASSUME NEW f, IsFile(f), NEW k \in 1..Len(f)
  PROVE  LET g == Upto(f, k) IN
         /\ IsFile(g) /\ Len(g) = k /\ \A i \in 1..k : g[i] = f[i]
         /\ Rising(f) => Rising(g) /\ Linked(g)
         /\ PagesKnown(f) => PagesKnown(g)
<1> DEFINE g == Upto(f, k)
<1>1. Len(f) \in Nat \ {0} /\ IsSeq(f) /\ k \in 0..Len(f)
  BY FileIsChained DEF IsFile
<1>2. IsSeq(g) /\ Len(g) = k /\ \A i \in 1..k : g[i] = f[i]
  BY <1>1, FirstOf DEF Upto
<1> HIDE DEF g
<1>3. /\ 1 \in 1..k /\ \A i \in 1..k : i \in 1..Len(f)
      /\ \A i \in 2..k : i \in 2..Len(f) /\ i \in 1..k /\ i - 1 \in 1..k
  BY <1>1
<1>4. IsFile(g)
  <2>1. Len(g) # 0 /\ g[1] = f[1] /\ f[1] \in Bases
    BY <1>1, <1>2, <1>3 DEF IsFile
  <2>2. \A i \in 2..k : g[i].prev \in 1..i - 1 /\ IsUpdate(g[i], g[1])
    BY <1>2, <1>3, <2>1 DEF IsFile
  <2>3. \A i, h \in 1..k : i < h => g[i].end < g[h].end
    BY <1>2, <1>3 DEF IsFile
  <2> QED
    BY <1>2, <2>1, <2>2, <2>3 DEF IsFile
<1>5. Rising(f) => Rising(g) /\ Linked(g)
  BY <1>2, <1>3 DEF Rising, Linked
<1>6. PagesKnown(f) => PagesKnown(g)
  BY <1>2, <1>3 DEF PagesKnown
<1> QED
  BY <1>2, <1>4, <1>5, <1>6 DEF g

\* What a part does not write is read as before.
LEMMA NotInPart ==
  ASSUME NEW f, IsFile(f), Rising(f), NEW i \in 2..Len(f), NEW n, n \notin Numbers(f[i])
  PROVE  Resolve(Upto(f, i), n) = Resolve(Upto(f, i - 1), n)
<1> DEFINE g == Upto(f, i)
           h == Upto(f, i - 1)
<1>1. Len(f) \in Nat \ {0} /\ i \in 1..Len(f) /\ i - 1 \in 1..Len(f)
  BY FileIsChained
<1>2. IsFile(g) /\ Linked(g) /\ Len(g) = i /\ \A k \in 1..i : g[k] = f[k]
  BY <1>1, UptoIsFile
<1>3. IsFile(h) /\ Linked(h) /\ Len(h) = i - 1 /\ \A k \in 1..i - 1 : h[k] = f[k]
  BY <1>1, UptoIsFile
<1>4. Chained(g) /\ Chained(h)
  BY <1>2, <1>3, FileIsChained
<1> HIDE DEF g, h
<1>5. Len(g) = Len(h) + 1 /\ g[i] = f[i] /\ \A k \in 1..Len(h) : g[k] = h[k]
  BY <1>1, <1>2, <1>3
<1>6. ~Registered(g, i, n)
  BY <1>5 DEF Registered, Written, Numbers
<1> QED
  BY <1>2, <1>3, <1>4, <1>5, <1>6, ResolveStep DEF g, h

\* Under P=1 nothing may be written.
LEMMA NothingWritten ==
  ASSUME NEW f, IsFile(f), Rising(f), NEW i \in 2..Len(f), Numbers(f[i]) = {}
  PROVE  Show(Upto(f, i)) = Show(Upto(f, i - 1))
<1> DEFINE g == Upto(f, i)
           h == Upto(f, i - 1)
<1>1. \A n : Resolve(g, n) = Resolve(h, n)
  BY NotInPart
<1>2. g[1] = h[1]
  <2>1. i \in 1..Len(f) /\ i - 1 \in 1..Len(f) /\ 1 \in 1..i /\ 1 \in 1..i - 1
    BY FileIsChained
  <2>2. g[1] = f[1] /\ h[1] = f[1]
    BY <2>1, UptoIsFile
  <2> QED
    BY <2>2
<1> HIDE DEF g, h
<1>3. Annots(g) = Annots(h)
  BY <1>1 DEF Annots
<1>4. Show(g) = Show(h)
  BY <1>1, <1>2, <1>3 DEF Show
<1> QED
  BY <1>4 DEF g, h

\* An object of a class is of a kind of it, in every part.
LEMMA ClassIs ==
  ASSUME NEW f, IsFile(f), Sound(f), LongUpdates(f), NEW i \in 1..Len(f), NEW j \in DOMAIN f[i].objs,
         Class(f, f[i].objs[j][1]) \in {"form", "signature"}
  PROVE  f[i].objs[j][2].kind \in {"field", "widget", "sig"}
<1> DEFINE n == f[i].objs[j][1]
<1>1. Resolve(f, n).kind \in {"field", "widget", "sig"}
  BY DEF Class
<1>2. Chained(f)
  BY FileIsChained
<1>3. \/ Resolve(f, n) = Missing
      \/ \E k \in 1..Len(f) : \E m \in DOMAIN f[k].objs :
           f[k].objs[m][1] = n /\ Resolve(f, n) = f[k].objs[m][2]
  BY <1>2, ResolveFinds
<1>4. PICK k \in 1..Len(f) : \E m \in DOMAIN f[k].objs :
        f[k].objs[m][1] = n /\ Resolve(f, n) = f[k].objs[m][2]
  BY <1>1, <1>3 DEF Missing
<1>5. PICK m \in DOMAIN f[k].objs : f[k].objs[m][1] = n /\ Resolve(f, n) = f[k].objs[m][2]
  BY <1>4
<1>6. f[i].objs[j][2].kind = f[k].objs[m][2].kind
  BY <1>5, KindsStay
<1> QED
  BY <1>1, <1>5, <1>6

\* Under P=2 nor the page nor what it names.
LEMMA PageKept ==
  ASSUME NEW f, IsFile(f), Sound(f), LongUpdates(f), PagesKnown(f), NEW i \in 2..Len(f),
         \A n \in Numbers(f[i]) : Class(f, n) \in {"form", "signature"}
  PROVE  Show(Upto(f, i)).annots = Show(Upto(f, i - 1)).annots
<1> DEFINE g == Upto(f, i)
           h == Upto(f, i - 1)
<1>1. Len(f) \in Nat \ {0} /\ i \in 1..Len(f) /\ i - 1 \in 1..Len(f) /\ i - 1 \in 1..i - 1 /\ 1 \in 1..i - 1
      /\ Rising(f)
  BY FileIsChained DEF Sound
<1>2. IsFile(h) /\ Rising(h) /\ PagesKnown(h) /\ Len(h) = i - 1 /\ h[1] = f[1] /\ h[Len(h)] = f[i - 1]
  BY <1>1, UptoIsFile
<1>3. ASSUME NEW n \in Numbers(f[i])
      PROVE  n # Page /\ (n \in f[1].fields \/ n >= f[i - 1].size)
  <2>1. PICK j \in DOMAIN f[i].objs : f[i].objs[j][1] = n
    BY <1>3 DEF Numbers
  <2>2. f[i].objs[j][2].kind \in {"field", "widget", "sig"}
    BY <1>1, <1>3, <2>1, ClassIs
  <2>3. /\ f[i].objs[j][2].kind = "page" <=> n = Page
        /\ f[i].objs[j][2].kind = "field" <=> n \in f[1].fields
    BY <1>1, <2>1, Roles
  <2>4. f[i].objs[j][2].kind \in {"widget", "sig"} => n >= f[i - 1].size
    BY <1>1, <2>1 DEF Rising, Fresh
  <2> QED
    BY <2>2, <2>3, <2>4
<1>4. Annots(g) = Annots(h)
  BY <1>1, <1>3, NotInPart DEF Annots
<1>5. ASSUME NEW m \in DOMAIN Annots(h)
      PROVE  Resolve(g, Annots(h)[m]) = Resolve(h, Annots(h)[m])
  <2> DEFINE x == Annots(h)[m]
  <2>1. KnownIn(f[1], f[i - 1].size, x)
    BY <1>2, AnnotsAreKnown
  <2> HIDE DEF x
  <2>2. f[i - 1].size \in Nat
    BY <1>1, SizeIs
  <2>3. x \notin Numbers(f[i])
    BY <1>3, <2>1, <2>2 DEF KnownIn
  <2> QED
    BY <1>1, <2>3, NotInPart DEF x
<1> HIDE DEF g, h
<1>6. Show(g).annots = Show(h).annots
  BY <1>4, <1>5 DEF Show
<1> QED
  BY <1>6 DEF g, h

---------------------------------------------------------------------------
(* What a certification permits. *)

LEMMA CertificationIs ==
  ASSUME NEW f, IsFile(f), Signed(f), Certifications(f) # {}
  PROVE  Permitted(f) \in 1..3
<1> DEFINE n == Len(f)
           C == Certifications(f)
<1>1. n \in Nat \ {0} /\ Chained(f)
  BY FileIsChained
<1>2. ASSUME NEW s \in C
      PROVE  s.permits \in 1..3 /\ Len(s.covers) \in 0..n
  <2>1. PICK x : s = Resolve(f, x)
    BY <1>2 DEF Certifications, Signatures
  <2>2. s.kind = "sig" /\ s.permits # 0
    BY <1>2 DEF Certifications
  <2>3. \/ Resolve(f, x) = Missing
        \/ \E k \in 1..Len(f) : \E m \in DOMAIN f[k].objs :
             f[k].objs[m][1] = x /\ Resolve(f, x) = f[k].objs[m][2]
    BY <1>1, ResolveFinds
  <2>4. PICK k \in 1..Len(f) : \E m \in DOMAIN f[k].objs : s = f[k].objs[m][2]
    BY <2>1, <2>2, <2>3 DEF Missing
  <2>5. PICK m \in DOMAIN f[k].objs : s = f[k].objs[m][2]
    BY <2>4
  <2>6. s.permits \in Permissions \union {0}
    BY <2>2, <2>5, Roles DEF IsObject
  <2>7. s.permits \in 1..3
    <3>1. s.permits \in Permissions
      BY <2>2, <2>6
    <3>2. s.permits \in 0..3
      BY <3>1, PermissionsAssumption
    <3> QED
      BY <2>2, <3>2
  <2>8. CASE s.covers = <<>>
    <3>1. Len(s.covers) = 0
      BY <2>8, Singles
    <3> QED
      BY <1>1, <2>7, <3>1
  <2>9. CASE s.covers # <<>>
    <3>1. Len(s.covers) = k
      BY <2>2, <2>5, <2>9 DEF Signed
    <3> QED
      BY <1>1, <2>7, <3>1
  <2> QED
    BY <2>8, <2>9
<1> DEFINE L == {Len(s.covers) : s \in C}
<1>3. L \subseteq 0..n /\ L # {}
  BY <1>2
<1>4. Coverage(f) = Max(L)
  BY DEF Coverage
<1>5. Max(L) \in L
  <2> HIDE DEF L, n
  <2> QED
    BY <1>1, <1>3, MaxIsGreatest
<1>6. PICK s \in C : Len(s.covers) = Coverage(f)
  BY <1>4, <1>5
<1> HIDE DEF C
<1>7. (CHOOSE t \in C : Len(t.covers) = Coverage(f)) \in C
  BY <1>6
<1>8. Permitted(f) = (CHOOSE t \in C : Len(t.covers) = Coverage(f)).permits
  BY DEF Permitted, C
<1> QED
  BY <1>2, <1>7, <1>8

\* A field of the document is a field.
LEMMA FieldsAreForm ==
  ASSUME NEW f, IsFile(f), NEW n \in f[1].fields \ f[1].aged
  PROVE  Class(f, n) = "form"
<1>1. Chained(f) /\ f[1] \in Bases
  BY FileIsChained DEF IsFile
<1>2. n \in Numbers(f[1])
  BY <1>1, BaseIs
<1>3. PICK k \in 1..Len(f) : \E m \in DOMAIN f[k].objs :
        f[k].objs[m][1] = n /\ Resolve(f, n) = f[k].objs[m][2]
  <2>1. \/ Resolve(f, n) = Missing /\ n \notin Numbers(f[1])
        \/ \E k \in 1..Len(f) : \E m \in DOMAIN f[k].objs :
             f[k].objs[m][1] = n /\ Resolve(f, n) = f[k].objs[m][2]
    BY <1>1, ResolveFinds
  <2> QED
    BY <1>2, <2>1
<1>4. PICK m \in DOMAIN f[k].objs : f[k].objs[m][1] = n /\ Resolve(f, n) = f[k].objs[m][2]
  BY <1>3
<1>5. Resolve(f, n).kind = "field"
  BY <1>4, Roles
<1> QED
  BY <1>5 DEF Class

\* analyze_docmdp_revision: a revision that it passes changed nothing that the
\* certification forbids, and one that fills in a form passes.
THEOREM ChangesAreJudged == Spec => []ChangesJudged
<1>1. UInv /\ SInv /\ RInv => NothingForbiddenPasses
  <2> SUFFICES ASSUME UInv, SInv, RInv, LongUpdates(file), NEW i \in 2..Len(file), Allowed(file, i)
               PROVE  /\ Permitted(file) = 1 => Show(Upto(file, i)) = Show(Upto(file, i - 1))
                      /\ Permitted(file) = 2 =>
                           Show(Upto(file, i)).annots = Show(Upto(file, i - 1)).annots
    BY DEF NothingForbiddenPasses, Upto
  <2>1. IsFile(file) /\ Sound(file) /\ Rising(file) /\ PagesKnown(file)
    BY DEF UInv, SInv, RInv, Known, Sound
  <2>2. CASE Numbers(file[i]) = {}
    BY <2>1, <2>2, NothingWritten
  <2>3. CASE Numbers(file[i]) # {}
    <3>1. Permitted(file) # 1
      BY <2>3 DEF Allowed
    <3>2. ASSUME Permitted(file) = 2
          PROVE  \A n \in Numbers(file[i]) : Class(file, n) \in {"form", "signature"}
      BY <2>3, <3>2 DEF Allowed
    <3> QED
      BY <2>1, <3>1, <3>2, PageKept
  <2> QED
    BY <2>2, <2>3
<1>2. UInv => FillingPasses
  <2> SUFFICES ASSUME UInv, Certifications(file) # {}, NEW i \in 2..Len(file), Permitted(file) # 1,
                      Numbers(file[i]) \subseteq file[1].fields \ file[1].aged
               PROVE  Allowed(file, i)
    BY DEF FillingPasses
  <2>1. IsFile(file) /\ Signed(file)
    BY DEF UInv
  <2>2. Permitted(file) \in 2..3
    BY <2>1, CertificationIs
  <2>3. \A n \in Numbers(file[i]) : Class(file, n) = "form"
    BY <2>1, FieldsAreForm
  <2> QED
    BY <2>2, <2>3 DEF Allowed
<1> QED
  BY <1>1, <1>2, UpdatesInvariance, SoundInvariance, ReadsInvariance, PTL DEF ChangesJudged
=============================================================================
