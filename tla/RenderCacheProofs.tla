------------------------- MODULE RenderCacheProofs -------------------------
(***************************************************************************)
(* What RenderCache guarantees for any keys, bitmaps, sizes and limits.    *)
(*                                                                         *)
(* That a lookup is never stale is inductive as it stands (IInv): eviction *)
(* and removal only shrink map_, and a store rewrites map_ and latest      *)
(* together.  That the list, the map and the byte count agree, and that    *)
(* eviction takes the least recently used entries, needs Whole: what the   *)
(* list holds adds up to used_, and it is in the order of the last uses.   *)
(* The sums are the values of a recursive function, so the lemmas about    *)
(* them go by induction: a set of numbers that holds 0 and the successor   *)
(* of each of its members holds them all (Inherited).                      *)
(***************************************************************************)
EXTENDS RenderCache, WellFoundedInduction, SequenceTheorems, TLAPS

\* Eviction only shrinks the map; what stays keeps its node.
LEMMA EvictShrinks ==
  ASSUME NEW s, NEW m, NEW u, NEW needed, NEW limit
  PROVE  LET e == Evict(s, m, u, needed, limit).map
         IN  DOMAIN e \subseteq DOMAIN m /\ \A k \in DOMAIN e : e[k] = m[k]
  BY DEF Evict, Unmap

\* Removing k leaves the other entries as they are, and no entry of k.
LEMMA RemovedShrinks ==
  ASSUME NEW k
  PROVE  LET r == Removed(k).map
         IN  /\ DOMAIN r \subseteq DOMAIN map_ \ {k}
             /\ \A j \in DOMAIN r : r[j] = map_[j]
  BY DEF Removed, Unmap

Keyed == DOMAIN map_ \subseteq Keys /\ latest \in [Keys -> Values \cup {NoValue}]
IInv == Keyed /\ NeverStale

\* The cache starts with nothing in it to be stale.
THEOREM InitIInv == Init => IInv
  BY DEF Init, IInv, Keyed, NeverStale

\* Every operation of the cache keeps IInv.
THEOREM NextIInv == IInv /\ [Next]_vars => IInv'
<1> SUFFICES ASSUME IInv, [Next]_vars PROVE IInv'
  OBVIOUS
<1> USE DEF IInv, Keyed, NeverStale
<1>1. ASSUME NEW limit \in Limits, SetMaxSize(limit) PROVE IInv'
  BY <1>1, EvictShrinks DEF SetMaxSize
<1>2. ASSUME NEW k \in Keys, Find(k) PROVE IInv'
  BY <1>2 DEF Find
<1>3. ASSUME NEW k \in Keys, Erase(k) PROVE IInv'
  BY <1>3, RemovedShrinks DEF Erase
<1>4. ASSUME NEW k \in Keys, NEW v \in Values, StoreOversized(k, v) PROVE IInv'
  BY <1>4, RemovedShrinks DEF StoreOversized
<1>5. ASSUME NEW k \in Keys, NEW v \in Values, StoreFitting(k, v) PROVE IInv'
  <2> DEFINE r == Removed(k)
             e == Evict(r.list, r.map, r.used, Bytes[k][v], max_size_)
  <2>1. DOMAIN e.map \subseteq DOMAIN map_ \ {k} /\ \A j \in DOMAIN e.map : e.map[j] = map_[j]
    BY RemovedShrinks, EvictShrinks
  <2>2. map_' = [j \in DOMAIN e.map \cup {k} |->
                   IF j = k THEN [key |-> k, val |-> v, approx_bytes |-> Bytes[k][v]]
                            ELSE e.map[j]]
    BY <1>5 DEF StoreFitting
  <2>3. latest' = [latest EXCEPT ![k] = v]
    BY <1>5 DEF StoreFitting
  <2> HIDE DEF e, r
  <2> QED
    BY <2>1, <2>2, <2>3
<1>6. CASE Clear
  BY <1>6 DEF Clear
<1>7. CASE UNCHANGED vars
  BY <1>7 DEF vars
<1> QED
  BY <1>1, <1>2, <1>3, <1>4, <1>5, <1>6, <1>7 DEF Next

\* A lookup never returns a superseded bitmap, whatever the keys, the bitmaps,
\* their sizes and the limits (RenderCache::store, erase and evict_to_fit).
THEOREM LookupsAreNeverStale == Spec => []NeverStale
<1>1. IInv => NeverStale
  BY DEF IInv
<1> QED
  BY InitIInv, NextIInv, <1>1, PTL DEF Spec

---------------------------------------------------------------------------
(* Implementation of ForgetfulMap.  Where the invariant holds before and   *)
(* after a step, what the cache has under a key is a matter of latest      *)
(* alone; it remains to be seen which keys it may have gained.             *)

\* A step that changes latest under k only, and gains no key but k, stores or erases k.
LEMMA StoreIsStore ==
  ASSUME IInv, IInv', NEW k \in Keys, NEW v \in Values,
         latest' = [latest EXCEPT ![k] = v], DOMAIN map_' \subseteq DOMAIN map_ \cup {k}
  PROVE  Map!Store(k, v)
  BY DEF IInv, Keyed, NeverStale, Map!Store, Map!Part

LEMMA EraseIsErase ==
  ASSUME IInv, IInv', NEW k \in Keys,
         latest' = [latest EXCEPT ![k] = NoValue], DOMAIN map_' \subseteq DOMAIN map_ \ {k}
  PROVE  Map!Erase(k)
  BY DEF IInv, Keyed, NeverStale, Map!Erase, Map!Part

LEMMA LossIsForget ==
  ASSUME IInv, IInv', latest' = latest, DOMAIN map_' \subseteq DOMAIN map_
  PROVE  Map!Forget
  BY DEF IInv, Keyed, NeverStale, Map!Forget, Map!Part

\* Every step of the cache is one of the map, or changes nothing of it.
LEMMA StepsMap ==
  ASSUME IInv, IInv', [Next]_vars
  PROVE  Map!Next
<1>1. ASSUME NEW limit \in Limits, SetMaxSize(limit) PROVE Map!Next
  <2>1. latest' = latest /\ DOMAIN map_' \subseteq DOMAIN map_
    BY <1>1, EvictShrinks DEF SetMaxSize
  <2> QED
    BY <2>1, LossIsForget DEF Map!Next
<1>2. ASSUME NEW k \in Keys, Find(k) PROVE Map!Next
  BY <1>2, LossIsForget DEF Find, Map!Next
<1>3. ASSUME NEW k \in Keys, Erase(k) PROVE Map!Next
  <2>1. latest' = [latest EXCEPT ![k] = NoValue] /\ DOMAIN map_' \subseteq DOMAIN map_ \ {k}
    BY <1>3, RemovedShrinks DEF Erase
  <2> QED
    BY <2>1, EraseIsErase DEF Map!Next
<1>4. ASSUME NEW k \in Keys, NEW v \in Values, StoreOversized(k, v) PROVE Map!Next
  <2>1. latest' = [latest EXCEPT ![k] = v] /\ DOMAIN map_' \subseteq DOMAIN map_ \cup {k}
    BY <1>4, RemovedShrinks DEF StoreOversized
  <2> QED
    BY <2>1, StoreIsStore DEF Map!Next
<1>5. ASSUME NEW k \in Keys, NEW v \in Values, StoreFitting(k, v) PROVE Map!Next
  <2> DEFINE r == Removed(k)
             e == Evict(r.list, r.map, r.used, Bytes[k][v], max_size_)
  <2>1. DOMAIN e.map \subseteq DOMAIN map_
    BY RemovedShrinks, EvictShrinks
  <2>2. latest' = [latest EXCEPT ![k] = v] /\ DOMAIN map_' = DOMAIN e.map \cup {k}
    BY <1>5 DEF StoreFitting
  <2> HIDE DEF e, r
  <2> QED
    BY <2>1, <2>2, StoreIsStore DEF Map!Next
<1>6. CASE Clear
  BY <1>6 DEF Clear, Map!Next, Map!Clear
<1>7. CASE UNCHANGED vars
  BY <1>7, LossIsForget DEF vars, Map!Next
<1> QED
  BY <1>1, <1>2, <1>3, <1>4, <1>5, <1>6, <1>7 DEF Next

\* The cache implements a map that forgets, whatever the keys, the bitmaps, their
\* sizes and the limits: no caller sees more of eviction than a miss.
THEOREM CacheIsForgetfulMap == Spec => IsForgetfulMap
<1>1. Init => Map!Init
  BY DEF Init, Map!Init
<1>2. IInv /\ IInv' /\ [Next]_vars => [Map!Next]_<<latest, [k \in DOMAIN map_ |-> map_[k].val]>>
  BY StepsMap
<1> QED
  BY InitIInv, NextIInv, <1>1, <1>2, PTL DEF Spec, IsForgetfulMap, Map!Spec

---------------------------------------------------------------------------
(* Numbers: what holds of 0 and is inherited by successors holds of all.   *)

LEMMA LeastNatural ==
  ASSUME NEW S, S \subseteq Nat, S # {}
  PROVE  \E m \in S : \A y \in S : m <= y
<1> DEFINE Less == OpToRel(<, Nat)
<1>1. \A x, y \in Nat : x < y <=> <<x, y>> \in Less
  BY DEF OpToRel
<1>2. IsWellFoundedOn(Less, Nat)
  BY NatLessThanWellFounded
<1> HIDE DEF Less
<1>3. PICK m \in S : \A y \in S : <<y, m>> \notin Less
  BY <1>2, WFMin
<1>4. \A y \in S : y \in Nat /\ m \in Nat /\ ~(y < m)
  BY <1>1, <1>3
<1> QED
  BY <1>4

LEMMA Inherited ==
  ASSUME NEW S, 0 \in S, \A n \in Nat : n \in S => n + 1 \in S
  PROVE  Nat \subseteq S
<1> DEFINE T == Nat \ S
<1> SUFFICES ASSUME T # {} PROVE FALSE
  OBVIOUS
<1>1. PICK n \in T : \A m \in T : n <= m
  BY LeastNatural
<1>2. n # 0 /\ n - 1 \in Nat
  BY <1>1
<1>3. n - 1 \in S
  BY <1>1, <1>2
<1> QED
  BY <1>1, <1>2, <1>3

\* Sums that grow by the same amounts, from a and from b on.
Together(f, a, g, b, m) ==
  /\ \A n \in 0..m : f[a + n] \in Int /\ g[b + n] \in Int
  /\ \A n \in 0..m - 1 : \E d \in Int : f[a + n + 1] = f[a + n] + d /\ g[b + n + 1] = g[b + n] + d

ByTheSame(f, a, g, b, m) == \E d \in Int : f[a + m] = f[a] + d /\ g[b + m] = g[b] + d

LEMMA SameGrowth ==
  ASSUME NEW f, NEW g, NEW a \in Nat, NEW b \in Nat, NEW m \in Nat, Together(f, a, g, b, m)
  PROVE  ByTheSame(f, a, g, b, m)
<1> DEFINE S == {n \in Nat : n <= m => \E d \in Int : f[a + n] = f[a] + d /\ g[b + n] = g[b] + d}
<1>1. 0 \in S
  <2>1. 0 \in 0..m /\ a + 0 = a /\ b + 0 = b
    OBVIOUS
  <2>2. f[a] \in Int /\ g[b] \in Int
    BY <2>1 DEF Together
  <2>3. f[a + 0] = f[a] + 0 /\ g[b + 0] = g[b] + 0
    BY <2>1, <2>2
  <2> QED
    BY <2>3
<1>2. ASSUME NEW n \in Nat, n \in S PROVE n + 1 \in S
  <2> SUFFICES ASSUME n + 1 <= m
               PROVE  \E d \in Int : f[a + (n + 1)] = f[a] + d /\ g[b + (n + 1)] = g[b] + d
    OBVIOUS
  <2>1. PICK d \in Int : f[a + n] = f[a] + d /\ g[b + n] = g[b] + d
    BY <1>2
  <2>2. n \in 0..m - 1 /\ 0 \in 0..m
    OBVIOUS
  <2>3. PICK e \in Int : f[a + n + 1] = f[a + n] + e /\ g[b + n + 1] = g[b + n] + e
    BY <2>2 DEF Together
  <2>4. f[a] \in Int /\ g[b] \in Int
    <3>1. a + 0 = a /\ b + 0 = b
      OBVIOUS
    <3> QED
      BY <2>2, <3>1 DEF Together
  <2>5. a + (n + 1) = a + n + 1 /\ b + (n + 1) = b + n + 1 /\ d + e \in Int
    OBVIOUS
  <2>6. f[a + n + 1] = f[a] + (d + e) /\ g[b + n + 1] = g[b] + (d + e)
    BY <2>1, <2>3, <2>4
  <2> HIDE DEF S
  <2> QED
    BY <2>5, <2>6
<1>3. Nat \subseteq S
  <2> HIDE DEF S
  <2> QED
    BY <1>1, <1>2, Inherited
<1> QED
  BY <1>3 DEF ByTheSame

---------------------------------------------------------------------------
(* The bytes of a list. *)

\* The running count is defined by its recursion.
LEMMA TotalOf ==
  ASSUME NEW s \in Seq(Node)
  PROVE  /\ Total(s) \in [0..Len(s) -> Nat]
         /\ Total(s)[0] = 0
         /\ \A n \in 1..Len(s) : Total(s)[n] = Total(s)[n - 1] + s[n].approx_bytes
<1> DEFINE Sum(f, m) == f = [n \in 0..m |-> IF n = 0 THEN 0 ELSE f[n - 1] + s[n].approx_bytes]
           S == {m \in Nat : m <= Len(s) => \E f \in [0..m -> Nat] : Sum(f, m)}
<1>1. \A n \in 1..Len(s) : s[n].approx_bytes \in Nat
  <2>1. \A n \in 1..Len(s) : s[n] \in Node
    OBVIOUS
  <2> QED
    BY <2>1 DEF Node
<1>2. 0 \in S
  <2>1. Sum([n \in 0..0 |-> 0], 0)
    OBVIOUS
  <2> QED
    BY <2>1
<1>3. ASSUME NEW m \in Nat, m \in S PROVE m + 1 \in S
  <2> SUFFICES ASSUME m + 1 <= Len(s) PROVE \E f \in [0..m + 1 -> Nat] : Sum(f, m + 1)
    <3>1. m + 1 \in Nat
      OBVIOUS
    <3> HIDE DEF Sum
    <3> QED
      BY <3>1
  <2>1. PICK f \in [0..m -> Nat] : Sum(f, m)
    BY <1>3
  <2> DEFINE b == s[m + 1].approx_bytes
             g == [n \in 0..m + 1 |-> IF n = m + 1 THEN f[m] + b ELSE f[n]]
  <2>2. b \in Nat
    BY <1>1
  <2>3. g \in [0..m + 1 -> Nat]
    BY <2>2
  <2>4. ASSUME NEW n \in 0..m + 1
        PROVE  g[n] = IF n = 0 THEN 0 ELSE g[n - 1] + s[n].approx_bytes
    <3>1. CASE n = m + 1
      <4>1. g[n] = f[m] + b /\ g[n - 1] = f[m] /\ n # 0
        BY <3>1
      <4> QED
        BY <3>1, <4>1
    <3>2. CASE n \in 0..m
      <4>1. g[n] = f[n]
        BY <3>2
      <4>2. n # 0 => n - 1 \in 0..m /\ g[n - 1] = f[n - 1]
        BY <3>2
      <4>3. f[n] = IF n = 0 THEN 0 ELSE f[n - 1] + s[n].approx_bytes
        BY <2>1, <3>2
      <4> HIDE DEF g
      <4> QED
        BY <4>1, <4>2, <4>3
    <3> QED
      BY <3>1, <3>2
  <2>5. Sum(g, m + 1)
    <3>1. g = [n \in 0..m + 1 |-> g[n]]
      BY <2>3
    <3> HIDE DEF g
    <3> QED
      BY <2>4, <3>1
  <2> HIDE DEF g
  <2> QED
    BY <2>3, <2>5
<1>4. \E f \in [0..Len(s) -> Nat] : Sum(f, Len(s))
  <2>1. Nat \subseteq S
    <3> HIDE DEF S
    <3> QED
      BY <1>2, <1>3, Inherited
  <2> QED
    BY <2>1
<1>5. Total(s) = CHOOSE f : Sum(f, Len(s))
  BY DEF Total
<1>6. Sum(Total(s), Len(s))
  BY <1>4, <1>5
<1>7. \A f, h : Sum(f, Len(s)) /\ Sum(h, Len(s)) => f = h
  <2> SUFFICES ASSUME NEW f, NEW h, Sum(f, Len(s)), Sum(h, Len(s)) PROVE f = h
    OBVIOUS
  <2> DEFINE T == {m \in Nat : m <= Len(s) => f[m] = h[m]}
  <2>1. 0 \in T
    OBVIOUS
  <2>2. ASSUME NEW m \in Nat, m \in T PROVE m + 1 \in T
    <3> SUFFICES ASSUME m + 1 <= Len(s) PROVE f[m + 1] = h[m + 1]
      OBVIOUS
    <3>1. f[m] = h[m] /\ (m + 1) - 1 = m /\ m + 1 \in 0..Len(s) /\ m + 1 # 0
      BY <2>2
    <3>2. f[m + 1] = f[m] + s[m + 1].approx_bytes /\ h[m + 1] = h[m] + s[m + 1].approx_bytes
      BY <3>1
    <3> QED
      BY <3>1, <3>2
  <2>3. Nat \subseteq T
    <3> HIDE DEF T
    <3> QED
      BY <2>1, <2>2, Inherited
  <2>4. \A m \in 0..Len(s) : f[m] = h[m]
    BY <2>3
  <2>5. f = [m \in 0..Len(s) |-> f[m]] /\ h = [m \in 0..Len(s) |-> h[m]]
    OBVIOUS
  <2> QED
    BY <2>4, <2>5
<1>8. PICK f \in [0..Len(s) -> Nat] : Sum(f, Len(s))
  BY <1>4
<1>9. Total(s) = f
  <2> HIDE DEF Sum
  <2> QED
    BY <1>6, <1>7, <1>8
<1>10. \A n \in 0..Len(s) : f[n] = IF n = 0 THEN 0 ELSE f[n - 1] + s[n].approx_bytes
  BY <1>8
<1>11. Len(s) \in Nat
  OBVIOUS
<1> QED
  BY <1>9, <1>10, <1>11

\* Numbers of nodes, so that what is subtracted is known to be an integer.
LEMMA TotalGrows ==
  ASSUME NEW s \in Seq(Node)
  PROVE  \A i, j \in 0..Len(s) : i <= j => Total(s)[i] <= Total(s)[j]
<1> SUFFICES ASSUME NEW i \in 0..Len(s) PROVE \A j \in 0..Len(s) : i <= j => Total(s)[i] <= Total(s)[j]
  OBVIOUS
<1> DEFINE t == Total(s)
           S == {m \in Nat : i + m <= Len(s) => t[i] <= t[i + m]}
<1>1. /\ t \in [0..Len(s) -> Nat]
      /\ \A n \in 1..Len(s) : t[n] = t[n - 1] + s[n].approx_bytes
  BY TotalOf
<1>2. \A n \in 1..Len(s) : s[n].approx_bytes \in Nat
  <2>1. \A n \in 1..Len(s) : s[n] \in Node
    OBVIOUS
  <2> QED
    BY <2>1 DEF Node
<1> HIDE DEF t
<1>3. 0 \in S
  BY <1>1
<1>4. ASSUME NEW m \in Nat, m \in S PROVE m + 1 \in S
  <2> SUFFICES ASSUME i + (m + 1) <= Len(s) PROVE t[i] <= t[i + (m + 1)]
    OBVIOUS
  <2>1. i + (m + 1) \in 1..Len(s) /\ (i + (m + 1)) - 1 = i + m /\ i + m \in 0..Len(s)
    OBVIOUS
  <2>2. t[i] <= t[i + m]
    BY <1>4, <2>1
  <2>3. t[i + (m + 1)] = t[i + m] + s[i + (m + 1)].approx_bytes
    BY <1>1, <2>1
  <2>4. t[i] \in Nat /\ t[i + m] \in Nat /\ s[i + (m + 1)].approx_bytes \in Nat
    BY <1>1, <1>2, <2>1
  <2> QED
    BY <2>2, <2>3, <2>4
<1>5. Nat \subseteq S
  <2> HIDE DEF S
  <2> QED
    BY <1>3, <1>4, Inherited
<1>6. ASSUME NEW j \in 0..Len(s), i <= j PROVE t[i] <= t[j]
  <2>1. j - i \in Nat /\ i + (j - i) = j
    BY <1>6
  <2> QED
    BY <1>5, <2>1
<1> QED
  BY <1>6 DEF t

\* The nodes of s behind position a begin as those of t behind b.
Alike(s, a, t, b, m) ==
  a + m <= Len(s) /\ b + m <= Len(t) /\ \A n \in 1..m : s[a + n] = t[b + n]

\* Lists that are alike grow by the same bytes.
LEMMA AlikeGrow ==
  ASSUME NEW s \in Seq(Node), NEW t \in Seq(Node), NEW a \in Nat, NEW b \in Nat, NEW m \in Nat,
         Alike(s, a, t, b, m)
  PROVE  ByTheSame(Total(s), a, Total(t), b, m)
<1>1. /\ \A n \in 0..Len(s) : Total(s)[n] \in Nat
      /\ \A n \in 1..Len(s) : Total(s)[n] = Total(s)[n - 1] + s[n].approx_bytes
  BY TotalOf
<1>2. /\ \A n \in 0..Len(t) : Total(t)[n] \in Nat
      /\ \A n \in 1..Len(t) : Total(t)[n] = Total(t)[n - 1] + t[n].approx_bytes
  BY TotalOf
<1>3. \A n \in 1..Len(s) : s[n].approx_bytes \in Int
  <2>1. \A n \in 1..Len(s) : s[n] \in Node
    OBVIOUS
  <2> QED
    BY <2>1 DEF Node
<1>4. Len(s) \in Nat /\ Len(t) \in Nat /\ a + m <= Len(s) /\ b + m <= Len(t)
  BY DEF Alike
<1>5. ASSUME NEW n \in 0..m PROVE Total(s)[a + n] \in Int /\ Total(t)[b + n] \in Int
  <2>1. a + n \in 0..Len(s) /\ b + n \in 0..Len(t)
    BY <1>4
  <2> QED
    BY <1>1, <1>2, <2>1
<1>6. ASSUME NEW n \in 0..m - 1
      PROVE  \E d \in Int : /\ Total(s)[a + n + 1] = Total(s)[a + n] + d
                           /\ Total(t)[b + n + 1] = Total(t)[b + n] + d
  <2>1. /\ a + n + 1 \in 1..Len(s) /\ (a + n + 1) - 1 = a + n
        /\ b + n + 1 \in 1..Len(t) /\ (b + n + 1) - 1 = b + n
        /\ n + 1 \in 1..m /\ a + (n + 1) = a + n + 1 /\ b + (n + 1) = b + n + 1
    BY <1>4
  <2>2. s[a + n + 1] = t[b + n + 1]
    <3>1. s[a + (n + 1)] = t[b + (n + 1)]
      BY <2>1 DEF Alike
    <3> QED
      BY <2>1, <3>1
  <2>3. Total(s)[a + n + 1] = Total(s)[a + n] + s[a + n + 1].approx_bytes
    BY <1>1, <2>1
  <2>4. Total(t)[b + n + 1] = Total(t)[b + n] + t[b + n + 1].approx_bytes
    BY <1>2, <2>1
  <2>5. s[a + n + 1].approx_bytes \in Int
    BY <1>3, <2>1
  <2> QED
    BY <2>2, <2>3, <2>4, <2>5
<1>7. Together(Total(s), a, Total(t), b, m)
  BY <1>5, <1>6 DEF Together
<1> QED
  BY <1>7, SameGrowth

---------------------------------------------------------------------------
(* What RemoveFirst of the community modules gives. *)

LEMMA Removing ==
  ASSUME NEW S, NEW s \in Seq(S), NEW e, \E i \in 1..Len(s) : s[i] = e
  PROVE  \E p \in 1..Len(s) :
           /\ s[p] = e /\ \A h \in 1..p - 1 : s[h] # e
           /\ RemoveFirst(s, e) \in Seq(S)
           /\ Len(RemoveFirst(s, e)) = Len(s) - 1
           /\ \A i \in 1..(Len(s) - 1) : RemoveFirst(s, e)[i] = IF i < p THEN s[i] ELSE s[i + 1]
<1> DEFINE I == {i \in 1..Len(s) : s[i] = e}
           p == Min(I)
           a == SubSeq(s, 1, p - 1)
           b == SubSeq(s, p + 1, Len(s))
<1>1. I \subseteq Nat /\ I # {}
  OBVIOUS
<1>2. p \in I /\ \A y \in I : p <= y
  <2> HIDE DEF I
  <2> QED
    BY <1>1, LeastNatural DEF Min
<1>3. RemoveFirst(s, e) = a \o b
  BY <1>1 DEF RemoveFirst, SelectInSeq, RemoveAt
<1> HIDE DEF p
<1>4. p \in 1..Len(s) /\ s[p] = e /\ \A h \in 1..p - 1 : s[h] # e
  BY <1>2
<1>5. /\ a \in Seq(S) /\ Len(a) = p - 1 /\ \A i \in 1..p - 1 : a[i] = s[i]
      /\ b \in Seq(S) /\ Len(b) = Len(s) - p /\ \A i \in 1..Len(s) - p : b[i] = s[p + i]
  BY <1>4
<1> HIDE DEF a, b, I
<1>6. a \o b \in Seq(S) /\ Len(a \o b) = Len(s) - 1
  <2>1. a \o b \in Seq(S) /\ Len(a \o b) = Len(a) + Len(b)
    BY <1>5, ConcatProperties
  <2>2. (p - 1) + (Len(s) - p) = Len(s) - 1
    BY <1>4
  <2> QED
    BY <1>5, <2>1, <2>2
<1>7. ASSUME NEW i \in 1..(Len(s) - 1)
      PROVE  (a \o b)[i] = IF i < p THEN s[i] ELSE s[i + 1]
  <2>1. (a \o b)[i] = IF i <= Len(a) THEN a[i] ELSE b[i - Len(a)]
    BY <1>4, <1>5, <1>6, ConcatProperties
  <2>2. CASE i < p
    <3>1. i <= Len(a) /\ i \in 1..p - 1
      BY <1>4, <1>5, <2>2
    <3> QED
      BY <1>5, <2>1, <2>2, <3>1
  <2>3. CASE ~(i < p)
    <3>1. ~(i <= Len(a)) /\ i - Len(a) \in 1..Len(s) - p /\ p + (i - Len(a)) = i + 1
      BY <1>4, <1>5, <2>3
    <3> QED
      BY <1>5, <2>1, <2>3, <3>1
  <2> QED
    BY <2>2, <2>3
<1> QED
  BY <1>3, <1>4, <1>6, <1>7

LEMMA NothingToRemove ==
  ASSUME NEW s, NEW e, ~ \E i \in 1..Len(s) : s[i] = e
  PROVE  RemoveFirst(s, e) = s
  BY DEF RemoveFirst

\* Putting x in front of a list.
LEMMA InFront ==
  ASSUME NEW S, NEW x \in S, NEW l \in Seq(S)
  PROVE  /\ <<x>> \o l \in Seq(S) /\ Len(<<x>> \o l) = Len(l) + 1
         /\ (<<x>> \o l)[1] = x
         /\ \A i \in 1..Len(l) : (<<x>> \o l)[i + 1] = l[i]
<1>1. <<x>> \in Seq(S) /\ Len(<<x>>) = 1 /\ <<x>>[1] = x
  OBVIOUS
<1>2. /\ <<x>> \o l \in Seq(S) /\ Len(<<x>> \o l) = 1 + Len(l)
      /\ \A i \in 1..(1 + Len(l)) : (<<x>> \o l)[i] = IF i <= 1 THEN <<x>>[i] ELSE l[i - 1]
  BY <1>1, ConcatProperties
<1>3. \A i \in 1..Len(l) : i + 1 \in 1..(1 + Len(l)) /\ ~(i + 1 <= 1) /\ (i + 1) - 1 = i
  OBVIOUS
<1>4. 1 \in 1..(1 + Len(l)) /\ Len(l) \in Nat
  OBVIOUS
<1> QED
  BY <1>1, <1>2, <1>3, <1>4

---------------------------------------------------------------------------
(***************************************************************************)
(* The list, the map and the byte count describe the same entries.         *)
(***************************************************************************)
Good(l, m, u) ==
  /\ l \in Seq(Node)
  /\ DOMAIN m \subseteq Keys
  /\ \A k \in DOMAIN m : m[k] \in Node /\ m[k].key = k /\ \E i \in 1..Len(l) : l[i] = m[k]
  /\ \A i \in 1..Len(l) : l[i].key \in DOMAIN m /\ m[l[i].key] = l[i]
  /\ \A i, j \in 1..Len(l) : l[i].key = l[j].key => i = j
  /\ u = Total(l)[Len(l)]

\* What BytesFrom takes off the byte count leaves the bytes of the nodes in front.
LEMMA BytesBehind ==
  ASSUME NEW l \in Seq(Node), NEW n \in 0..Len(l)
  PROVE  /\ Total(l)[n] \in Nat /\ Total(l)[Len(l)] \in Nat
         /\ Total(l)[Len(l)] - BytesFrom(l, n + 1) = Total(l)[n]
<1>1. \A i \in 0..Len(l) : Total(l)[i] \in Nat
  BY TotalOf
<1>2. Total(l)[n] \in Nat /\ Total(l)[Len(l)] \in Nat
  BY <1>1
<1>3. BytesFrom(l, n + 1) = Total(l)[Len(l)] - Total(l)[n]
  <2>1. (n + 1) - 1 = n
    OBVIOUS
  <2> QED
    BY <2>1 DEF BytesFrom
<1> QED
  BY <1>2, <1>3

LEMMA PrefixGood ==
  ASSUME NEW l, NEW m, NEW u, Good(l, m, u), NEW n \in 0..Len(l)
  PROVE  LET p == SubSeq(l, 1, n)
             q == Unmap(m, {l[i].key : i \in n + 1 .. Len(l)})
         IN  Good(p, q, Total(l)[n]) /\ DOMAIN q = {l[i].key : i \in 1..n}
<1> DEFINE p == SubSeq(l, 1, n)
           gone == {l[i].key : i \in n + 1 .. Len(l)}
           q == Unmap(m, gone)
<1>1. l \in Seq(Node) /\ Len(l) \in Nat
  BY DEF Good
<1>2. p \in Seq(Node) /\ Len(p) = n /\ \A i \in 1..n : p[i] = l[i]
  BY <1>1
<1>3. DOMAIN q = DOMAIN m \ gone /\ \A k \in DOMAIN q : q[k] = m[k]
  BY DEF Unmap
<1>4. ASSUME NEW i \in 1..n
      PROVE  i \in 1..Len(l) /\ l[i].key \in DOMAIN m /\ m[l[i].key] = l[i] /\ l[i].key \notin gone
  <2>1. i \in 1..Len(l)
    BY <1>1
  <2>2. l[i].key \in DOMAIN m /\ m[l[i].key] = l[i]
    BY <2>1 DEF Good
  <2>3. ASSUME NEW j \in n + 1 .. Len(l), l[i].key = l[j].key PROVE FALSE
    <3>1. j \in 1..Len(l) /\ i # j
      BY <1>1
    <3> QED
      BY <2>1, <2>3, <3>1 DEF Good
  <2> QED
    BY <2>1, <2>2, <2>3
<1>5. \A k \in DOMAIN m \ gone : \E i \in 1..n : l[i] = m[k] /\ l[i].key = k
  <2> TAKE k \in DOMAIN m \ gone
  <2>1. PICK i \in 1..Len(l) : l[i] = m[k] /\ m[k].key = k
    BY DEF Good
  <2>2. i \notin n + 1 .. Len(l)
    BY <2>1
  <2> QED
    BY <1>1, <2>1, <2>2
<1>6. DOMAIN q = {l[i].key : i \in 1..n}
  <2>1. \A i \in 1..n : l[i].key \in DOMAIN q
    <3> HIDE DEF gone, q
    <3> QED
      BY <1>3, <1>4
  <2>2. \A k \in DOMAIN q : \E i \in 1..n : l[i].key = k
    <3> HIDE DEF gone, q
    <3> QED
      BY <1>3, <1>5
  <2> HIDE DEF q
  <2> QED
    BY <2>1, <2>2
<1>7. Total(p)[n] = Total(l)[n]
  <2>1. Alike(p, 0, l, 0, n)
    BY <1>1, <1>2 DEF Alike
  <2> HIDE DEF p
  <2>2. PICK d \in Int : Total(p)[0 + n] = Total(p)[0] + d /\ Total(l)[0 + n] = Total(l)[0] + d
    BY <1>1, <1>2, <2>1, AlikeGrow DEF ByTheSame
  <2>3. Total(p)[0] = 0 /\ Total(l)[0] = 0 /\ 0 + n = n
    BY <1>1, <1>2, TotalOf
  <2> QED
    BY <2>2, <2>3
<1> HIDE DEF gone, p, q
<1>8. \A k \in DOMAIN q : q[k] \in Node /\ q[k].key = k /\ k \in Keys
  BY <1>3 DEF Good
<1>9. \A k \in DOMAIN q : \E i \in 1..Len(p) : p[i] = q[k]
  BY <1>2, <1>3, <1>5
<1>10. \A i \in 1..Len(p) : p[i].key \in DOMAIN q /\ q[p[i].key] = p[i]
  BY <1>2, <1>3, <1>4
<1>11. \A i, j \in 1..Len(p) : p[i].key = p[j].key => i = j
  BY <1>2, <1>4 DEF Good
<1>12. Good(p, q, Total(l)[n])
  BY <1>2, <1>7, <1>8, <1>9, <1>10, <1>11 DEF Good
<1> QED
  BY <1>6, <1>12 DEF p, q, gone

\* evict_to_fit keeps a front of the list that leaves room for what is needed, and
\* the longest one.
LEMMA Surviving ==
  ASSUME NEW l \in Seq(Node), NEW needed \in Nat, NEW limit \in Nat, needed <= limit
  PROVE  LET n == Survivors(l, Total(l)[Len(l)], needed, limit)
         IN  /\ n \in 0..Len(l)
             /\ Total(l)[n] + needed <= limit
             /\ n < Len(l) => Total(l)[n + 1] + needed > limit
<1> DEFINE u == Total(l)[Len(l)]
           fits == {n \in 0..Len(l) : u - BytesFrom(l, n + 1) + needed <= limit}
           N == {n \in 0..Len(l) : Total(l)[n] + needed <= limit}
           n == Survivors(l, u, needed, limit)
<1>1. fits = N
  BY BytesBehind
<1>2. Total(l)[0] = 0 /\ \A i \in 0..Len(l) : Total(l)[i] \in Nat
  BY TotalOf
<1>3. 0 \in N /\ Len(l) \in Nat
  BY <1>2
<1>4. \E i \in N : \A j \in N : j <= i
  <2> DEFINE B == {b \in Nat : \A j \in N : j <= b}
  <2>1. Len(l) \in B
    BY <1>3
  <2>2. PICK i \in B : \A b \in B : i <= b
    BY <2>1, LeastNatural
  <2>3. i \in N
    <3> SUFFICES ASSUME i \notin N PROVE FALSE
      OBVIOUS
    <3>1. i # 0 /\ i - 1 \in Nat
      BY <1>3
    <3>2. \A j \in N : j <= i - 1
      BY <3>1
    <3>3. i - 1 \in B
      BY <3>1, <3>2
    <3> QED
      BY <2>2, <3>3
  <2> QED
    BY <2>2, <2>3
<1>5. n = CHOOSE i \in fits : \A j \in fits : j <= i
  BY <1>1, <1>3 DEF Survivors
<1> HIDE DEF fits, n, N
<1>6. n \in N /\ \A j \in N : j <= n
  BY <1>1, <1>4, <1>5
<1>7. n \in 0..Len(l) /\ Total(l)[n] + needed <= limit
  BY <1>6 DEF N
<1>8. ASSUME n < Len(l) PROVE Total(l)[n + 1] + needed > limit
  <2>1. n + 1 \in 0..Len(l) /\ ~(n + 1 <= n)
    BY <1>3, <1>7, <1>8
  <2>2. n + 1 \notin N
    BY <1>6, <2>1
  <2>3. Total(l)[n + 1] \in Nat
    BY <1>2, <2>1
  <2> QED
    BY <2>1, <2>2, <2>3 DEF N
<1> QED
  BY <1>7, <1>8 DEF n

\* An entry leaves the list, the map and the byte count together.
LEMMA RemoveGood ==
  ASSUME NEW l, NEW m, NEW u, Good(l, m, u), NEW k \in DOMAIN m
  PROVE  /\ Good(RemoveFirst(l, m[k]), Unmap(m, {k}), u - m[k].approx_bytes)
         /\ u - m[k].approx_bytes \in Nat
<1> DEFINE x == m[k]
           r == RemoveFirst(l, x)
           q == Unmap(m, {k})
<1>1. l \in Seq(Node) /\ Len(l) \in Nat /\ x \in Node /\ x.key = k /\ x.approx_bytes \in Nat
  BY DEF Good, Node
<1>2. \E i \in 1..Len(l) : l[i] = x
  BY DEF Good
<1> HIDE DEF x
<1>3. PICK p \in 1..Len(l) :
        /\ l[p] = x
        /\ r \in Seq(Node) /\ Len(r) = Len(l) - 1
        /\ \A i \in 1..(Len(l) - 1) : r[i] = IF i < p THEN l[i] ELSE l[i + 1]
  BY <1>1, <1>2, Removing
<1> HIDE DEF r
<1>4. DOMAIN q = DOMAIN m \ {k} /\ \A j \in DOMAIN q : q[j] = m[j]
  BY DEF Unmap
<1> HIDE DEF q
<1>5. Alike(r, 0, l, 0, p - 1) /\ Alike(r, p - 1, l, p, Len(l) - p)
  <2>1. p \in 1..Len(l) /\ p - 1 \in Nat /\ Len(l) - p \in Nat
    BY <1>1
  <2>2. ASSUME NEW i \in 1..p - 1 PROVE r[0 + i] = l[0 + i]
    <3>1. i \in 1..(Len(l) - 1) /\ i < p /\ 0 + i = i
      BY <1>1, <2>1
    <3> QED
      BY <1>3, <3>1
  <2>3. ASSUME NEW i \in 1..Len(l) - p PROVE r[(p - 1) + i] = l[p + i]
    <3>1. (p - 1) + i \in 1..(Len(l) - 1) /\ ~((p - 1) + i < p) /\ ((p - 1) + i) + 1 = p + i
      BY <1>1, <2>1
    <3> QED
      BY <1>3, <3>1
  <2>4. /\ 0 + (p - 1) <= Len(r) /\ 0 + (p - 1) <= Len(l)
        /\ (p - 1) + (Len(l) - p) <= Len(r) /\ p + (Len(l) - p) <= Len(l)
    BY <1>1, <1>3, <2>1
  <2> QED
    BY <2>2, <2>3, <2>4 DEF Alike
<1>6. Total(r)[Len(r)] = u - x.approx_bytes
  <2>1. p - 1 \in Nat /\ p \in Nat /\ Len(l) - p \in Nat /\ 0 + (p - 1) = p - 1
        /\ (p - 1) + (Len(l) - p) = Len(r) /\ p + (Len(l) - p) = Len(l)
    BY <1>1, <1>3
  <2>2. PICK d \in Int : Total(r)[p - 1] = Total(r)[0] + d /\ Total(l)[p - 1] = Total(l)[0] + d
    <3>1. ByTheSame(Total(r), 0, Total(l), 0, p - 1)
      BY <1>1, <1>3, <1>5, <2>1, AlikeGrow
    <3> QED
      BY <2>1, <3>1 DEF ByTheSame
  <2>3. PICK e \in Int : Total(r)[Len(r)] = Total(r)[p - 1] + e /\ Total(l)[Len(l)] = Total(l)[p] + e
    <3>1. ByTheSame(Total(r), p - 1, Total(l), p, Len(l) - p)
      BY <1>1, <1>3, <1>5, <2>1, AlikeGrow
    <3> QED
      BY <2>1, <3>1 DEF ByTheSame
  <2>4. Total(r)[0] = 0 /\ Total(l)[0] = 0 /\ Total(l)[p] = Total(l)[p - 1] + x.approx_bytes
    BY <1>1, <1>3, TotalOf
  <2>5. u = Total(l)[Len(l)]
    BY DEF Good
  <2> QED
    BY <1>1, <2>2, <2>3, <2>4, <2>5
<1>7. ASSUME NEW i \in 1..Len(r)
      PROVE  \E a \in 1..Len(l) : a # p /\ r[i] = l[a] /\ a = IF i < p THEN i ELSE i + 1
  <2>1. i \in 1..(Len(l) - 1) /\ p \in Nat
    BY <1>1, <1>3
  <2>2. CASE i < p
    <3>1. i \in 1..Len(l) /\ i # p /\ r[i] = l[i]
      BY <1>1, <1>3, <2>1, <2>2
    <3> QED
      BY <2>2, <3>1
  <2>3. CASE ~(i < p)
    <3>1. i + 1 \in 1..Len(l) /\ i + 1 # p /\ r[i] = l[i + 1]
      BY <1>1, <1>3, <2>1, <2>3
    <3> QED
      BY <2>3, <3>1
  <2> QED
    BY <2>2, <2>3
<1>8. \A i \in 1..Len(r) : r[i].key \in DOMAIN q /\ q[r[i].key] = r[i]
  <2> TAKE i \in 1..Len(r)
  <2>1. PICK a \in 1..Len(l) : a # p /\ r[i] = l[a]
    BY <1>7
  <2>2. l[a].key \in DOMAIN m /\ m[l[a].key] = l[a] /\ l[a].key # l[p].key
    BY <1>3, <2>1 DEF Good
  <2> QED
    BY <1>1, <1>3, <1>4, <2>1, <2>2
<1>9. \A i, j \in 1..Len(r) : r[i].key = r[j].key => i = j
  <2> SUFFICES ASSUME NEW i \in 1..Len(r), NEW j \in 1..Len(r), r[i].key = r[j].key PROVE i = j
    OBVIOUS
  <2>1. PICK a \in 1..Len(l) : r[i] = l[a] /\ a = IF i < p THEN i ELSE i + 1
    BY <1>7
  <2>2. PICK b \in 1..Len(l) : r[j] = l[b] /\ b = IF j < p THEN j ELSE j + 1
    BY <1>7
  <2>3. a = b
    <3>1. l[a].key = l[b].key
      BY <2>1, <2>2
    <3> QED
      BY <3>1 DEF Good
  <2>4. i \in Nat /\ j \in Nat /\ p \in Nat
    OBVIOUS
  <2> QED
    BY <2>1, <2>2, <2>3, <2>4
<1>10. \A j \in DOMAIN q : q[j] \in Node /\ q[j].key = j /\ \E i \in 1..Len(r) : r[i] = q[j]
  <2> TAKE j \in DOMAIN q
  <2>1. m[j] \in Node /\ m[j].key = j /\ j # k
    BY <1>4 DEF Good
  <2>2. PICK a \in 1..Len(l) : l[a] = m[j]
    BY <1>4 DEF Good
  <2>3. a # p
    BY <1>1, <1>3, <2>1, <2>2
  <2>4. \E i \in 1..Len(r) : r[i] = l[a]
    <3>1. CASE a < p
      <4>1. a \in 1..(Len(l) - 1) /\ a \in 1..Len(r) /\ r[a] = l[a]
        BY <1>1, <1>3, <3>1
      <4> QED
        BY <4>1
    <3>2. CASE a > p
      <4>1. a - 1 \in 1..(Len(l) - 1) /\ a - 1 \in 1..Len(r) /\ ~(a - 1 < p) /\ (a - 1) + 1 = a
        BY <1>1, <1>3, <3>2
      <4>2. r[a - 1] = l[a]
        BY <1>3, <4>1
      <4> QED
        BY <4>1, <4>2
    <3> QED
      BY <2>3, <3>1, <3>2
  <2> QED
    BY <1>4, <2>1, <2>2, <2>4
<1>11. DOMAIN q \subseteq Keys
  BY <1>4 DEF Good
<1>12. Good(r, q, u - x.approx_bytes)
  BY <1>3, <1>6, <1>8, <1>9, <1>10, <1>11 DEF Good
<1>13. u - x.approx_bytes \in Nat
  <2>1. \A i \in 0..Len(r) : Total(r)[i] \in Nat
    BY <1>3, TotalOf
  <2>2. Len(r) \in 0..Len(r)
    BY <1>1, <1>3
  <2> QED
    BY <1>6, <2>1, <2>2
<1> QED
  BY <1>12, <1>13 DEF x, r, q

\* An entry under a key the map does not have comes to the front.
LEMMA FrontGood ==
  ASSUME NEW l, NEW m, NEW u, Good(l, m, u), NEW x \in Node, x.key \notin DOMAIN m
  PROVE  /\ Good(<<x>> \o l,
                 [j \in DOMAIN m \cup {x.key} |-> IF j = x.key THEN x ELSE m[j]],
                 u + x.approx_bytes)
         /\ u + x.approx_bytes \in Nat
<1> DEFINE f == <<x>> \o l
           q == [j \in DOMAIN m \cup {x.key} |-> IF j = x.key THEN x ELSE m[j]]
<1>1. l \in Seq(Node) /\ Len(l) \in Nat /\ x.key \in Keys /\ x.approx_bytes \in Nat
  BY DEF Good, Node
<1>2. f \in Seq(Node) /\ Len(f) = Len(l) + 1 /\ f[1] = x /\ \A i \in 1..Len(l) : f[i + 1] = l[i]
  BY <1>1, InFront
<1> HIDE DEF f
<1>3. /\ DOMAIN q = DOMAIN m \cup {x.key} /\ q[x.key] = x
      /\ \A j \in DOMAIN m : q[j] = m[j]
  OBVIOUS
<1> HIDE DEF q
<1>4. Total(f)[Len(f)] = u + x.approx_bytes
  <2>1. Alike(f, 1, l, 0, Len(l))
    <3>1. \A i \in 1..Len(l) : f[1 + i] = l[0 + i]
      <4> TAKE i \in 1..Len(l)
      <4>1. 1 + i = i + 1 /\ 0 + i = i
        OBVIOUS
      <4> QED
        BY <1>2, <4>1
    <3>2. 1 + Len(l) <= Len(f) /\ 0 + Len(l) <= Len(l)
      BY <1>1, <1>2
    <3> QED
      BY <3>1, <3>2 DEF Alike
  <2>2. ByTheSame(Total(f), 1, Total(l), 0, Len(l))
    BY <1>1, <1>2, <2>1, AlikeGrow
  <2>3. 1 + Len(l) = Len(f) /\ 0 + Len(l) = Len(l)
    BY <1>1, <1>2
  <2>4. PICK d \in Int : Total(f)[Len(f)] = Total(f)[1] + d /\ Total(l)[Len(l)] = Total(l)[0] + d
    BY <2>2, <2>3 DEF ByTheSame
  <2>5. Total(l)[0] = 0
    BY <1>1, TotalOf
  <2>6. Total(f)[1] = x.approx_bytes
    <3>1. 1 \in 1..Len(f)
      BY <1>1, <1>2
    <3>2. Total(f)[0] = 0 /\ Total(f)[1] = Total(f)[1 - 1] + f[1].approx_bytes
      BY <1>2, <3>1, TotalOf
    <3> QED
      BY <1>1, <1>2, <3>2
  <2>7. u = Total(l)[Len(l)]
    BY DEF Good
  <2> QED
    BY <1>1, <2>4, <2>5, <2>6, <2>7
<1>5. \A i \in 1..Len(f) : i = 1 \/ (i # 1 /\ i - 1 \in 1..Len(l) /\ f[i] = l[i - 1])
  <2> TAKE i \in 1..Len(f)
  <2>1. i # 1 => i - 1 \in 1..Len(l) /\ (i - 1) + 1 = i
    BY <1>1, <1>2
  <2> QED
    BY <1>2, <2>1
<1>6. \A i \in 1..Len(l) : l[i].key \in DOMAIN m /\ m[l[i].key] = l[i] /\ l[i].key # x.key
  BY DEF Good
<1>7. \A i \in 1..Len(f) : f[i].key \in DOMAIN q /\ q[f[i].key] = f[i]
  <2> TAKE i \in 1..Len(f)
  <2>1. CASE i = 1
    BY <1>2, <1>3, <2>1
  <2>2. CASE i # 1
    BY <1>3, <1>5, <1>6, <2>2
  <2> QED
    BY <2>1, <2>2
<1>8. \A i, j \in 1..Len(f) : f[i].key = f[j].key => i = j
  <2> SUFFICES ASSUME NEW i \in 1..Len(f), NEW j \in 1..Len(f), f[i].key = f[j].key PROVE i = j
    OBVIOUS
  <2>1. CASE i = 1 \/ j = 1
    <3>1. \A h \in 1..Len(f) : h # 1 => f[h].key # x.key
      BY <1>5, <1>6
    <3> QED
      BY <1>2, <2>1, <3>1
  <2>2. CASE i # 1 /\ j # 1
    <3>1. i - 1 \in 1..Len(l) /\ j - 1 \in 1..Len(l) /\ l[i - 1].key = l[j - 1].key
      BY <1>5, <2>2
    <3>2. i - 1 = j - 1
      BY <3>1 DEF Good
    <3> QED
      BY <3>2
  <2> QED
    BY <2>1, <2>2
<1>9. \A j \in DOMAIN q : q[j] \in Node /\ q[j].key = j /\ \E i \in 1..Len(f) : f[i] = q[j]
  <2> TAKE j \in DOMAIN q
  <2>1. CASE j = x.key
    <3>1. 1 \in 1..Len(f)
      BY <1>1, <1>2
    <3> QED
      BY <1>2, <1>3, <2>1, <3>1
  <2>2. CASE j \in DOMAIN m
    <3>1. m[j] \in Node /\ m[j].key = j
      BY <2>2 DEF Good
    <3>2. PICK i \in 1..Len(l) : l[i] = m[j]
      BY <2>2 DEF Good
    <3>3. i + 1 \in 1..Len(f)
      BY <1>1, <1>2
    <3>4. f[i + 1] = m[j]
      BY <1>2, <3>2
    <3> QED
      BY <1>3, <2>2, <3>1, <3>3, <3>4
  <2> QED
    BY <1>3, <2>1, <2>2
<1>10. DOMAIN q \subseteq Keys
  BY <1>1, <1>3 DEF Good
<1>11. Good(f, q, u + x.approx_bytes)
  BY <1>2, <1>4, <1>7, <1>8, <1>9, <1>10 DEF Good
<1>12. u + x.approx_bytes \in Nat
  <2>1. \A i \in 0..Len(f) : Total(f)[i] \in Nat
    BY <1>2, TotalOf
  <2>2. Len(f) \in 0..Len(f)
    BY <1>1, <1>2
  <2> QED
    BY <1>4, <2>1, <2>2
<1> QED
  BY <1>11, <1>12 DEF f, q

---------------------------------------------------------------------------
(***************************************************************************)
(* The list is in the order of the last uses.                              *)
(***************************************************************************)
Occurs(r, k) == \E a \in 1..Len(r) : r[a] = k

Distinct(r) == r \in Seq(Keys) /\ \A a, b \in 1..Len(r) : r[a] = r[b] => a = b

Earlier(r, j, k) == Rank(r, j) < Rank(r, k)

Ordered(l, r) ==
  /\ \A i \in 1..Len(l) : Occurs(r, l[i].key)
  /\ \A i, j \in 1..Len(l) : i < j => Earlier(r, l[i].key, l[j].key)

LEMMA Ranked ==
  ASSUME NEW r \in Seq(Keys), NEW k, Occurs(r, k)
  PROVE  Rank(r, k) \in 1..Len(r) /\ r[Rank(r, k)] = k
<1>1. DOMAIN r = 1..Len(r)
  OBVIOUS
<1> QED
  BY <1>1 DEF Rank, Occurs

\* t is s without (one) e: where its elements were in s, in the same order.
Thinning(old, t, s, e) ==
  /\ \A i \in 1..Len(t) : old[i] \in 1..Len(s) /\ t[i] = s[old[i]]
  /\ \A i, j \in 1..Len(t) : i < j => old[i] < old[j]
  /\ \A a \in 1..Len(s) : s[a] # e => \E i \in 1..Len(t) : old[i] = a
  /\ (\A a, b \in 1..Len(s) : s[a] = s[b] => a = b) => \A i \in 1..Len(t) : t[i] # e

LEMMA Thinned ==
  ASSUME NEW S, NEW s \in Seq(S), NEW e
  PROVE  RemoveFirst(s, e) \in Seq(S) /\ \E old : Thinning(old, RemoveFirst(s, e), s, e)
<1> DEFINE t == RemoveFirst(s, e)
<1>1. CASE \E i \in 1..Len(s) : s[i] = e
  <2>1. PICK p \in 1..Len(s) :
          /\ s[p] = e
          /\ t \in Seq(S) /\ Len(t) = Len(s) - 1
          /\ \A i \in 1..(Len(s) - 1) : t[i] = IF i < p THEN s[i] ELSE s[i + 1]
    BY <1>1, Removing
  <2> DEFINE old == [i \in 1..Len(t) |-> IF i < p THEN i ELSE i + 1]
  <2> HIDE DEF t
  <2>2. Len(s) \in Nat /\ p \in Nat
    OBVIOUS
  <2>3. \A i \in 1..Len(t) : old[i] \in 1..Len(s) /\ t[i] = s[old[i]] /\ old[i] # p
    BY <2>1, <2>2
  <2>4. \A i, j \in 1..Len(t) : i < j => old[i] < old[j]
    BY <2>1, <2>2
  <2>5. ASSUME NEW a \in 1..Len(s), s[a] # e PROVE \E i \in 1..Len(t) : old[i] = a
    <3>1. CASE a < p
      <4>1. a \in 1..Len(t) /\ old[a] = a
        BY <2>1, <2>2, <3>1
      <4> QED
        BY <4>1
    <3>2. CASE a > p
      <4>1. a - 1 \in 1..Len(t) /\ old[a - 1] = a
        BY <2>1, <2>2, <3>2
      <4> QED
        BY <4>1
    <3> QED
      BY <2>1, <2>2, <2>5, <3>1, <3>2
  <2> HIDE DEF old
  <2>6. ASSUME \A a, b \in 1..Len(s) : s[a] = s[b] => a = b, NEW i \in 1..Len(t) PROVE t[i] # e
    BY <2>1, <2>3, <2>6
  <2>7. Thinning(old, t, s, e)
    BY <2>3, <2>4, <2>5, <2>6 DEF Thinning
  <2> QED
    BY <2>1, <2>7 DEF t
<1>2. CASE ~ \E i \in 1..Len(s) : s[i] = e
  <2> DEFINE old == [i \in 1..Len(s) |-> i]
  <2>1. t = s
    BY <1>2, NothingToRemove
  <2>2. \A i \in 1..Len(s) : old[i] = i
    OBVIOUS
  <2> HIDE DEF old
  <2>3. Thinning(old, s, s, e)
    BY <1>2, <2>2 DEF Thinning
  <2> QED
    BY <2>1, <2>3
<1> QED
  BY <1>1, <1>2

\* A key that is used becomes the most recent one; the others keep their order.
LEMMA Used ==
  ASSUME NEW r, Distinct(r), NEW k \in Keys
  PROVE  LET f == ToFront(r, k)
         IN  /\ Distinct(f)
             /\ Occurs(f, k)
             /\ \A j : Occurs(r, j) /\ j # k => Occurs(f, j) /\ Earlier(f, k, j)
             /\ \A i, j : Occurs(r, i) /\ Occurs(r, j) /\ i # k /\ j # k /\ Earlier(r, i, j)
                            => Earlier(f, i, j)
<1> DEFINE t == RemoveFirst(r, k)
           f == ToFront(r, k)
<1>1. r \in Seq(Keys) /\ \A a, b \in 1..Len(r) : r[a] = r[b] => a = b
  BY DEF Distinct
<1>2. PICK old : t \in Seq(Keys) /\ Thinning(old, t, r, k)
  BY <1>1, Thinned
<1> HIDE DEF t
<1>3. /\ \A i \in 1..Len(t) : old[i] \in 1..Len(r) /\ t[i] = r[old[i]] /\ t[i] # k
      /\ \A i, j \in 1..Len(t) : i < j => old[i] < old[j]
      /\ \A a \in 1..Len(r) : r[a] # k => \E i \in 1..Len(t) : old[i] = a
  BY <1>1, <1>2 DEF Thinning
<1>4. f \in Seq(Keys) /\ Len(f) = Len(t) + 1 /\ f[1] = k /\ \A i \in 1..Len(t) : f[i + 1] = t[i]
  <2>1. f = <<k>> \o t
    BY DEF ToFront, t
  <2> QED
    BY <1>2, <2>1, InFront
<1>5. Len(t) \in Nat /\ Len(r) \in Nat
  BY <1>1, <1>2
<1> HIDE DEF f
<1>6. ASSUME NEW a \in 1..Len(f), a # 1
      PROVE  a - 1 \in 1..Len(t) /\ f[a] = t[a - 1] /\ f[a] # k
  <2>1. a - 1 \in 1..Len(t) /\ (a - 1) + 1 = a
    BY <1>4, <1>5, <1>6
  <2>2. f[(a - 1) + 1] = t[a - 1]
    BY <1>4, <2>1
  <2>3. t[a - 1] # k
    BY <1>3, <2>1
  <2> QED
    BY <2>1, <2>2, <2>3
<1>7. ASSUME NEW a \in 1..Len(f), NEW b \in 1..Len(f), a # 1, b # 1,
             NEW x \in 1..Len(r), NEW y \in 1..Len(r), f[a] = r[x], f[b] = r[y], x <= y
      PROVE  a <= b
  <2>1. a - 1 \in 1..Len(t) /\ r[old[a - 1]] = r[x] /\ old[a - 1] \in 1..Len(r)
    BY <1>3, <1>6, <1>7
  <2>2. b - 1 \in 1..Len(t) /\ r[old[b - 1]] = r[y] /\ old[b - 1] \in 1..Len(r)
    BY <1>3, <1>6, <1>7
  <2>3. old[a - 1] = x /\ old[b - 1] = y
    BY <1>1, <2>1, <2>2
  <2>4. b - 1 < a - 1 => y < x
    BY <1>3, <2>1, <2>2, <2>3
  <2>5. a \in Nat /\ b \in Nat /\ x \in Nat /\ y \in Nat
    OBVIOUS
  <2> QED
    BY <1>7, <2>4, <2>5
<1>8. ASSUME NEW a \in 1..Len(f), a # 1 PROVE \E x \in 1..Len(r) : f[a] = r[x]
  <2>1. a - 1 \in 1..Len(t) /\ f[a] = t[a - 1]
    BY <1>6, <1>8
  <2>2. old[a - 1] \in 1..Len(r) /\ f[a] = r[old[a - 1]]
    BY <1>3, <2>1
  <2> QED
    BY <2>2
<1>9. \A a, b \in 1..Len(f) : f[a] = f[b] => a = b
  <2> SUFFICES ASSUME NEW a \in 1..Len(f), NEW b \in 1..Len(f), f[a] = f[b] PROVE a = b
    OBVIOUS
  <2>1. CASE a = 1 \/ b = 1
    BY <1>4, <1>6, <2>1
  <2>2. CASE a # 1 /\ b # 1
    <3>1. PICK x \in 1..Len(r) : f[a] = r[x]
      BY <1>8, <2>2
    <3>2. x <= x
      OBVIOUS
    <3>3. a <= b /\ b <= a
      BY <1>7, <2>2, <3>1, <3>2
    <3>4. a \in Nat /\ b \in Nat
      OBVIOUS
    <3> QED
      BY <3>3, <3>4
  <2> QED
    BY <2>1, <2>2
<1>10. Distinct(f)
  BY <1>4, <1>9 DEF Distinct
<1>11. Occurs(f, k)
  <2>1. 1 \in 1..Len(f)
    BY <1>4, <1>5
  <2> QED
    BY <1>4, <2>1 DEF Occurs
<1>12. Rank(f, k) = 1
  <2>1. Rank(f, k) \in 1..Len(f) /\ f[Rank(f, k)] = k
    BY <1>4, <1>11, Ranked
  <2> QED
    BY <1>6, <2>1
<1>13. ASSUME NEW j, Occurs(r, j), j # k
       PROVE  Occurs(f, j) /\ Rank(f, j) \in 1..Len(f) /\ f[Rank(f, j)] = j /\ Rank(f, j) # 1
  <2>1. PICK a \in 1..Len(r) : r[a] = j
    BY <1>13 DEF Occurs
  <2>2. PICK i \in 1..Len(t) : old[i] = a
    BY <1>3, <1>13, <2>1
  <2>3. i + 1 \in 1..Len(f) /\ f[i + 1] = j
    <3>1. i + 1 \in 1..Len(f)
      BY <1>4, <1>5
    <3>2. f[i + 1] = t[i] /\ t[i] = r[a]
      BY <1>3, <1>4, <2>2
    <3> QED
      BY <2>1, <3>1, <3>2
  <2>4. Occurs(f, j)
    BY <2>3 DEF Occurs
  <2>5. Rank(f, j) \in 1..Len(f) /\ f[Rank(f, j)] = j
    BY <1>4, <2>4, Ranked
  <2> QED
    BY <1>4, <1>13, <2>4, <2>5
<1>14. ASSUME NEW j, Occurs(r, j), j # k PROVE Occurs(f, j) /\ Earlier(f, k, j)
  <2>1. Occurs(f, j) /\ Rank(f, j) \in 1..Len(f) /\ Rank(f, j) # 1
    BY <1>13, <1>14
  <2> QED
    BY <1>12, <2>1 DEF Earlier
<1>15. ASSUME NEW i, NEW j, Occurs(r, i), Occurs(r, j), i # k, j # k, Earlier(r, i, j)
       PROVE  Earlier(f, i, j)
  <2>1. /\ Rank(r, i) \in 1..Len(r) /\ r[Rank(r, i)] = i
        /\ Rank(r, j) \in 1..Len(r) /\ r[Rank(r, j)] = j
    BY <1>1, <1>15, Ranked
  <2>2. /\ Rank(f, i) \in 1..Len(f) /\ f[Rank(f, i)] = i /\ Rank(f, i) # 1
        /\ Rank(f, j) \in 1..Len(f) /\ f[Rank(f, j)] = j /\ Rank(f, j) # 1
    BY <1>13, <1>15
  <2>3. Rank(r, i) < Rank(r, j)
    BY <1>15 DEF Earlier
  <2>4. Rank(f, i) # Rank(f, j)
    BY <2>1, <2>2, <2>3
  <2> DEFINE ri == Rank(r, i)
             rj == Rank(r, j)
             fi == Rank(f, i)
             fj == Rank(f, j)
  <2>5. /\ ri \in 1..Len(r) /\ rj \in 1..Len(r) /\ fi \in 1..Len(f) /\ fj \in 1..Len(f)
        /\ fi # 1 /\ fj # 1 /\ f[fi] = r[ri] /\ f[fj] = r[rj] /\ ri < rj /\ fi # fj
    BY <2>1, <2>2, <2>3, <2>4
  <2> HIDE DEF ri, rj, fi, fj
  <2>6. ri <= rj
    BY <2>5
  <2>7. fi <= fj
    BY <1>7, <2>5, <2>6
  <2>8. fi < fj
    BY <2>5, <2>7
  <2> QED
    BY <2>8 DEF Earlier, fi, fj
<1>16. \A j : Occurs(r, j) /\ j # k => Occurs(f, j) /\ Earlier(f, k, j)
  BY <1>14
<1>17. \A i, j : Occurs(r, i) /\ Occurs(r, j) /\ i # k /\ j # k /\ Earlier(r, i, j)
                   => Earlier(f, i, j)
  BY <1>15
<1> QED
  BY <1>10, <1>11, <1>16, <1>17 DEF f

LEMMA FrontOrdered ==
  ASSUME NEW l \in Seq(Node), NEW r, Distinct(r), Ordered(l, r), NEW x \in Node,
         \A i \in 1..Len(l) : l[i].key # x.key
  PROVE  Ordered(<<x>> \o l, ToFront(r, x.key))
<1> DEFINE f == <<x>> \o l
           k == x.key
           g == ToFront(r, k)
<1>1. f \in Seq(Node) /\ Len(f) = Len(l) + 1 /\ f[1] = x /\ \A i \in 1..Len(l) : f[i + 1] = l[i]
  BY InFront
<1>2. k \in Keys
  BY DEF Node
<1>3. /\ Occurs(g, k)
      /\ \A j : Occurs(r, j) /\ j # k => Occurs(g, j) /\ Earlier(g, k, j)
      /\ \A i, j : Occurs(r, i) /\ Occurs(r, j) /\ i # k /\ j # k /\ Earlier(r, i, j)
                     => Earlier(g, i, j)
  BY <1>2, Used
<1> HIDE DEF g
<1>4. \A i \in 1..Len(l) : Occurs(r, l[i].key) /\ l[i].key # k
  BY DEF Ordered
<1> HIDE DEF f, k
<1>5. ASSUME NEW i \in 1..Len(f), i # 1
      PROVE  i - 1 \in 1..Len(l) /\ f[i] = l[i - 1] /\ Occurs(r, f[i].key) /\ f[i].key # k
  <2>1. i - 1 \in 1..Len(l) /\ (i - 1) + 1 = i
    BY <1>1, <1>5
  <2>2. f[i] = l[i - 1]
    <3>1. f[(i - 1) + 1] = l[i - 1]
      BY <1>1, <2>1
    <3> QED
      BY <2>1, <3>1
  <2> QED
    BY <1>4, <2>1, <2>2
<1>6. f[1].key = k
  BY <1>1 DEF k
<1>7. ASSUME NEW i \in 1..Len(f) PROVE Occurs(g, f[i].key)
  <2>1. CASE i = 1
    BY <1>3, <1>6, <2>1
  <2>2. CASE i # 1
    BY <1>3, <1>5, <2>2
  <2> QED
    BY <2>1, <2>2
<1>8. ASSUME NEW i \in 1..Len(f), NEW j \in 1..Len(f), i < j
      PROVE  Earlier(g, f[i].key, f[j].key)
  <2>1. j # 1 /\ Occurs(r, f[j].key) /\ f[j].key # k /\ f[j] = l[j - 1] /\ j - 1 \in 1..Len(l)
    BY <1>5, <1>8
  <2>2. CASE i = 1
    BY <1>3, <1>6, <2>1, <2>2
  <2>3. CASE i # 1
    <3>1. /\ Occurs(r, f[i].key) /\ f[i].key # k /\ f[i] = l[i - 1] /\ i - 1 \in 1..Len(l)
          /\ i - 1 < j - 1
      BY <1>5, <1>8, <2>3
    <3>2. Earlier(r, l[i - 1].key, l[j - 1].key)
      BY <2>1, <3>1 DEF Ordered
    <3> QED
      BY <1>3, <2>1, <3>1, <3>2
  <2> QED
    BY <2>2, <2>3
<1>9. Ordered(f, g)
  BY <1>7, <1>8 DEF Ordered
<1> QED
  BY <1>9 DEF f, g, k

LEMMA RemoveOrdered ==
  ASSUME NEW l \in Seq(Node), NEW r, Ordered(l, r), NEW x
  PROVE  Ordered(RemoveFirst(l, x), r)
<1> DEFINE t == RemoveFirst(l, x)
<1>1. PICK old : Thinning(old, t, l, x)
  BY Thinned
<1> HIDE DEF t
<1>2. /\ \A i \in 1..Len(t) : old[i] \in 1..Len(l) /\ t[i] = l[old[i]]
      /\ \A i, j \in 1..Len(t) : i < j => old[i] < old[j]
  BY <1>1 DEF Thinning
<1>3. ASSUME NEW i \in 1..Len(t) PROVE Occurs(r, t[i].key)
  <2>1. old[i] \in 1..Len(l) /\ t[i] = l[old[i]]
    BY <1>2
  <2> QED
    BY <2>1 DEF Ordered
<1>4. ASSUME NEW i \in 1..Len(t), NEW j \in 1..Len(t), i < j PROVE Earlier(r, t[i].key, t[j].key)
  <2>1. /\ old[i] \in 1..Len(l) /\ t[i] = l[old[i]]
        /\ old[j] \in 1..Len(l) /\ t[j] = l[old[j]] /\ old[i] < old[j]
    BY <1>2, <1>4
  <2> QED
    BY <2>1 DEF Ordered
<1>5. Ordered(t, r)
  BY <1>3, <1>4 DEF Ordered
<1> QED
  BY <1>5 DEF t

---------------------------------------------------------------------------
(* evict_to_fit: what it keeps is good, fits, and was used after what it gives up. *)

LEMMA Evicting ==
  ASSUME NEW l, NEW m, NEW u, Good(l, m, u), NEW r, Distinct(r), Ordered(l, r),
         NEW needed \in Nat, NEW limit \in Nat, needed <= limit
  PROVE  LET e == Evict(l, m, u, needed, limit)
             gone == DOMAIN m \ DOMAIN e.map
         IN  /\ Good(e.list, e.map, e.used) /\ e.used \in Nat
             /\ Ordered(e.list, r)
             /\ e.used + needed <= limit
             /\ \A j \in DOMAIN e.map, k \in gone : Earlier(r, j, k)
             /\ \A k \in gone : (\A j \in gone : ~ Earlier(r, j, k)) =>
                                  e.used + needed + m[k].approx_bytes > limit
<1> DEFINE e == Evict(l, m, u, needed, limit)
           gone == DOMAIN m \ DOMAIN e.map
           n == Survivors(l, u, needed, limit)
<1>1. l \in Seq(Node) /\ Len(l) \in Nat /\ u = Total(l)[Len(l)]
  BY DEF Good
<1>2. /\ n \in 0..Len(l) /\ Total(l)[n] + needed <= limit
      /\ n < Len(l) => Total(l)[n + 1] + needed > limit
  BY <1>1, Surviving
<1>3. /\ e.list = SubSeq(l, 1, n)
      /\ e.map = Unmap(m, {l[i].key : i \in n + 1 .. Len(l)})
      /\ e.used = u - BytesFrom(l, n + 1)
  BY DEF Evict
<1> HIDE DEF n, e
<1>4. Total(l)[n] \in Nat /\ e.used = Total(l)[n]
  BY <1>1, <1>2, <1>3, BytesBehind
<1>5. /\ Good(e.list, e.map, e.used)
      /\ DOMAIN e.map = {l[i].key : i \in 1..n}
  <2> DEFINE p == SubSeq(l, 1, n)
             q == Unmap(m, {l[i].key : i \in n + 1 .. Len(l)})
  <2>1. Good(p, q, Total(l)[n]) /\ DOMAIN q = {l[i].key : i \in 1..n}
    BY <1>2, PrefixGood, Zenon
  <2>2. e.list = p /\ e.map = q
    BY <1>3
  <2> HIDE DEF p, q
  <2> QED
    BY <1>4, <2>1, <2>2
<1>6. \A i, j \in 1..Len(l) : /\ Occurs(r, l[i].key)
                              /\ (i < j => Earlier(r, l[i].key, l[j].key))
  BY DEF Ordered
<1>7. Len(e.list) = n /\ \A i \in 1..n : e.list[i] = l[i] /\ i \in 1..Len(l)
  BY <1>1, <1>2, <1>3
<1>8. Ordered(e.list, r)
  BY <1>6, <1>7 DEF Ordered
<1>9. ASSUME NEW k \in gone
      PROVE  \E i \in n + 1 .. Len(l) : i \in 1..Len(l) /\ l[i] = m[k] /\ l[i].key = k
  <2>1. PICK i \in 1..Len(l) : l[i] = m[k] /\ m[k].key = k
    BY <1>9 DEF Good
  <2>2. i \notin 1..n
    BY <1>5, <1>9, <2>1
  <2>3. i \in n + 1 .. Len(l)
    BY <1>1, <1>2, <2>1, <2>2
  <2> QED
    BY <2>1, <2>3
<1>10. ASSUME NEW j \in DOMAIN e.map, NEW k \in gone PROVE Earlier(r, j, k)
  <2>1. PICK i \in 1..n : j = l[i].key
    BY <1>5, <1>10
  <2>2. PICK h \in n + 1 .. Len(l) : h \in 1..Len(l) /\ l[h].key = k
    BY <1>9, <1>10
  <2>3. i \in 1..Len(l) /\ i < h
    BY <1>1, <1>2, <2>1, <2>2
  <2> QED
    BY <1>6, <2>1, <2>2, <2>3
<1>11. ASSUME NEW k \in gone, \A j \in gone : ~ Earlier(r, j, k)
       PROVE  e.used + needed + m[k].approx_bytes > limit
  <2>1. PICK h \in n + 1 .. Len(l) : h \in 1..Len(l) /\ l[h] = m[k] /\ l[h].key = k
    BY <1>9, <1>11
  <2>2. n + 1 \in 1..Len(l) /\ n \in Nat /\ n < Len(l) /\ (n + 1) - 1 = n
    BY <1>1, <1>2, <2>1
  <2>3. l[n + 1].key \in gone
    <3>1. l[n + 1].key \in DOMAIN m
      BY <2>2 DEF Good
    <3>2. \A i \in 1..n : l[i].key # l[n + 1].key
      <4> TAKE i \in 1..n
      <4>1. i \in 1..Len(l) /\ i # n + 1
        BY <1>1, <1>2, <2>2
      <4> QED
        BY <2>2, <4>1 DEF Good
    <3> QED
      BY <1>5, <3>1, <3>2
  <2>4. h = n + 1
    <3>1. ~ Earlier(r, l[n + 1].key, l[h].key)
      BY <1>11, <2>1, <2>3
    <3>2. ~ (n + 1 < h)
      BY <1>6, <2>1, <2>2, <3>1
    <3> QED
      BY <1>1, <2>1, <2>2, <3>2
  <2>5. Total(l)[n + 1] = Total(l)[n] + m[k].approx_bytes
    <3>1. Total(l)[n + 1] = Total(l)[(n + 1) - 1] + l[n + 1].approx_bytes
      BY <1>1, <2>2, TotalOf
    <3> QED
      BY <2>1, <2>2, <2>4, <3>1
  <2>6. m[k].approx_bytes \in Nat
    <3>1. l[h] \in Node
      BY <1>1, <2>1
    <3> QED
      BY <2>1, <3>1 DEF Node
  <2> QED
    BY <1>2, <1>4, <2>2, <2>5, <2>6
<1>12. e.used + needed <= limit /\ e.used \in Nat
  BY <1>2, <1>4
<1> HIDE DEF gone
<1>13. /\ \A j \in DOMAIN e.map, k \in gone : Earlier(r, j, k)
       /\ \A k \in gone : (\A j \in gone : ~ Earlier(r, j, k)) =>
                            e.used + needed + m[k].approx_bytes > limit
  BY <1>10, <1>11
<1> QED
  BY <1>5, <1>8, <1>12, <1>13 DEF e, gone

---------------------------------------------------------------------------
(***************************************************************************)
(* The whole cache: list, map and byte count agree, the limit is kept, and *)
(* the list is in the order of the last uses.                              *)
(***************************************************************************)
Sized(m) == \A k \in DOMAIN m : m[k].approx_bytes = Bytes[k][m[k].val]

Whole ==
  /\ Good(lru_, map_, used_)
  /\ Sized(map_)
  /\ max_size_ \in Limits /\ used_ \in Nat /\ used_ <= max_size_
  /\ Distinct(recency) /\ Ordered(lru_, recency)

\* Removed, with or without an entry to remove.
LEMMA RemovedGood ==
  ASSUME Whole, NEW k \in Keys
  PROVE  LET r == Removed(k)
         IN  /\ Good(r.list, r.map, r.used) /\ r.used \in Nat /\ r.used <= used_
             /\ DOMAIN r.map = DOMAIN map_ \ {k} /\ \A j \in DOMAIN r.map : r.map[j] = map_[j]
             /\ Ordered(r.list, recency)
<1> DEFINE r == Removed(k)
<1>1. CASE k \in DOMAIN map_
  <2>1. /\ r.list = RemoveFirst(lru_, map_[k]) /\ r.map = Unmap(map_, {k})
        /\ r.used = used_ - map_[k].approx_bytes
    BY <1>1 DEF Removed
  <2>2. Good(r.list, r.map, r.used) /\ r.used \in Nat
    BY <1>1, <2>1, RemoveGood DEF Whole
  <2>3. r.used <= used_
    <3>1. map_[k].approx_bytes \in Nat
      BY <1>1 DEF Whole, Good, Node
    <3> QED
      BY <2>1, <3>1 DEF Whole
  <2>4. Ordered(r.list, recency)
    BY <2>1, RemoveOrdered DEF Whole, Good
  <2>5. DOMAIN r.map = DOMAIN map_ \ {k} /\ \A j \in DOMAIN r.map : r.map[j] = map_[j]
    BY <2>1 DEF Unmap
  <2> QED
    BY <2>2, <2>3, <2>4, <2>5
<1>2. CASE k \notin DOMAIN map_
  <2>1. r.list = lru_ /\ r.map = map_ /\ r.used = used_
    BY <1>2 DEF Removed
  <2>2. used_ <= used_
    BY DEF Whole
  <2> HIDE DEF r
  <2>3. /\ Good(r.list, r.map, r.used) /\ r.used \in Nat /\ r.used <= used_
        /\ DOMAIN r.map = DOMAIN map_ \ {k} /\ \A j \in DOMAIN r.map : r.map[j] = map_[j]
        /\ Ordered(r.list, recency)
    BY <1>2, <2>1, <2>2 DEF Whole
  <2> QED
    BY <2>3 DEF r
<1> QED
  BY <1>1, <1>2

\* What SetMaxSize does to a whole cache.
LEMMA LimitWhole ==
  ASSUME Whole, NEW limit \in Limits, SetMaxSize(limit)
  PROVE  Whole'
<1> DEFINE e == Evict(lru_, map_, used_, 0, limit)
<1>1. limit \in Nat /\ 0 \in Nat /\ 0 <= limit
  BY LimitsAssumption
<1>2. /\ Good(e.list, e.map, e.used) /\ e.used \in Nat
      /\ Ordered(e.list, recency) /\ e.used + 0 <= limit
  BY <1>1, Evicting DEF Whole
<1>3. DOMAIN e.map \subseteq DOMAIN map_ /\ \A k \in DOMAIN e.map : e.map[k] = map_[k]
  BY EvictShrinks
<1>4. /\ max_size_' = limit /\ recency' = recency
      /\ lru_' = e.list /\ map_' = e.map /\ used_' = e.used
  BY DEF SetMaxSize
<1> HIDE DEF e
<1>5. Sized(e.map)
  BY <1>3 DEF Whole, Sized
<1>6. e.used <= limit
  BY <1>1, <1>2
<1> QED
  BY <1>2, <1>4, <1>5, <1>6 DEF Whole

LEMMA FindWhole ==
  ASSUME Whole, NEW k \in Keys, Find(k)
  PROVE  Whole'
<1> DEFINE x == map_[k]
           t == RemoveFirst(lru_, x)
           q == Unmap(map_, {k})
           u == used_ - x.approx_bytes
           f == [j \in DOMAIN q \cup {x.key} |-> IF j = x.key THEN x ELSE q[j]]
<1>1. k \in DOMAIN map_ /\ Good(lru_, map_, used_)
  BY DEF Find, Whole
<1>2. x \in Node /\ x.key = k /\ x.approx_bytes \in Nat
  BY <1>1 DEF Good, Node
<1>3. Good(t, q, u) /\ u \in Nat
  BY <1>1, RemoveGood
<1>4. DOMAIN q = DOMAIN map_ \ {k} /\ \A j \in DOMAIN q : q[j] = map_[j]
  BY DEF Unmap
<1>5. Good(<<x>> \o t, f, u + x.approx_bytes)
  <2> HIDE DEF x, t, q, u
  <2> QED
    BY <1>2, <1>3, <1>4, FrontGood
<1>6. u + x.approx_bytes = used_
  BY <1>2 DEF Whole
<1>7. DOMAIN f = DOMAIN map_ /\ \A j \in DOMAIN map_ : f[j] = map_[j]
  BY <1>1, <1>2, <1>4
<1>8. lru_' = <<x>> \o t /\ map_' = map_ /\ used_' = used_ /\ max_size_' = max_size_
  BY DEF Find, ToFront
<1>9. recency' = ToFront(recency, x.key)
  BY <1>2 DEF Find
<1>10. Ordered(lru_', recency')
  <2>1. Ordered(t, recency) /\ t \in Seq(Node)
    BY <1>1, <1>3, RemoveOrdered DEF Whole, Good
  <2>2. \A i \in 1..Len(t) : t[i].key # x.key
    BY <1>2, <1>3, <1>4 DEF Good
  <2> HIDE DEF x, t
  <2> QED
    BY <1>2, <1>8, <1>9, <2>1, <2>2, FrontOrdered DEF Whole
<1>11. Distinct(recency')
  BY <1>2, <1>9, Used DEF Whole
<1>12. Good(lru_', map_', used_')
  <2> HIDE DEF f, t, x, u, q
  <2>1. Good(<<x>> \o t, f, used_)
    BY <1>5, <1>6
  <2>2. lru_' = <<x>> \o t
    BY <1>8
  <2> DEFINE l == <<x>> \o t
  <2> HIDE DEF l
  <2>3. Good(l, f, used_)
    BY <2>1 DEF l
  <2>4. Good(l, map_, used_)
    BY <1>7, <2>3 DEF Good
  <2> QED
    BY <1>8, <2>4 DEF l
<1> QED
  BY <1>8, <1>10, <1>11, <1>12 DEF Whole

LEMMA RemovalWhole ==
  ASSUME Whole, NEW k \in Keys,
         lru_' = Removed(k).list, map_' = Removed(k).map, used_' = Removed(k).used,
         max_size_' = max_size_, recency' = recency
  PROVE  Whole'
<1> DEFINE r == Removed(k)
<1>1. /\ Good(r.list, r.map, r.used) /\ r.used \in Nat /\ r.used <= used_
      /\ DOMAIN r.map = DOMAIN map_ \ {k} /\ \A j \in DOMAIN r.map : r.map[j] = map_[j]
      /\ Ordered(r.list, recency)
  BY RemovedGood
<1>2. lru_' = r.list /\ map_' = r.map /\ used_' = r.used
  OBVIOUS
<1> HIDE DEF r
<1>3. Sized(r.map)
  BY <1>1 DEF Whole, Sized
<1>4. r.used <= max_size_
  BY <1>1, LimitsAssumption DEF Whole
<1> QED
  BY <1>1, <1>2, <1>3, <1>4 DEF Whole

LEMMA StoreWhole ==
  ASSUME Whole, NEW k \in Keys, NEW v \in Values, StoreFitting(k, v)
  PROVE  Whole'
<1> DEFINE r == Removed(k)
           e == Evict(r.list, r.map, r.used, Bytes[k][v], max_size_)
           node == [key |-> k, val |-> v, approx_bytes |-> Bytes[k][v]]
           f == [j \in DOMAIN e.map \cup {node.key} |-> IF j = node.key THEN node ELSE e.map[j]]
<1>1. /\ Good(r.list, r.map, r.used) /\ Ordered(r.list, recency)
      /\ DOMAIN r.map = DOMAIN map_ \ {k} /\ \A j \in DOMAIN r.map : r.map[j] = map_[j]
  BY RemovedGood
<1>2. Bytes[k][v] \in Nat /\ max_size_ \in Nat /\ Bytes[k][v] <= max_size_ /\ Distinct(recency)
  BY BytesAssumption, LimitsAssumption DEF StoreFitting, Whole
<1>3. node \in Node /\ node.key = k /\ node.approx_bytes = Bytes[k][v] /\ node.val = v
  BY <1>2 DEF Node
<1>4. DOMAIN e.map \subseteq DOMAIN r.map /\ \A j \in DOMAIN e.map : e.map[j] = r.map[j]
  BY EvictShrinks
<1>5. /\ lru_' = <<node>> \o e.list /\ used_' = e.used + Bytes[k][v]
      /\ map_' = f /\ recency' = ToFront(recency, k) /\ max_size_' = max_size_
  BY DEF StoreFitting
<1> HIDE DEF r
<1>6. /\ Good(e.list, e.map, e.used) /\ e.used \in Nat
      /\ Ordered(e.list, recency) /\ e.used + Bytes[k][v] <= max_size_
  BY <1>1, <1>2, Evicting
<1> HIDE DEF e, node
<1>7. k \notin DOMAIN e.map
  BY <1>1, <1>4
<1>8. Good(<<node>> \o e.list, f, e.used + Bytes[k][v])
  BY <1>3, <1>6, <1>7, FrontGood
<1>9. Sized(f)
  BY <1>1, <1>3, <1>4, <1>7 DEF Sized, Whole
<1>10. Ordered(<<node>> \o e.list, ToFront(recency, k))
  <2>1. e.list \in Seq(Node) /\ \A i \in 1..Len(e.list) : e.list[i].key # node.key
    BY <1>3, <1>6, <1>7 DEF Good
  <2> QED
    BY <1>2, <1>3, <1>6, <2>1, FrontOrdered
<1>11. Distinct(ToFront(recency, k))
  BY <1>2, Used
<1>12. e.used + Bytes[k][v] \in Nat
  BY <1>2, <1>6
<1> HIDE DEF f
<1> QED
  BY <1>5, <1>6, <1>8, <1>9, <1>10, <1>11, <1>12 DEF Whole

LEMMA InitWhole == Init => Whole
<1> SUFFICES ASSUME Init PROVE Whole
  OBVIOUS
<1>1. lru_ = <<>> /\ map_ = <<>> /\ used_ = 0 /\ recency = <<>> /\ max_size_ \in Limits
  BY LimitsAssumption DEF Init
<1>2. <<>> \in Seq(Node) /\ Len(<<>>) = 0 /\ DOMAIN <<>> = {} /\ <<>> \in Seq(Keys)
  OBVIOUS
<1>3. Total(<<>>)[0] = 0
  BY <1>2, TotalOf
<1>4. Good(<<>>, <<>>, 0)
  BY <1>2, <1>3 DEF Good
<1>5. max_size_ \in Nat
  BY <1>1, LimitsAssumption
<1> QED
  BY <1>1, <1>2, <1>4, <1>5 DEF Whole, Sized, Distinct, Ordered

LEMMA ClearWhole == Whole /\ Clear => Whole'
<1> SUFFICES ASSUME Whole, Clear PROVE Whole'
  OBVIOUS
<1>1. /\ lru_' = <<>> /\ map_' = <<>> /\ used_' = 0
      /\ recency' = recency /\ max_size_' = max_size_
  BY DEF Clear
<1>2. <<>> \in Seq(Node) /\ Len(<<>>) = 0 /\ DOMAIN <<>> = {}
  OBVIOUS
<1>3. Total(<<>>)[0] = 0
  BY <1>2, TotalOf
<1>4. Good(<<>>, <<>>, 0)
  BY <1>2, <1>3 DEF Good
<1>5. max_size_ \in Nat /\ max_size_ \in Limits /\ Distinct(recency)
  BY LimitsAssumption DEF Whole
<1>6. Ordered(<<>>, recency) /\ Sized(<<>>)
  BY <1>2 DEF Ordered, Sized
<1> QED
  BY <1>1, <1>4, <1>5, <1>6 DEF Whole

\* Every operation keeps the cache whole (RenderCache::set_max_size, find, erase,
\* store and clear).
THEOREM NextWhole == Whole /\ [Next]_vars => Whole'
<1> SUFFICES ASSUME Whole, [Next]_vars PROVE Whole'
  OBVIOUS
<1>1. ASSUME NEW limit \in Limits, SetMaxSize(limit) PROVE Whole'
  BY <1>1, LimitWhole
<1>2. ASSUME NEW k \in Keys, Find(k) PROVE Whole'
  BY <1>2, FindWhole
<1>3. ASSUME NEW k \in Keys, Erase(k) PROVE Whole'
  BY <1>3, RemovalWhole DEF Erase
<1>4. ASSUME NEW k \in Keys, NEW v \in Values, StoreOversized(k, v) PROVE Whole'
  BY <1>4, RemovalWhole DEF StoreOversized
<1>5. ASSUME NEW k \in Keys, NEW v \in Values, StoreFitting(k, v) PROVE Whole'
  BY <1>5, StoreWhole
<1>6. CASE Clear
  BY <1>6, ClearWhole
<1>7. CASE UNCHANGED vars
  BY <1>7 DEF vars, Whole
<1> QED
  BY <1>1, <1>2, <1>3, <1>4, <1>5, <1>6, <1>7 DEF Next

LEMMA WholeConsistent == Whole /\ IInv => Consistent
<1> SUFFICES ASSUME Whole, IInv PROVE Consistent
  OBVIOUS
<1>1. lru_ \in Seq(Node) /\ DOMAIN lru_ = 1..Len(lru_)
  BY DEF Whole, Good
<1>2. TypeOK
  BY <1>1 DEF TypeOK, Whole, Good, IInv, Keyed, Distinct
<1>3. IteratorsLive
  BY <1>1 DEF IteratorsLive, Whole, Good
<1>4. BytesAccounted
  <2>1. 0 \in 0..Len(lru_)
    BY <1>1
  <2>2. Total(lru_)[0] = 0 /\ Total(lru_)[Len(lru_)] \in Nat
    BY <1>1, <2>1, TotalOf, BytesBehind
  <2>3. BytesFrom(lru_, 1) = Total(lru_)[Len(lru_)]
    <3>1. 1 - 1 = 0
      OBVIOUS
    <3> QED
      BY <2>2, <3>1 DEF BytesFrom
  <2> QED
    BY <2>3 DEF BytesAccounted, Whole, Good
<1> QED
  BY <1>2, <1>3, <1>4 DEF Consistent, IInv

\* After any history of stores, hits, erasures, evictions and lowered limits the list,
\* the map and the byte count describe the same entries, within the limit in force,
\* and each holds what was stored last under its key.
THEOREM CacheIsConsistent == Spec => []Consistent
<1>1. Whole /\ [Next]_vars => Whole'
  BY NextWhole
<1> QED
  BY InitIInv, NextIInv, InitWhole, <1>1, WholeConsistent, PTL DEF Spec

---------------------------------------------------------------------------
(***************************************************************************)
(* Eviction is by least recent use, and stops as soon as there is room.    *)
(***************************************************************************)
\* What this step evicts: what it takes from the map without erasing or replacing it.
GivenUp == {k \in DOMAIN map_ \ DOMAIN map_' : latest'[k] = latest[k] /\ latest[k] # NoValue}

LeastRecent == \A k \in GivenUp, j \in DOMAIN map_' : Earlier(recency', j, k)

NoMoreThanNeeded ==
  \A k \in GivenUp : (\A j \in GivenUp : Rank(recency, k) <= Rank(recency, j)) =>
                       used_' + map_[k].approx_bytes > max_size_'

\* An entry of the map is a use that recency remembers.
LEMMA KeptOccurs ==
  ASSUME Whole, NEW k \in DOMAIN map_
  PROVE  Occurs(recency, k) /\ Rank(recency, k) \in Nat
<1>1. PICK i \in 1..Len(lru_) : lru_[i] = map_[k] /\ map_[k].key = k
  BY DEF Whole, Good
<1>2. Occurs(recency, k)
  BY <1>1 DEF Whole, Ordered
<1>3. Rank(recency, k) \in 1..Len(recency)
  BY <1>2, Ranked DEF Whole, Distinct
<1> QED
  BY <1>2, <1>3

LEMMA LimitEvicts ==
  ASSUME Whole, IInv, NEW limit \in Limits, SetMaxSize(limit)
  PROVE  LeastRecent /\ NoMoreThanNeeded
<1> DEFINE e == Evict(lru_, map_, used_, 0, limit)
           gone == DOMAIN map_ \ DOMAIN e.map
<1>1. limit \in Nat /\ 0 \in Nat /\ 0 <= limit
  BY LimitsAssumption
<1>2. /\ e.used \in Nat
      /\ \A j \in DOMAIN e.map, k \in gone : Earlier(recency, j, k)
      /\ \A k \in gone : (\A j \in gone : ~ Earlier(recency, j, k)) =>
                           e.used + 0 + map_[k].approx_bytes > limit
  BY <1>1, Evicting, Zenon DEF Whole
<1>3. /\ max_size_' = limit /\ recency' = recency /\ latest' = latest
      /\ map_' = e.map /\ used_' = e.used
  BY DEF SetMaxSize
<1> HIDE DEF e
<1>4. GivenUp = gone
  BY <1>3, NoValueAssumption DEF GivenUp, IInv, NeverStale, Whole, Good, Node
<1>5. LeastRecent
  BY <1>2, <1>3, <1>4 DEF LeastRecent
<1>6. ASSUME NEW k \in gone, \A j \in gone : Rank(recency, k) <= Rank(recency, j)
      PROVE  e.used + map_[k].approx_bytes > limit
  <2>1. \A j \in gone : ~ Earlier(recency, j, k)
    <3> TAKE j \in gone
    <3>1. Rank(recency, k) \in Nat /\ Rank(recency, j) \in Nat
      BY KeptOccurs
    <3> QED
      BY <1>6, <3>1 DEF Earlier
  <2>2. e.used + 0 = e.used
    BY <1>2
  <2> QED
    BY <1>2, <2>1, <2>2
<1>7. NoMoreThanNeeded
  BY <1>3, <1>4, <1>6 DEF NoMoreThanNeeded
<1> QED
  BY <1>5, <1>7

LEMMA StoreEvicts ==
  ASSUME Whole, IInv, NEW k0 \in Keys, NEW v \in Values, StoreFitting(k0, v)
  PROVE  LeastRecent /\ NoMoreThanNeeded
<1> DEFINE r == Removed(k0)
           e == Evict(r.list, r.map, r.used, Bytes[k0][v], max_size_)
           gone == DOMAIN r.map \ DOMAIN e.map
<1>1. /\ Good(r.list, r.map, r.used) /\ Ordered(r.list, recency)
      /\ DOMAIN r.map = DOMAIN map_ \ {k0} /\ \A j \in DOMAIN r.map : r.map[j] = map_[j]
  BY RemovedGood
<1>2. Bytes[k0][v] \in Nat /\ max_size_ \in Nat /\ Bytes[k0][v] <= max_size_ /\ Distinct(recency)
  BY BytesAssumption, LimitsAssumption DEF StoreFitting, Whole
<1>3. DOMAIN e.map \subseteq DOMAIN r.map
  BY EvictShrinks
<1>4. /\ used_' = e.used + Bytes[k0][v] /\ DOMAIN map_' = DOMAIN e.map \cup {k0}
      /\ recency' = ToFront(recency, k0) /\ max_size_' = max_size_
      /\ latest' = [latest EXCEPT ![k0] = v]
  BY DEF StoreFitting
<1> HIDE DEF r
<1>5. /\ e.used \in Nat
      /\ \A j \in DOMAIN e.map, k \in gone : Earlier(recency, j, k)
      /\ \A k \in gone : (\A j \in gone : ~ Earlier(recency, j, k)) =>
                           e.used + Bytes[k0][v] + r.map[k].approx_bytes > max_size_
  BY <1>1, <1>2, Evicting, Zenon
<1> HIDE DEF e
<1>6. GivenUp = gone
  <2>1. \A k \in DOMAIN map_ : latest[k] # NoValue
    BY NoValueAssumption DEF IInv, NeverStale, Whole, Good, Node
  <2>2. \A k \in DOMAIN map_ : k # k0 => latest'[k] = latest[k]
    BY <1>4 DEF IInv, Keyed
  <2>3. DOMAIN map_ \ DOMAIN map_' = gone
    BY <1>1, <1>3, <1>4
  <2> QED
    BY <1>1, <2>1, <2>2, <2>3 DEF GivenUp
<1>7. \A k \in DOMAIN r.map : Occurs(recency, k) /\ Rank(recency, k) \in Nat /\ k # k0
  BY <1>1, KeptOccurs
<1>8. /\ \A j : Occurs(recency, j) /\ j # k0 => Earlier(recency', k0, j)
      /\ \A i, j : Occurs(recency, i) /\ Occurs(recency, j) /\ i # k0 /\ j # k0 /\ Earlier(recency, i, j)
                     => Earlier(recency', i, j)
  <2> DEFINE f == ToFront(recency, k0)
  <2>1. /\ \A j : Occurs(recency, j) /\ j # k0 => Earlier(f, k0, j)
        /\ \A i, j : Occurs(recency, i) /\ Occurs(recency, j) /\ i # k0 /\ j # k0 /\ Earlier(recency, i, j)
                       => Earlier(f, i, j)
    BY <1>2, Used
  <2> HIDE DEF f
  <2>2. recency' = f
    BY <1>4 DEF f
  <2> QED
    BY <2>1, <2>2
<1>9. LeastRecent
  <2> SUFFICES ASSUME NEW k \in gone, NEW j \in DOMAIN map_' PROVE Earlier(recency', j, k)
    BY <1>6 DEF LeastRecent
  <2>1. CASE j = k0
    BY <1>7, <1>8, <2>1
  <2>2. CASE j \in DOMAIN e.map
    BY <1>3, <1>5, <1>7, <1>8, <2>2
  <2> QED
    BY <1>4, <2>1, <2>2
<1>10. ASSUME NEW k \in gone, \A j \in gone : Rank(recency, k) <= Rank(recency, j)
       PROVE  used_' + map_[k].approx_bytes > max_size_'
  <2>1. \A j \in gone : ~ Earlier(recency, j, k)
    <3> TAKE j \in gone
    <3>1. Rank(recency, k) \in Nat /\ Rank(recency, j) \in Nat
      BY <1>7
    <3> QED
      BY <1>10, <3>1 DEF Earlier
  <2>2. r.map[k] = map_[k]
    BY <1>1
  <2> QED
    BY <1>4, <1>5, <2>1, <2>2
<1>11. NoMoreThanNeeded
  BY <1>6, <1>10 DEF NoMoreThanNeeded
<1> QED
  BY <1>9, <1>11

\* The other operations evict nothing: what they take away was erased or replaced.
LEMMA NothingGivenUp ==
  ASSUME GivenUp = {}
  PROVE  LeastRecent /\ NoMoreThanNeeded
  BY DEF LeastRecent, NoMoreThanNeeded

LEMMA NextEvicts ==
  ASSUME Whole, IInv, [Next]_vars
  PROVE  LeastRecent /\ NoMoreThanNeeded
<1>1. ASSUME NEW limit \in Limits, SetMaxSize(limit) PROVE LeastRecent /\ NoMoreThanNeeded
  BY <1>1, LimitEvicts
<1>2. ASSUME NEW k \in Keys, Find(k) PROVE GivenUp = {}
  BY <1>2 DEF Find, GivenUp
<1>3. ASSUME NEW k \in Keys, Erase(k) PROVE GivenUp = {}
  <2>1. DOMAIN map_' = DOMAIN map_ \ {k}
    BY <1>3, RemovedGood DEF Erase
  <2>2. latest'[k] = NoValue
    BY <1>3 DEF Erase, IInv, Keyed
  <2> QED
    BY <2>1, <2>2 DEF GivenUp
<1>4. ASSUME NEW k \in Keys, NEW v \in Values, StoreOversized(k, v) PROVE GivenUp = {}
  <2> SUFFICES ASSUME k \in DOMAIN map_, latest'[k] = latest[k] PROVE FALSE
    <3>1. DOMAIN map_' = DOMAIN map_ \ {k}
      BY <1>4, RemovedGood DEF StoreOversized
    <3> QED
      BY <3>1 DEF GivenUp
  <2>1. latest'[k] = v
    BY <1>4 DEF StoreOversized, IInv, Keyed
  <2>2. map_[k].val = v /\ map_[k].approx_bytes = Bytes[k][v]
    BY <2>1 DEF IInv, NeverStale, Whole, Sized
  <2>3. used_ - Bytes[k][v] \in Nat
    BY <2>2, RemoveGood DEF Whole
  <2>4. Bytes[k][v] > max_size_ /\ used_ <= max_size_ /\ used_ \in Nat /\ max_size_ \in Nat /\ Bytes[k][v] \in Nat
    BY <1>4, BytesAssumption, LimitsAssumption DEF StoreOversized, Whole
  <2> QED
    BY <2>3, <2>4
<1>5. ASSUME NEW k \in Keys, NEW v \in Values, StoreFitting(k, v) PROVE LeastRecent /\ NoMoreThanNeeded
  BY <1>5, StoreEvicts
<1>6. CASE Clear
  <2>1. \A k \in DOMAIN map_ : latest'[k] = NoValue
    BY <1>6 DEF Clear, IInv, Keyed
  <2> QED
    BY <2>1, NothingGivenUp DEF GivenUp
<1>7. CASE UNCHANGED vars
  BY <1>7, NothingGivenUp DEF vars, GivenUp
<1> QED
  BY <1>1, <1>2, <1>3, <1>4, <1>5, <1>6, <1>7, NothingGivenUp DEF Next

\* A step that takes an entry its caller did not erase or replace takes the least
\* recently used ones only, and stops as soon as what is needed fits
\* (RenderCache::evict_to_fit).
THEOREM EvictionTakesTheOldest == Spec => EvictionIsLRU
<1>1. LeastRecent => \A k \in DOMAIN map_ \ DOMAIN map_' :
                       latest'[k] = latest[k] /\ latest[k] # NoValue =>
                         \A j \in DOMAIN map_' : Rank(recency', j) < Rank(recency', k)
  BY DEF LeastRecent, GivenUp, Earlier
<1>2. NoMoreThanNeeded =>
        LET gone == {k \in DOMAIN map_ \ DOMAIN map_' :
                       latest'[k] = latest[k] /\ latest[k] # NoValue}
        IN  \A k \in gone :
              (\A j \in gone : Rank(recency, k) <= Rank(recency, j)) =>
                used_' + map_[k].approx_bytes > max_size_'
  BY DEF NoMoreThanNeeded, GivenUp
<1>3. Whole /\ IInv /\ [Next]_vars => LeastRecent /\ NoMoreThanNeeded
  BY NextEvicts
<1>4. Whole /\ [Next]_vars => Whole'
  BY NextWhole
<1> QED
  BY InitIInv, NextIInv, InitWhole, <1>1, <1>2, <1>3, <1>4, PTL
  DEF Spec, EvictionIsLRU, EvictsLeastRecent, EvictsNoMoreThanNeeded
============================================================================
