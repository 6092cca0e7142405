------------------------- MODULE StreamCacheProofs -------------------------
(***************************************************************************)
(* What decode_stream guarantees for any number of threads, any streams    *)
(* and any capacities: the cache keeps its bound, and if keys tell the     *)
(* requests apart every call gives what it would have given alone.         *)
(*                                                                         *)
(* Shape is inductive by itself.  Truth relates the cache and what each    *)
(* thread carries to the decodes of a lone caller; it is inductive where   *)
(* Shape holds and KeysTellApart does.                                     *)
(***************************************************************************)
EXTENDS StreamCache, WellFoundedInduction, SequenceTheorems, TLAPS

---------------------------------------------------------------------------
\* Sequences of keys.

\* A position of k has a first one.
LEMMA FirstPosition ==
  ASSUME NEW K, NEW q \in Seq(K), NEW k, \E i \in DOMAIN q : q[i] = k
  PROVE  \E j \in DOMAIN q : q[j] = k /\ \A h \in 1..j - 1 : q[h] # k
<1> DEFINE T == {i \in DOMAIN q : q[i] = k}
<1>1. IsWellFoundedOn(OpToRel(<, Nat), Nat)
  BY NatLessThanWellFounded
<1>2. T \subseteq Nat /\ T # {}
  OBVIOUS
<1>3. PICK j \in T : \A h \in T : ~(<<h, j>> \in OpToRel(<, Nat))
  BY <1>1, <1>2, WFMin
<1>4. \A h \in T : ~(h < j)
  BY <1>2, <1>3 DEF OpToRel
<1>5. \A h \in 1..j - 1 : h \in DOMAIN q /\ h < j
  BY <1>2
<1> QED
  BY <1>4, <1>5

\* std::find and erase: k is taken out once, everything else stays.
LEMMA WithoutOne ==
  ASSUME NEW K, NEW q \in Seq(K), NEW k, \E i \in DOMAIN q : q[i] = k
  PROVE  /\ Without(q, k) \in Seq(K)
         /\ Len(Without(q, k)) = Len(q) - 1
         /\ \A i \in DOMAIN q : q[i] = k \/ \E j \in DOMAIN Without(q, k) : Without(q, k)[j] = q[i]
<1> DEFINE n == CHOOSE j \in DOMAIN q : q[j] = k /\ \A h \in 1..j - 1 : q[h] # k
           a == SubSeq(q, 1, n - 1)
           b == SubSeq(q, n + 1, Len(q))
<1>1. n \in DOMAIN q /\ q[n] = k
  BY FirstPosition
<1>2. Without(q, k) = a \o b
  BY DEF Without
<1> HIDE DEF n
<1>3. n \in 1..Len(q)
  BY <1>1
<1>4. /\ a \in Seq(K) /\ Len(a) = n - 1 /\ \A i \in 1..n - 1 : a[i] = q[i]
      /\ b \in Seq(K) /\ Len(b) = Len(q) - n /\ \A i \in 1..Len(q) - n : b[i] = q[n + i]
  BY <1>3
<1> HIDE DEF a, b
<1>5. a \o b \in Seq(K) /\ Len(a \o b) = Len(q) - 1
  <2>1. a \o b \in Seq(K) /\ Len(a \o b) = Len(a) + Len(b)
    BY <1>4, ConcatProperties
  <2>2. (n - 1) + (Len(q) - n) = Len(q) - 1
    BY <1>3
  <2> QED
    BY <1>4, <2>1, <2>2
<1>6. ASSUME NEW i \in DOMAIN q, q[i] # k
      PROVE  \E j \in DOMAIN (a \o b) : (a \o b)[j] = q[i]
  <2>1. CASE i < n
    BY <1>3, <1>4, <1>5, <2>1
  <2>2. CASE i > n
    <3>1. i - 1 \in DOMAIN (a \o b) /\ (a \o b)[i - 1] = b[i - n]
      BY <1>3, <1>4, <1>5, <2>2
    <3>2. b[i - n] = q[i]
      BY <1>3, <1>4, <2>2
    <3> QED
      BY <3>1, <3>2
  <2> QED
    BY <1>1, <1>3, <1>6, <2>1, <2>2
<1> QED
  BY <1>2, <1>5, <1>6

LEMMA MovedMembers ==
  ASSUME NEW K, NEW q \in Seq(K), NEW k \in K
  PROVE  /\ Moved(q, k) \in Seq(K)
         /\ (\E i \in DOMAIN q : q[i] = k) => Len(Moved(q, k)) = Len(q)
         /\ \A i \in DOMAIN q : \E j \in DOMAIN Moved(q, k) : Moved(q, k)[j] = q[i]
<1> DEFINE w == Without(q, k)
<1>1. CASE \E i \in DOMAIN q : q[i] = k
  <2>1. /\ w \in Seq(K) /\ Len(w) = Len(q) - 1
        /\ \A i \in DOMAIN q : q[i] = k \/ \E j \in DOMAIN w : w[j] = q[i]
    BY <1>1, WithoutOne
  <2> HIDE DEF w
  <2>2. /\ Append(w, k) \in Seq(K) /\ Len(Append(w, k)) = Len(q)
        /\ \A j \in DOMAIN w : j \in DOMAIN Append(w, k) /\ Append(w, k)[j] = w[j]
        /\ Len(q) \in DOMAIN Append(w, k) /\ Append(w, k)[Len(q)] = k
    BY <2>1
  <2>3. Moved(q, k) = Append(w, k)
    BY DEF Moved, w
  <2> QED
    BY <2>1, <2>2, <2>3
<1>2. CASE ~ \E i \in DOMAIN q : q[i] = k
  <2>1. Moved(q, k) = Append(q, k)
    BY <1>2 DEF Moved, Without
  <2> QED
    BY <1>2, <2>1
<1> QED
  BY <1>1, <1>2

\* Evicting to n keys leaves at most n, and every key that was not evicted.
LEMMA NewestMembers ==
  ASSUME NEW K, NEW q \in Seq(K), NEW n \in Nat
  PROVE  /\ Newest(q, n) \in Seq(K)
         /\ Len(Newest(q, n)) <= n
         /\ Len(Newest(q, n)) <= Len(q)
         /\ \A i \in DOMAIN q :
              q[i] \in Dropped(q, n) \/ \E j \in DOMAIN Newest(q, n) : Newest(q, n)[j] = q[i]
<1>1. CASE Len(q) > n
  <2> DEFINE m == Len(q) - n
             s == SubSeq(q, m + 1, Len(q))
  <2>1. m \in Nat /\ m <= Len(q) /\ Len(q) - m = n
    BY <1>1
  <2>2. Newest(q, n) = s
    BY <1>1 DEF Newest
  <2>3. s \in Seq(K) /\ Len(s) = n /\ \A i \in 1..n : s[i] = q[m + i]
    BY <2>1
  <2>4. ASSUME NEW i \in DOMAIN q, i > m
        PROVE  \E j \in DOMAIN s : s[j] = q[i]
    <3>1. i - m \in 1..n /\ m + (i - m) = i
      BY <2>1, <2>4
    <3> HIDE DEF s, m
    <3> QED
      BY <2>3, <3>1
  <2>5. ASSUME NEW i \in DOMAIN q, ~(i > m)
        PROVE  q[i] \in Dropped(q, n)
    BY <2>1, <2>5 DEF Dropped
  <2> HIDE DEF s
  <2> QED
    BY <1>1, <2>2, <2>3, <2>4, <2>5
<1>2. CASE ~(Len(q) > n)
  BY <1>2 DEF Newest
<1> QED
  BY <1>1, <1>2

---------------------------------------------------------------------------
\* The cache keeps its shape whatever the streams decode to.

Typed ==
  /\ DOMAIN cache \subseteq Keys
  /\ order \in Seq(Keys)
  /\ capacity \in Nat \ {0}
  /\ pc \in [Threads -> PCs]
  /\ want \in [Threads -> Requests]
  /\ nested \in [Threads -> BOOLEAN]
  /\ used \in Seq(Keys)
  /\ doubled \in BOOLEAN

\* Globals are decoded only for an image that has some, within a call.
Nesting ==
  \A t \in Threads : nested[t] =>
    want[t].object \in DOMAIN Globals /\ pc[t] \notin {"idle", "answered"}

Shape == Typed /\ Nesting /\ CacheBounded

LEMMA ReqKnown ==
  ASSUME Typed, Nesting, NEW t \in Threads
  PROVE  Req(t) \in AllRequests /\ Key(Req(t)) \in Keys
<1>1. Req(t) \in AllRequests
  <2>1. CASE nested[t]
    BY <2>1 DEF Nesting, Req, AllRequests
  <2>2. CASE ~nested[t]
    BY <2>2 DEF Typed, Req, AllRequests
  <2> QED
    BY <2>1, <2>2 DEF Typed
<1> QED
  BY <1>1 DEF Keys

\* A decode that returns leaves no nesting behind.
LEMMA ReturnShape ==
  ASSUME Typed, Nesting, NEW t \in Threads, NEW v, Return(t, v), want' = want
  PROVE  pc' \in [Threads -> PCs] /\ nested' \in [Threads -> BOOLEAN] /\ Nesting'
  BY DEF Typed, Nesting, Return, Goto, PCs

LEMMA EvictBounded ==
  ASSUME NEW n \in Nat, Typed, CacheBounded
  PROVE  /\ DOMAIN Evict(cache, order, n) \subseteq DOMAIN cache
         /\ \A k \in DOMAIN Evict(cache, order, n) :
              /\ Evict(cache, order, n)[k] = cache[k]
              /\ \E i \in DOMAIN Newest(order, n) : Newest(order, n)[i] = k
         /\ Newest(order, n) \in Seq(Keys)
         /\ Len(Newest(order, n)) <= n
<1>1. /\ Newest(order, n) \in Seq(Keys) /\ Len(Newest(order, n)) <= n
      /\ \A i \in DOMAIN order : order[i] \in Dropped(order, n)
           \/ \E j \in DOMAIN Newest(order, n) : Newest(order, n)[j] = order[i]
  BY NewestMembers DEF Typed
<1>2. \A k \in DOMAIN cache : \E i \in DOMAIN order : order[i] = k
  BY DEF CacheBounded
<1>3. Evict(cache, order, n) = [k \in DOMAIN cache \ Dropped(order, n) |-> cache[k]]
  BY DEF Evict
<1> QED
  BY <1>1, <1>2, <1>3

THEOREM InitShape == Init => Shape
<1> SUFFICES ASSUME Init PROVE Shape
  OBVIOUS
<1>1. cache = <<>> /\ order = <<>> /\ used = <<>>
  BY DEF Init
<1>2. DOMAIN cache = {} /\ order \in Seq(Keys) /\ Len(order) = 0 /\ used \in Seq(Keys)
  BY <1>1
<1>3. Typed /\ Nesting
  BY <1>2, CapacityAssumption DEF Init, Typed, Nesting, PCs
<1> QED
  BY <1>2, <1>3, CapacityAssumption DEF Init, Shape, CacheBounded

\* Every step of decode_stream, of the capacity and of the clearing keeps Shape.
THEOREM NextShape == Shape /\ [Next]_vars => Shape'
<1> SUFFICES ASSUME Shape, [Next]_vars PROVE Shape'
  OBVIOUS
<1>0. Typed /\ Nesting /\ CacheBounded
  BY DEF Shape
<1>1. ASSUME NEW t \in Threads, NEW r \in Requests, Call(t, r) PROVE Shape'
  BY <1>0, <1>1 DEF Shape, Typed, Nesting, CacheBounded, Call, Goto, PCs, shared
<1>2. ASSUME NEW t \in Threads, Hit(t) PROVE Shape'
  <2> DEFINE k == Key(Req(t))
  <2>1. k \in Keys /\ order \in Seq(Keys) /\ used \in Seq(Keys)
    BY <1>0, ReqKnown DEF Typed
  <2> HIDE DEF k
  <2>2. /\ Moved(order, k) \in Seq(Keys) /\ Moved(used, k) \in Seq(Keys)
        /\ (\E i \in DOMAIN order : order[i] = k) => Len(Moved(order, k)) = Len(order)
        /\ \A i \in DOMAIN order : \E j \in DOMAIN Moved(order, k) : Moved(order, k)[j] = order[i]
    BY <2>1, MovedMembers
  <2>3. /\ order' = IF \E i \in DOMAIN order : order[i] = k THEN Moved(order, k) ELSE order
        /\ used' = Moved(used, k)
        /\ UNCHANGED <<cache, capacity, doubled, want>>
    BY <1>2 DEF Hit, k
  <2>4. pc' \in [Threads -> PCs] /\ nested' \in [Threads -> BOOLEAN] /\ Nesting'
    BY <1>0, <1>2, ReturnShape DEF Hit
  <2>5. order' \in Seq(Keys) /\ Len(order') = Len(order)
        /\ \A i \in DOMAIN order : \E j \in DOMAIN order' : order'[j] = order[i]
    BY <2>1, <2>2, <2>3
  <2>6. CacheBounded'
    BY <1>0, <2>3, <2>5 DEF CacheBounded
  <2> QED
    BY <1>0, <2>2, <2>3, <2>4, <2>5, <2>6 DEF Shape, Typed
<1>3. ASSUME NEW t \in Threads, Miss(t) PROVE Shape'
  BY <1>0, <1>3 DEF Shape, Typed, Nesting, CacheBounded, Miss, Goto, PCs, shared
<1>4. ASSUME NEW t \in Threads, DecodeAtOnce(t) PROVE Shape'
  <2>1. pc' \in [Threads -> PCs] /\ nested' \in [Threads -> BOOLEAN] /\ Nesting'
    BY <1>0, <1>4, ReturnShape DEF DecodeAtOnce
  <2> QED
    BY <1>0, <1>4, <2>1 DEF Shape, Typed, CacheBounded, DecodeAtOnce, shared
<1>5. ASSUME NEW t \in Threads, DecodeGlobals(t) PROVE Shape'
  <2>1. ~nested[t]
    BY <1>0, <1>5, GlobalsAssumption DEF Nesting, DecodeGlobals, Req, GlobalsOf
  <2>2. want[t].object \in DOMAIN Globals
    BY <1>5, <2>1 DEF DecodeGlobals, Req
  <2> QED
    BY <1>0, <1>5, <2>2 DEF Shape, Typed, Nesting, CacheBounded, DecodeGlobals, Goto, PCs, shared
<1>6. ASSUME NEW t \in Threads, Filter(t) PROVE Shape'
  <2>1. pc' \in [Threads -> PCs] /\ nested' \in [Threads -> BOOLEAN] /\ Nesting'
    <3>1. CASE Goto(t, "insert") /\ UNCHANGED <<nested, globals>>
      BY <1>0, <1>6, <3>1 DEF Typed, Nesting, Filter, Goto, PCs
    <3>2. CASE Return(t, Filtered(Req(t), Given(t)))
      BY <1>0, <1>6, <3>2, ReturnShape DEF Filter
    <3> QED
      BY <1>6, <3>1, <3>2 DEF Filter
  <2> QED
    BY <1>0, <1>6, <2>1 DEF Shape, Typed, CacheBounded, Filter, shared
<1>7. ASSUME NEW t \in Threads, Insert(t) PROVE Shape'
  <2> DEFINE k == Key(Req(t))
             c == Evict(cache, order, capacity - 1)
             q == Newest(order, capacity - 1)
  <2>1. k \in Keys /\ used \in Seq(Keys) /\ capacity - 1 \in Nat /\ capacity \in Nat
    BY <1>0, ReqKnown DEF Typed
  <2>2. /\ DOMAIN c \subseteq Keys /\ q \in Seq(Keys) /\ Len(q) <= capacity - 1
        /\ \A j \in DOMAIN c : \E i \in DOMAIN q : q[i] = j
    BY <1>0, <2>1, EvictBounded DEF Typed
  <2>3. /\ cache' = [j \in DOMAIN c \cup {k} |-> IF j = k THEN body[t] ELSE c[j]]
        /\ order' = Append(q, k)
        /\ used' = Moved(used, k)
        /\ doubled' \in BOOLEAN
        /\ UNCHANGED <<capacity, want>>
    BY <1>0, <1>7 DEF Insert, Typed
  <2>4. pc' \in [Threads -> PCs] /\ nested' \in [Threads -> BOOLEAN] /\ Nesting'
    BY <1>0, <1>7, ReturnShape DEF Insert
  <2> HIDE DEF k, c, q
  <2>5. /\ order' \in Seq(Keys) /\ Len(order') = Len(q) + 1
        /\ \A i \in DOMAIN q : i \in DOMAIN order' /\ order'[i] = q[i]
        /\ Len(q) + 1 \in DOMAIN order' /\ order'[Len(q) + 1] = k
    BY <2>1, <2>2, <2>3
  <2>6. used' \in Seq(Keys)
    BY <2>1, <2>3, MovedMembers
  <2>7. \A j \in DOMAIN cache' : \E i \in DOMAIN order' : order'[i] = j
    BY <2>2, <2>3, <2>5
  <2>8. Len(order') <= capacity'
    BY <2>1, <2>2, <2>3, <2>5
  <2>9. DOMAIN cache' \subseteq Keys
    BY <2>1, <2>2, <2>3
  <2> QED
    BY <1>0, <2>3, <2>4, <2>5, <2>6, <2>7, <2>8, <2>9 DEF Shape, Typed, CacheBounded
<1>8. ASSUME NEW n \in Capacities, SetCapacity(n) PROVE Shape'
  <2> DEFINE cap == IF n = 0 THEN 1 ELSE n
  <2>1. cap \in Nat \ {0}
    BY CapacityAssumption
  <2>2. /\ capacity' = cap /\ order' = Newest(order, cap) /\ cache' = Evict(cache, order, cap)
        /\ UNCHANGED <<used, doubled, local>>
    BY <1>8 DEF SetCapacity
  <2> HIDE DEF cap
  <2>3. /\ DOMAIN Evict(cache, order, cap) \subseteq DOMAIN cache
        /\ \A k \in DOMAIN Evict(cache, order, cap) :
             \E i \in DOMAIN Newest(order, cap) : Newest(order, cap)[i] = k
        /\ Newest(order, cap) \in Seq(Keys)
        /\ Len(Newest(order, cap)) <= cap
    BY <1>0, <2>1, EvictBounded
  <2>4. CacheBounded' /\ order' \in Seq(Keys) /\ DOMAIN cache' \subseteq Keys
    BY <1>0, <2>2, <2>3 DEF CacheBounded, Typed
  <2> QED
    BY <1>0, <2>1, <2>2, <2>4 DEF Shape, Typed, Nesting, local
<1>9. CASE Clear
  <2>1. cache' = <<>> /\ order' = <<>> /\ used' = <<>> /\ doubled' = FALSE
    BY <1>9 DEF Clear
  <2>2. UNCHANGED <<capacity, local>>
    BY <1>9 DEF Clear
  <2>3. DOMAIN cache' = {} /\ order' \in Seq(Keys) /\ Len(order') = 0 /\ used' \in Seq(Keys)
    BY <2>1
  <2>4. CacheBounded'
    BY <1>0, <2>2, <2>3 DEF Typed, CacheBounded
  <2>5. Typed' /\ Nesting'
    BY <1>0, <2>1, <2>2, <2>3 DEF Typed, Nesting, local
  <2> QED
    BY <2>4, <2>5 DEF Shape
<1>10. CASE UNCHANGED vars
  BY <1>0, <1>10 DEF Shape, Typed, Nesting, CacheBounded, vars, shared, local
<1> QED
  BY <1>1, <1>2, <1>3, <1>4, <1>5, <1>6, <1>7, <1>8, <1>9, <1>10 DEF Next, Step

\* The order bounds the cache and covers it for any number of threads, however often
\* they insert the same stream at once, and for any capacities.
THEOREM CacheStaysBounded == Spec => []CacheBounded
<1>1. Shape => CacheBounded
  BY DEF Shape
<1> QED
  BY InitShape, NextShape, <1>1, PTL DEF Spec

---------------------------------------------------------------------------
(***************************************************************************)
(* KeysTellApart is a fact about fax images only: other streams decode to  *)
(* the same bytes whatever dimensions a caller passes.  So it holds when   *)
(* no two requests for one fax image whose key is the same, such as those  *)
(* of 2048 by 2048 and of no dimensions, differ in their parameters.       *)
(***************************************************************************)
LEMMA OnlyFaxKeysCollide ==
  ASSUME \A r, s \in AllRequests :
           r.object \in Fax /\ Key(r) = Key(s) => Params(r) = Params(s)
  PROVE  KeysTellApart
<1> SUFFICES ASSUME NEW r \in AllRequests, NEW s \in AllRequests, Key(r) = Key(s)
             PROVE  Alone(r) = Alone(s)
  BY DEF KeysTellApart
<1>1. r.object = s.object
  BY DEF Key
<1>2. Params(r) = Params(s)
  BY <1>1 DEF Params
<1> QED
  BY <1>1, <1>2 DEF Alone, Decoded, Filtered

---------------------------------------------------------------------------
\* What the calls give.

\* Decoding globals inside a decode is decoding them alone.
LEMMA GlobalsDecodeAlone ==
  ASSUME NEW o \in DOMAIN Globals
  PROVE  Alone(GlobalsOf(o)) = GlobalsAlone(o)
<1>1. Globals[o] \notin DOMAIN Globals
  BY GlobalsAssumption
<1> QED
  BY <1>1 DEF Alone, GlobalsAlone, GlobalsOf

CacheTruth == \A r \in AllRequests : Key(r) \in DOMAIN cache => cache[Key(r)] = Alone(r)

\* What a thread carries through its call.
Carried(t) ==
  /\ pc[t] # "idle" => globals[t] \in {Pending, GlobalsAlone(want[t].object)}
  /\ pc[t] = "insert" => body[t] = Alone(Req(t))
  /\ pc[t] = "answered" => body[t] = Alone(want[t])

Values ==
  /\ globals \in [Threads -> Bodies \cup {Pending, None}]
  /\ body \in [Threads -> Bodies \cup {None}]

Truth == CacheTruth /\ Values /\ \A t \in Threads : Carried(t)

\* A decode that returns what a lone one would keeps what the threads carry.
LEMMA ReturnTruth ==
  ASSUME Typed, Nesting, Values, \A u \in Threads : Carried(u),
         NEW t \in Threads, pc[t] # "idle", Return(t, Alone(Req(t))), want' = want
  PROVE  Values' /\ \A u \in Threads : Carried(u)'
<1>1. Alone(Req(t)) \in Bodies
  BY ReqKnown DEF Bodies
<1>2. CASE nested[t]
  <2>1. Req(t) = GlobalsOf(want[t].object) /\ want[t].object \in DOMAIN Globals
    BY <1>2 DEF Req, Nesting
  <2>2. Alone(Req(t)) = GlobalsAlone(want[t].object)
    BY <2>1, GlobalsDecodeAlone
  <2>3. /\ globals' = [globals EXCEPT ![t] = Alone(Req(t))]
        /\ nested' = [nested EXCEPT ![t] = FALSE]
        /\ pc' = [pc EXCEPT ![t] = "decode"]
        /\ body' = body
    BY <1>2 DEF Return, Goto
  <2>4. Values'
    BY <1>1, <2>3 DEF Values
  <2>5. Carried(t)'
    BY <2>2, <2>3 DEF Carried, Values, Typed
  <2>6. ASSUME NEW u \in Threads, u # t PROVE Carried(u)'
    BY <2>3, <2>6 DEF Carried, Values, Typed, Req
  <2> QED
    BY <2>4, <2>5, <2>6
<1>3. CASE ~nested[t]
  <2>1. Req(t) = want[t]
    BY <1>3 DEF Req
  <2>2. /\ body' = [body EXCEPT ![t] = Alone(Req(t))]
        /\ pc' = [pc EXCEPT ![t] = "answered"]
        /\ UNCHANGED <<globals, nested>>
    BY <1>3 DEF Return, Goto
  <2>3. Values'
    BY <1>1, <2>2 DEF Values
  <2>4. Carried(t)'
    BY <2>1, <2>2 DEF Carried, Values, Typed
  <2>5. ASSUME NEW u \in Threads, u # t PROVE Carried(u)'
    BY <2>2, <2>5 DEF Carried, Values, Typed, Req
  <2> QED
    BY <2>3, <2>4, <2>5
<1> QED
  BY <1>2, <1>3 DEF Typed

\* The filters, given what the thread carries, yield what a lone decode does.
LEMMA FilterTruth ==
  ASSUME Typed, Nesting, NEW t \in Threads, Carried(t), Filter(t)
  PROVE  Filtered(Req(t), Given(t)) = Alone(Req(t))
<1>1. Req(t).object \notin Malformed /\ Req(t).object \notin Bare
  BY DEF Filter, AtOnce
<1>2. Given(t) = GlobalsAlone(Req(t).object)
  <2>1. CASE Req(t).object \notin DOMAIN Globals
    BY <2>1 DEF Given, GlobalsAlone
  <2>2. CASE Req(t).object \in DOMAIN Globals
    <3>1. ~nested[t]
      BY <2>2, GlobalsAssumption DEF Nesting, Req, GlobalsOf
    <3>2. Req(t) = want[t] /\ globals[t] # Pending /\ pc[t] = "decode"
      BY <2>2, <3>1 DEF Req, Filter
    <3> QED
      BY <2>2, <3>2 DEF Given, Carried
  <2> QED
    BY <2>1, <2>2
<1> QED
  BY <1>1, <1>2 DEF Alone, Decoded

THEOREM InitTruth == Init => Truth
<1> SUFFICES ASSUME Init PROVE Truth
  OBVIOUS
<1>1. DOMAIN cache = {}
  BY DEF Init
<1> QED
  BY <1>1 DEF Init, Truth, CacheTruth, Carried, Values

\* Every step keeps the cache and the threads at what lone calls decode.
THEOREM NextTruth == KeysTellApart /\ Shape /\ Truth /\ [Next]_vars => Truth'
<1> SUFFICES ASSUME KeysTellApart, Shape, Truth, [Next]_vars PROVE Truth'
  OBVIOUS
<1>0. /\ Typed /\ Nesting /\ CacheBounded
      /\ CacheTruth /\ Values /\ \A u \in Threads : Carried(u)
  BY DEF Shape, Truth
<1>1. ASSUME NEW t \in Threads, NEW r \in Requests, Call(t, r) PROVE Truth'
  <2>1. /\ want' = [want EXCEPT ![t] = r] /\ globals' = [globals EXCEPT ![t] = Pending]
        /\ body' = [body EXCEPT ![t] = None] /\ pc' = [pc EXCEPT ![t] = "lookup"]
        /\ cache' = cache /\ nested' = nested
    BY <1>1 DEF Call, Goto, shared
  <2>2. CacheTruth' /\ Values'
    BY <1>0, <2>1 DEF CacheTruth, Values
  <2>3. \A u \in Threads : Carried(u)'
    BY <1>0, <2>1 DEF Carried, Values, Typed, Req
  <2> QED
    BY <2>2, <2>3 DEF Truth
<1>2. ASSUME NEW t \in Threads, Hit(t) PROVE Truth'
  <2>1. cache[Key(Req(t))] = Alone(Req(t))
    BY <1>0, <1>2, ReqKnown DEF Hit, CacheTruth
  <2>2. Return(t, Alone(Req(t))) /\ pc[t] = "lookup" /\ want' = want /\ cache' = cache
    BY <1>2, <2>1 DEF Hit
  <2>3. Values' /\ \A u \in Threads : Carried(u)'
    BY <1>0, <2>2, ReturnTruth
  <2> QED
    BY <1>0, <2>2, <2>3 DEF Truth, CacheTruth
<1>3. ASSUME NEW t \in Threads, Miss(t) PROVE Truth'
  BY <1>0, <1>3 DEF Truth, CacheTruth, Carried, Values, Typed, Req, Miss, Goto, shared
<1>4. ASSUME NEW t \in Threads, DecodeAtOnce(t) PROVE Truth'
  <2>1. (IF Req(t).object \in Bare THEN Raw(Req(t).object) ELSE None) = Alone(Req(t))
    BY <1>4, StreamsAssumption DEF DecodeAtOnce, AtOnce, Alone, Decoded
  <2>2. Return(t, Alone(Req(t))) /\ pc[t] = "decode" /\ want' = want /\ cache' = cache
    BY <1>4, <2>1 DEF DecodeAtOnce, shared
  <2>3. Values' /\ \A u \in Threads : Carried(u)'
    BY <1>0, <2>2, ReturnTruth
  <2> QED
    BY <1>0, <2>2, <2>3 DEF Truth, CacheTruth
<1>5. ASSUME NEW t \in Threads, DecodeGlobals(t) PROVE Truth'
  BY <1>0, <1>5 DEF Truth, CacheTruth, Carried, Values, Typed, Req, DecodeGlobals, Goto, shared
<1>6. ASSUME NEW t \in Threads, Filter(t) PROVE Truth'
  <2>1. Filtered(Req(t), Given(t)) = Alone(Req(t))
    BY <1>0, <1>6, FilterTruth
  <2>2. pc[t] = "decode" /\ want' = want /\ cache' = cache
    BY <1>6 DEF Filter, shared
  <2>3. CASE /\ body' = [body EXCEPT ![t] = Alone(Req(t))]
             /\ Goto(t, "insert") /\ UNCHANGED <<nested, globals>>
    <3>1. Alone(Req(t)) \in Bodies
      BY <1>0, ReqKnown DEF Bodies
    <3>2. Values'
      BY <1>0, <2>3, <3>1 DEF Values
    <3>3. Req(t)' = Req(t)
      BY <2>2, <2>3 DEF Req
    <3>4. Carried(t)'
      BY <1>0, <2>2, <2>3, <3>3 DEF Carried, Values, Typed, Goto
    <3>5. ASSUME NEW u \in Threads, u # t PROVE Carried(u)'
      BY <1>0, <2>2, <2>3, <3>5 DEF Carried, Values, Typed, Goto, Req
    <3> QED
      BY <1>0, <2>2, <3>2, <3>4, <3>5 DEF Truth, CacheTruth
  <2>4. CASE Return(t, Alone(Req(t)))
    <3>1. Values' /\ \A u \in Threads : Carried(u)'
      BY <1>0, <2>2, <2>4, ReturnTruth
    <3> QED
      BY <1>0, <2>2, <3>1 DEF Truth, CacheTruth
  <2> QED
    BY <1>6, <2>1, <2>3, <2>4 DEF Filter
<1>7. ASSUME NEW t \in Threads, Insert(t) PROVE Truth'
  <2> DEFINE k == Key(Req(t))
             c == Evict(cache, order, capacity - 1)
  <2>1. body[t] = Alone(Req(t)) /\ Req(t) \in AllRequests
    BY <1>0, <1>7, ReqKnown DEF Insert, Carried
  <2>2. Return(t, Alone(Req(t))) /\ pc[t] = "insert" /\ want' = want
    BY <1>7, <2>1 DEF Insert
  <2>3. Values' /\ \A u \in Threads : Carried(u)'
    BY <1>0, <2>2, ReturnTruth
  <2>4. cache' = [j \in DOMAIN c \cup {k} |-> IF j = k THEN Alone(Req(t)) ELSE c[j]]
    BY <1>7, <2>1 DEF Insert
  <2>5. DOMAIN c \subseteq DOMAIN cache /\ \A j \in DOMAIN c : c[j] = cache[j]
    <3>1. capacity - 1 \in Nat
      BY <1>0 DEF Typed
    <3> QED
      BY <1>0, <3>1, EvictBounded
  <2> HIDE DEF c
  <2>6. ASSUME NEW r \in AllRequests, Key(r) \in DOMAIN cache'
        PROVE  cache'[Key(r)] = Alone(r)
    <3>1. CASE Key(r) = k
      BY <2>1, <2>4, <2>6, <3>1 DEF KeysTellApart
    <3>2. CASE Key(r) # k
      BY <1>0, <2>4, <2>5, <2>6, <3>2 DEF CacheTruth
    <3> QED
      BY <3>1, <3>2
  <2> QED
    BY <2>3, <2>6 DEF Truth, CacheTruth
<1>8. ASSUME NEW n \in Capacities, SetCapacity(n) PROVE Truth'
  <2> DEFINE cap == IF n = 0 THEN 1 ELSE n
  <2>1. cap \in Nat /\ cache' = Evict(cache, order, cap) /\ UNCHANGED local
    BY <1>8, CapacityAssumption DEF SetCapacity
  <2> HIDE DEF cap
  <2>2. DOMAIN cache' \subseteq DOMAIN cache /\ \A k \in DOMAIN cache' : cache'[k] = cache[k]
    BY <1>0, <2>1, EvictBounded
  <2> QED
    BY <1>0, <2>1, <2>2 DEF Truth, CacheTruth, Carried, Values, Req, local
<1>9. CASE Clear
  <2>1. DOMAIN cache' = {} /\ UNCHANGED local
    BY <1>9 DEF Clear
  <2> QED
    BY <1>0, <2>1 DEF Truth, CacheTruth, Carried, Values, Req, local
<1>10. CASE UNCHANGED vars
  BY <1>0, <1>10 DEF Truth, CacheTruth, Carried, Values, Req, vars, shared, local
<1> QED
  BY <1>1, <1>2, <1>3, <1>4, <1>5, <1>6, <1>7, <1>8, <1>9, <1>10 DEF Next, Step

\* If keys tell requests apart, a call of decode_stream gives what it would have
\* given alone, whatever the threads, the streams, the capacities and the requests.
THEOREM EachDecodesAlone ==
  ASSUME KeysTellApart
  PROVE  Spec => []DecodesAsAlone
<1>1. Shape /\ Truth => DecodesAsAlone
  BY DEF Truth, Carried, DecodesAsAlone
<1>2. Shape /\ Truth /\ [Next]_vars => Truth'
  BY NextTruth
<1> QED
  BY InitShape, NextShape, InitTruth, <1>1, <1>2, PTL DEF Spec

\* Type correctness; what is cached is always the bytes of some request.
THEOREM StreamCacheTypes ==
  ASSUME KeysTellApart
  PROVE  Spec => []TypeOK
<1>1. ASSUME Shape, Truth PROVE TypeOK
  <2>1. ASSUME NEW k \in DOMAIN cache PROVE cache[k] \in Bodies
    <3>1. PICK r \in AllRequests : k = Key(r)
      BY <1>1, <2>1 DEF Shape, Typed, Keys
    <3> QED
      BY <1>1, <2>1, <3>1 DEF Truth, CacheTruth, Bodies
  <2> QED
    BY <1>1, <2>1 DEF Shape, Typed, Truth, Values, TypeOK
<1>2. Shape /\ Truth /\ [Next]_vars => Truth'
  BY NextTruth
<1> QED
  BY InitShape, NextShape, InitTruth, <1>1, <1>2, PTL DEF Spec

---------------------------------------------------------------------------
(* Implementation of CallService.  The step of a call that sets pc to      *)
(* "answered" is the one that answers; the others do not show.             *)

Working == {"lookup", "decode", "insert"}

\* A step that changes only where t is in its call, and its bytes, answers or stutters.
LEMMA WorkSeen ==
  ASSUME Typed, Truth', NEW t \in Threads, NEW l \in Working \cup {"answered"},
         pc[t] \in Working, pc' = [pc EXCEPT ![t] = l], want' = want,
         \A u \in Threads : u # t => body'[u] = body[u]
  PROVE  Calls!Reply(t) \/ Seen' = Seen
<1>1. CASE l = "answered"
  <2>1. body'[t] = Alone(want[t]) /\ want[t] \in Requests
    BY <1>1 DEF Typed, Truth, Carried
  <2>2. AloneAnswers[want[t]] = Alone(want[t])
    BY <2>1 DEF AloneAnswers
  <2>3. Seen[t] = [step |-> "busy", request |-> want[t]]
    BY DEF Seen, Working
  <2>4. Seen' = [Seen EXCEPT ![t] = [step |-> "answered", request |-> want[t],
                                      answer |-> Alone(want[t])]]
    <3>1. Seen'[t] = [step |-> "answered", request |-> want[t], answer |-> Alone(want[t])]
      BY <1>1, <2>1 DEF Seen, Typed
    <3>2. ASSUME NEW u \in Threads, u # t PROVE Seen'[u] = Seen[u]
      BY <3>2 DEF Seen, Typed
    <3> QED
      BY <3>1, <3>2 DEF Seen
  <2>5. Seen[t].step = "busy" /\ Seen[t].request = want[t]
    BY <2>3
  <2>6. Seen' = [Seen EXCEPT ![t] = Calls!Answered(Seen[t].request, AloneAnswers[Seen[t].request])]
    BY <2>2, <2>4, <2>5 DEF Calls!Answered
  <2> QED
    BY <2>5, <2>6 DEF Calls!Reply
<1>2. CASE l \in Working
  <2>1. ASSUME NEW u \in Threads PROVE Seen'[u] = Seen[u]
    BY <1>2 DEF Seen, Typed, Working
  <2> QED
    BY <2>1 DEF Seen
<1> QED
  BY <1>1, <1>2

\* Return ends the call or goes on with the outer one.
LEMMA ReturnSeen ==
  ASSUME Typed, Truth', NEW t \in Threads, NEW value, Return(t, value),
         pc[t] \in Working, want' = want
  PROVE  Calls!Reply(t) \/ Seen' = Seen
<1>1. CASE nested[t]
  <2>1. pc' = [pc EXCEPT ![t] = "decode"] /\ body' = body
    BY <1>1 DEF Return, Goto
  <2> QED
    BY <2>1, WorkSeen DEF Working
<1>2. CASE ~nested[t]
  <2>1. pc' = [pc EXCEPT ![t] = "answered"] /\ body' = [body EXCEPT ![t] = value]
    BY <1>2 DEF Return, Goto
  <2>2. \A u \in Threads : u # t => body'[u] = body[u]
    BY <2>1 DEF Typed
  <2> QED
    BY <2>1, <2>2, WorkSeen DEF Working
<1> QED
  BY <1>1, <1>2

\* Every step of the threads is one of the service, or does not show.
LEMMA StepsServe ==
  ASSUME Shape, Truth, Truth', [Next]_vars
  PROVE  [Calls!Next]_Seen
<1>0. Typed
  BY DEF Shape
<1>1. ASSUME NEW t \in Threads, NEW r \in Requests, Call(t, r) PROVE Calls!Call(t, r)
  <2>1. /\ pc' = [pc EXCEPT ![t] = "lookup"] /\ want' = [want EXCEPT ![t] = r]
        /\ body' = [body EXCEPT ![t] = None] /\ pc[t] \in {"idle", "answered"}
    BY <1>1 DEF Call, Goto
  <2>2. Seen[t].step # "busy"
    BY <2>1 DEF Seen
  <2>3. Seen'[t] = [step |-> "busy", request |-> r]
    BY <1>0, <2>1 DEF Seen, Typed
  <2>4. ASSUME NEW u \in Threads, u # t PROVE Seen'[u] = Seen[u]
    BY <1>0, <2>1, <2>4 DEF Seen, Typed
  <2>5. Seen' = [Seen EXCEPT ![t] = [step |-> "busy", request |-> r]]
    BY <2>3, <2>4 DEF Seen
  <2> QED
    BY <2>2, <2>5 DEF Calls!Call, Calls!Busy
<1>2. ASSUME NEW t \in Threads, Step(t) PROVE Calls!Reply(t) \/ Seen' = Seen
  <2>1. CASE Hit(t)
    BY <1>0, <2>1, ReturnSeen DEF Hit, Working
  <2>2. CASE Miss(t)
    <3>1. pc' = [pc EXCEPT ![t] = "decode"] /\ body' = body /\ want' = want /\ pc[t] = "lookup"
      BY <2>2 DEF Miss, Goto
    <3> QED
      BY <1>0, <3>1, WorkSeen DEF Working
  <2>3. CASE DecodeAtOnce(t)
    BY <1>0, <2>3, ReturnSeen DEF DecodeAtOnce, Working
  <2>4. CASE DecodeGlobals(t)
    <3>1. pc' = [pc EXCEPT ![t] = "lookup"] /\ body' = body /\ want' = want /\ pc[t] = "decode"
      BY <2>4 DEF DecodeGlobals, Goto
    <3> QED
      BY <1>0, <3>1, WorkSeen DEF Working
  <2>5. CASE Filter(t)
    <3>1. want' = want /\ pc[t] = "decode"
      BY <2>5 DEF Filter
    <3>2. CASE Return(t, Filtered(Req(t), Given(t)))
      BY <1>0, <3>1, <3>2, ReturnSeen DEF Working
    <3>3. CASE /\ body' = [body EXCEPT ![t] = Filtered(Req(t), Given(t))]
               /\ pc' = [pc EXCEPT ![t] = "insert"]
      <4>1. \A u \in Threads : u # t => body'[u] = body[u]
        BY <1>0, <3>3 DEF Typed
      <4> QED
        BY <1>0, <3>1, <3>3, <4>1, WorkSeen DEF Working
    <3> QED
      BY <2>5, <3>2, <3>3 DEF Filter, Goto
  <2>6. CASE Insert(t)
    BY <1>0, <2>6, ReturnSeen DEF Insert, Working
  <2> QED
    BY <1>2, <2>1, <2>2, <2>3, <2>4, <2>5, <2>6 DEF Step
<1>3. ASSUME UNCHANGED local PROVE Seen' = Seen
  BY <1>3 DEF local, Seen
<1>4. ASSUME NEW n \in Capacities, SetCapacity(n) PROVE Seen' = Seen
  BY <1>3, <1>4 DEF SetCapacity
<1>5. CASE Clear
  BY <1>3, <1>5 DEF Clear
<1>6. CASE UNCHANGED vars
  BY <1>3, <1>6 DEF vars
<1> QED
  BY <1>1, <1>2, <1>4, <1>5, <1>6 DEF Next, Calls!Next

\* If keys tell requests apart, decode_stream is a function to its callers, whatever
\* the threads, the streams and the capacities: each call is one step of CallService.
THEOREM DecodeStreamIsAFunction ==
  ASSUME KeysTellApart
  PROVE  Spec => IsAFunction
<1>1. Init => Calls!Init
  BY DEF Init, Calls!Init, Calls!Idle, Seen
<1>2. Shape /\ Truth /\ [Next]_vars => Truth'
  BY NextTruth
<1>3. Shape /\ Truth /\ Truth' /\ [Next]_vars => [Calls!Next]_Seen
  BY StepsServe
<1> QED
  BY InitShape, NextShape, InitTruth, <1>1, <1>2, <1>3, PTL DEF Spec, IsAFunction, Calls!Spec

\* If keys tell requests apart, decode_stream's cache is well formed and bounded and
\* hands every caller the bytes it would have decoded alone.
THEOREM CacheStaysSound ==
  ASSUME KeysTellApart
  PROVE  Spec => []CacheSound
<1>1. TypeOK /\ CacheBounded /\ DecodesAsAlone => CacheSound
  BY DEF CacheSound
<1> QED
  BY <1>1, StreamCacheTypes, CacheStaysBounded, EachDecodesAlone, PTL

---------------------------------------------------------------------------
(***************************************************************************)
(* The order of use.  While no key was queued twice, the keys of the order *)
(* stand in it as they do in used, the history of lookups and insertions,  *)
(* where every key stands once, at its last use.                           *)
(***************************************************************************)
Once(q) == \A i, j \in DOMAIN q : q[i] = q[j] => i = j

Has(q, x) == \E i \in DOMAIN q : q[i] = x
Precedes(q, x, y) == \E i, j \in DOMAIN q : i < j /\ q[i] = x /\ q[j] = y

Follows(q, u) ==
  /\ \A i \in DOMAIN q : Has(u, q[i])
  /\ \A x, y \in Keys : Precedes(q, x, y) => Precedes(u, x, y)

Aged == Once(used) /\ (doubled \/ Follows(order, used))

LEMMA FollowsOnce ==
  ASSUME NEW q \in Seq(Keys), NEW u \in Seq(Keys), Once(u), Follows(q, u)
  PROVE  Once(q)
<1>1. ASSUME NEW i \in DOMAIN q, NEW j \in DOMAIN q, i < j, q[i] = q[j]
      PROVE  FALSE
  <2>1. q[i] \in Keys /\ Precedes(q, q[i], q[i])
    BY <1>1 DEF Precedes
  <2>2. Precedes(u, q[i], q[i])
    BY <2>1 DEF Follows
  <2> QED
    BY <2>2 DEF Precedes, Once
<1>2. \A i, j \in DOMAIN q : i < j \/ j < i \/ i = j
  OBVIOUS
<1> QED
  BY <1>1, <1>2 DEF Once

\* Taking out a key that stands once leaves the others in their order.
LEMMA WithoutOrder ==
  ASSUME NEW K, NEW q \in Seq(K), Once(q), NEW k, Has(q, k)
  PROVE  /\ \A i \in DOMAIN Without(q, k) : Without(q, k)[i] # k
         /\ Once(Without(q, k))
         /\ \A i \in DOMAIN Without(q, k) : Has(q, Without(q, k)[i])
         /\ \A x, y : x # k /\ y # k => (Precedes(q, x, y) <=> Precedes(Without(q, k), x, y))
<1> DEFINE n == CHOOSE j \in DOMAIN q : q[j] = k /\ \A h \in 1..j - 1 : q[h] # k
           a == SubSeq(q, 1, n - 1)
           b == SubSeq(q, n + 1, Len(q))
           w == Without(q, k)
<1>1. n \in DOMAIN q /\ q[n] = k
  BY FirstPosition DEF Has
<1>2. w = a \o b
  BY DEF Without, Has
<1> HIDE DEF n
<1>3. n \in 1..Len(q)
  BY <1>1
<1>4. /\ a \in Seq(K) /\ Len(a) = n - 1 /\ \A i \in 1..n - 1 : a[i] = q[i]
      /\ b \in Seq(K) /\ Len(b) = Len(q) - n /\ \A i \in 1..Len(q) - n : b[i] = q[n + i]
  BY <1>3
<1> HIDE DEF a, b, w
<1>5. w \in Seq(K) /\ Len(w) = Len(q) - 1
  <2>1. a \o b \in Seq(K) /\ Len(a \o b) = Len(a) + Len(b)
    BY <1>4, ConcatProperties
  <2>2. (n - 1) + (Len(q) - n) = Len(q) - 1
    BY <1>3
  <2> QED
    BY <1>2, <1>4, <2>1, <2>2
<1>6. \A i \in DOMAIN w : IF i < n THEN w[i] = q[i] ELSE w[i] = q[i + 1]
  <2> SUFFICES ASSUME NEW i \in DOMAIN w
               PROVE  IF i < n THEN w[i] = q[i] ELSE w[i] = q[i + 1]
    OBVIOUS
  <2>1. CASE i < n
    BY <1>2, <1>3, <1>4, <1>5, <2>1
  <2>2. CASE ~(i < n)
    <3>1. i - (n - 1) \in 1..Len(q) - n /\ n + (i - (n - 1)) = i + 1
      BY <1>3, <1>5, <2>2
    <3>2. w[i] = b[i - (n - 1)]
      BY <1>2, <1>3, <1>4, <1>5, <2>2
    <3> QED
      BY <1>4, <2>2, <3>1, <3>2
  <2> QED
    BY <2>1, <2>2
\* Where position i of the rest stood, and where position i of q stands in the rest.
<1> DEFINE From(i) == IF i < n THEN i ELSE i + 1
           To(i) == IF i < n THEN i ELSE i - 1
<1>7. \A i \in DOMAIN w : From(i) \in DOMAIN q /\ From(i) # n /\ w[i] = q[From(i)]
  BY <1>3, <1>5, <1>6
<1>8. \A i \in DOMAIN q : i # n => To(i) \in DOMAIN w /\ From(To(i)) = i
  BY <1>3, <1>5
<1>9. /\ \A i, j \in DOMAIN w : i < j => From(i) < From(j)
      /\ \A i, j \in DOMAIN w : From(i) = From(j) => i = j
      /\ \A i, j \in DOMAIN q : i # n /\ j # n /\ i < j => To(i) < To(j)
  BY <1>3, <1>5
<1> HIDE DEF From, To
<1>10. \A i \in DOMAIN w : w[i] # k
  BY <1>1, <1>7 DEF Once
<1>11. Once(w)
  BY <1>7, <1>9 DEF Once
<1>12. \A i \in DOMAIN w : Has(q, w[i])
  BY <1>7 DEF Has
<1>13. ASSUME NEW x, NEW y, x # k, y # k, Precedes(q, x, y)
       PROVE  Precedes(w, x, y)
  <2>1. PICK i, j \in DOMAIN q : i < j /\ q[i] = x /\ q[j] = y
    BY <1>13 DEF Precedes
  <2>2. i # n /\ j # n
    BY <1>1, <1>13, <2>1
  <2>3. To(i) \in DOMAIN w /\ To(j) \in DOMAIN w /\ To(i) < To(j) /\ w[To(i)] = x /\ w[To(j)] = y
    BY <1>7, <1>8, <1>9, <2>1, <2>2
  <2> QED
    BY <2>3 DEF Precedes
<1>14. ASSUME NEW x, NEW y, Precedes(w, x, y)
       PROVE  Precedes(q, x, y)
  BY <1>7, <1>9, <1>14 DEF Precedes
<1> QED
  BY <1>10, <1>11, <1>12, <1>13, <1>14 DEF w

\* A key that is used becomes the last, and leaves the others in their order.
LEMMA MovedOrder ==
  ASSUME NEW K, NEW q \in Seq(K), Once(q), NEW k \in K
  PROVE  /\ Once(Moved(q, k))
         /\ \A i \in DOMAIN Moved(q, k) : Moved(q, k)[i] = k \/ Has(q, Moved(q, k)[i])
         /\ Has(Moved(q, k), k)
         /\ \A x : Has(q, x) => Has(Moved(q, k), x)
         /\ \A x, y : Precedes(q, x, y) /\ x # k /\ y # k => Precedes(Moved(q, k), x, y)
         /\ \A x : Has(q, x) /\ x # k => Precedes(Moved(q, k), x, k)
         /\ \A x, y : Precedes(Moved(q, k), x, y) =>
              x # k /\ Has(q, x) /\ (y = k \/ Precedes(q, x, y))
<1> DEFINE w == Without(q, k)
           m == Append(w, k)
<1>1. /\ w \in Seq(K) /\ Once(w)
      /\ \A i \in DOMAIN w : w[i] # k /\ Has(q, w[i])
      /\ \A x, y : x # k /\ y # k => (Precedes(q, x, y) <=> Precedes(w, x, y))
      /\ \A i \in DOMAIN q : q[i] = k \/ Has(w, q[i])
  <2>1. CASE Has(q, k)
    BY <2>1, WithoutOrder, WithoutOne DEF Has
  <2>2. CASE ~Has(q, k)
    <3>1. w = q
      BY <2>2 DEF Has, Without
    <3> QED
      BY <2>2, <3>1 DEF Has
  <2> QED
    BY <2>1, <2>2
<1>2. Moved(q, k) = m
  BY DEF Moved
<1> HIDE DEF w
<1>3. /\ DOMAIN m = 1..Len(w) + 1 /\ DOMAIN w = 1..Len(w) /\ Len(w) \in Nat
      /\ \A i \in DOMAIN w : m[i] = w[i]
      /\ m[Len(w) + 1] = k
  BY <1>1
<1> HIDE DEF m
<1>4. \A i \in DOMAIN m : i \in DOMAIN w \/ i = Len(w) + 1
  BY <1>3
<1>5. Once(m)
  BY <1>1, <1>3, <1>4 DEF Once
<1>6. \A i \in DOMAIN m : m[i] = k \/ Has(q, m[i])
  BY <1>1, <1>3, <1>4
<1>7. Has(m, k)
  <2>1. Len(w) + 1 \in DOMAIN m
    BY <1>3
  <2> QED
    BY <1>3, <2>1 DEF Has
<1>8. DOMAIN w \subseteq DOMAIN m /\ \A i \in DOMAIN w : i < Len(w) + 1
  BY <1>3
<1>9. \A x : Has(w, x) => Has(m, x)
  BY <1>3, <1>8 DEF Has
<1>10. \A x, y : Precedes(w, x, y) => Precedes(m, x, y)
  BY <1>3, <1>8 DEF Precedes
<1>11. \A x : Has(w, x) => Precedes(m, x, k)
  <2>1. Len(w) + 1 \in DOMAIN m
    BY <1>3
  <2> QED
    BY <1>3, <1>8, <2>1 DEF Has, Precedes
<1>12. \A x : Has(q, x) => x = k \/ Has(w, x)
  BY <1>1 DEF Has
<1>13. ASSUME NEW x, NEW y, Precedes(m, x, y)
       PROVE  x # k /\ Has(q, x) /\ (y = k \/ Precedes(q, x, y))
  <2>1. PICK i, j \in DOMAIN m : i < j /\ m[i] = x /\ m[j] = y
    BY <1>13 DEF Precedes
  <2>2. i \in DOMAIN w /\ x # k /\ Has(q, x)
    BY <1>1, <1>3, <1>4, <2>1
  <2>3. CASE j \in DOMAIN w
    <3>1. w[i] = x /\ w[j] = y /\ y # k
      BY <1>1, <1>3, <2>1, <2>2, <2>3
    <3>2. Precedes(w, x, y)
      BY <2>1, <2>2, <2>3, <3>1 DEF Precedes
    <3> QED
      BY <1>1, <2>2, <3>1, <3>2
  <2>4. CASE j = Len(w) + 1
    BY <1>3, <2>1, <2>2, <2>4
  <2> QED
    BY <1>4, <2>2, <2>3, <2>4
<1> QED
  BY <1>1, <1>2, <1>5, <1>6, <1>7, <1>9, <1>10, <1>11, <1>12, <1>13

\* A use moves a key to the end of both.
LEMMA MovedFollows ==
  ASSUME NEW q \in Seq(Keys), NEW u \in Seq(Keys), NEW k \in Keys, Once(u), Follows(q, u)
  PROVE  Follows(Moved(q, k), Moved(u, k))
<1>1. Once(q)
  BY FollowsOnce
<1>2. \A i \in DOMAIN Moved(q, k) : Has(Moved(u, k), Moved(q, k)[i])
  <2> SUFFICES ASSUME NEW i \in DOMAIN Moved(q, k) PROVE Has(Moved(u, k), Moved(q, k)[i])
    OBVIOUS
  <2>1. Moved(q, k)[i] = k \/ Has(q, Moved(q, k)[i])
    BY <1>1, MovedOrder
  <2>2. Moved(q, k)[i] = k \/ Has(u, Moved(q, k)[i])
    BY <2>1 DEF Has, Follows
  <2> QED
    BY <2>2, MovedOrder
<1>3. ASSUME NEW x \in Keys, NEW y \in Keys, Precedes(Moved(q, k), x, y)
      PROVE  Precedes(Moved(u, k), x, y)
  <2>1. x # k /\ Has(q, x) /\ (y = k \/ Precedes(q, x, y))
    BY <1>1, <1>3, MovedOrder
  <2>2. CASE y = k
    <3>1. Has(u, x)
      BY <2>1 DEF Has, Follows
    <3> QED
      BY <2>1, <2>2, <3>1, MovedOrder
  <2>3. CASE y # k
    <3>1. Precedes(u, x, y)
      BY <2>1, <2>3 DEF Follows
    <3> QED
      BY <2>1, <2>3, <3>1, MovedOrder
  <2> QED
    BY <2>2, <2>3
<1> QED
  BY <1>2, <1>3 DEF Follows

LEMMA NewestFollows ==
  ASSUME NEW q \in Seq(Keys), NEW u \in Seq(Keys), NEW n \in Nat, Follows(q, u)
  PROVE  Follows(Newest(q, n), u)
<1>1. CASE Len(q) > n
  <2> DEFINE m == Len(q) - n
             s == SubSeq(q, m + 1, Len(q))
  <2>1. m \in Nat /\ m <= Len(q) /\ Len(q) - m = n
    BY <1>1
  <2>2. Newest(q, n) = s
    BY <1>1 DEF Newest
  <2>3. DOMAIN s = 1..n /\ \A i \in 1..n : s[i] = q[m + i]
    BY <2>1
  <2> HIDE DEF s
  <2>4. \A i \in 1..n : m + i \in DOMAIN q
    BY <2>1
  <2>5. \A i, j \in 1..n : i < j => m + i < m + j
    BY <2>1
  <2> HIDE DEF m
  <2>6. \A x, y : Precedes(s, x, y) => Precedes(q, x, y)
    BY <2>3, <2>4, <2>5 DEF Precedes
  <2> QED
    BY <2>2, <2>3, <2>4, <2>6 DEF Follows
<1>2. CASE ~(Len(q) > n)
  BY <1>2 DEF Newest
<1> QED
  BY <1>1, <1>2

LEMMA InitAged == Init => Aged
<1> SUFFICES ASSUME Init PROVE Aged
  OBVIOUS
<1>1. DOMAIN used = {} /\ DOMAIN order = {}
  BY DEF Init
<1> QED
  BY <1>1 DEF Aged, Once, Follows, Precedes

LEMMA NextAged == Shape /\ Aged /\ [Next]_vars => Aged'
<1> SUFFICES ASSUME Shape, Aged, [Next]_vars PROVE Aged'
  OBVIOUS
<1>0. Typed /\ Nesting /\ CacheBounded /\ order \in Seq(Keys) /\ used \in Seq(Keys)
  BY DEF Shape, Typed
<1>1. CASE UNCHANGED <<order, used, doubled>>
  BY <1>1 DEF Aged
<1>2. ASSUME NEW t \in Threads, Hit(t) PROVE Aged'
  <2> DEFINE k == Key(Req(t))
  <2>1. k \in Keys /\ k \in DOMAIN cache
    BY <1>0, <1>2, ReqKnown DEF Hit
  <2>2. order' = Moved(order, k) /\ used' = Moved(used, k) /\ doubled' = doubled
    BY <1>0, <1>2, <2>1 DEF Hit, CacheBounded
  <2> HIDE DEF k
  <2>3. Once(used')
    BY <1>0, <2>1, <2>2, MovedOrder DEF Aged
  <2>4. ~doubled => Follows(order', used')
    BY <1>0, <2>1, <2>2, MovedFollows DEF Aged
  <2> QED
    BY <2>2, <2>3, <2>4 DEF Aged
<1>3. ASSUME NEW t \in Threads, Insert(t) PROVE Aged'
  <2> DEFINE k == Key(Req(t))
             q == Newest(order, capacity - 1)
  <2>1. k \in Keys /\ capacity - 1 \in Nat
    BY <1>0, ReqKnown DEF Typed
  <2>2. order' = Append(q, k) /\ used' = Moved(used, k)
    BY <1>3 DEF Insert
  <2>3. doubled' = (doubled \/ \E i \in DOMAIN q : q[i] = k)
    BY <1>3 DEF Insert
  <2>4. q \in Seq(Keys)
    BY <1>0, <2>1, NewestMembers
  <2>5. Once(used')
    BY <1>0, <2>1, <2>2, MovedOrder DEF Aged
  <2>6. ASSUME ~doubled'
        PROVE  Follows(order', used')
    <3>1. ~doubled /\ ~\E i \in DOMAIN q : q[i] = k
      BY <1>0, <2>3, <2>6 DEF Typed
    <3>2. Follows(q, used)
      BY <1>0, <2>1, <3>1, NewestFollows DEF Aged
    <3>3. order' = Moved(q, k)
      BY <2>2, <3>1 DEF Moved, Without
    <3> HIDE DEF k, q
    <3> QED
      BY <1>0, <2>1, <2>2, <2>4, <3>2, <3>3, MovedFollows DEF Aged
  <2> QED
    BY <2>5, <2>6 DEF Aged
<1>4. ASSUME NEW n \in Capacities, SetCapacity(n) PROVE Aged'
  <2> DEFINE cap == IF n = 0 THEN 1 ELSE n
  <2>1. cap \in Nat
    BY CapacityAssumption
  <2>2. order' = Newest(order, cap) /\ UNCHANGED <<used, doubled>>
    BY <1>4 DEF SetCapacity
  <2> HIDE DEF cap
  <2>3. ~doubled => Follows(order', used)
    BY <1>0, <2>1, <2>2, NewestFollows DEF Aged
  <2> QED
    BY <2>2, <2>3 DEF Aged
<1>5. CASE Clear
  <2>1. DOMAIN used' = {} /\ DOMAIN order' = {}
    BY <1>5 DEF Clear
  <2> QED
    BY <2>1 DEF Aged, Once, Follows, Precedes
<1>6. CASE UNCHANGED vars
  BY <1>1, <1>6 DEF vars, shared
<1>7. ASSUME NEW t \in Threads, NEW r \in Requests, Call(t, r) PROVE Aged'
  BY <1>1, <1>7 DEF Call, shared
<1>8. ASSUME NEW t \in Threads, Miss(t) \/ DecodeAtOnce(t) \/ DecodeGlobals(t) \/ Filter(t)
      PROVE  Aged'
  BY <1>1, <1>8 DEF Miss, DecodeAtOnce, DecodeGlobals, Filter, shared
<1> QED
  BY <1>2, <1>3, <1>4, <1>5, <1>6, <1>7, <1>8 DEF Next, Step

\* What the front of the order loses was used before all that it keeps.
LEMMA DroppedFirst ==
  ASSUME Shape, Aged, ~doubled, NEW n \in Nat, NEW k \in DOMAIN cache, NEW j \in DOMAIN cache,
         k \in Dropped(order, n), j \notin Dropped(order, n)
  PROVE  LastUse(k) < LastUse(j)
<1>1. order \in Seq(Keys) /\ used \in Seq(Keys) /\ DOMAIN cache \subseteq Keys
  BY DEF Shape, Typed
<1>2. PICK i \in 1..Len(order) - n : order[i] = k
  BY DEF Dropped
<1>3. PICK h \in DOMAIN order : order[h] = j
  BY DEF Shape, CacheBounded
<1>4. i \in DOMAIN order /\ i < h
  <2>1. h \notin 1..Len(order) - n
    BY <1>3 DEF Dropped
  <2> QED
    BY <1>1, <1>2, <1>3, <2>1
<1>5. Precedes(used, k, j)
  <2>1. Precedes(order, k, j)
    BY <1>2, <1>3, <1>4 DEF Precedes
  <2> QED
    BY <1>1, <2>1 DEF Aged, Follows
<1>6. PICK a, b \in DOMAIN used : a < b /\ used[a] = k /\ used[b] = j
  BY <1>5 DEF Precedes
<1>7. LastUse(k) = a /\ LastUse(j) = b
  BY <1>6 DEF LastUse, Aged, Once
<1> QED
  BY <1>6, <1>7

LEMMA StepEvictsOldest ==
  Shape /\ Aged /\ [Next]_vars =>
    [~doubled => \A k \in Evicted, j \in Kept : LastUse(k) < LastUse(j)]_vars
<1> SUFFICES ASSUME Shape, Aged, [Next]_vars, ~doubled, NEW k \in Evicted, NEW j \in Kept
             PROVE  LastUse(k) < LastUse(j) \/ UNCHANGED vars
  OBVIOUS
<1>0. /\ k \in DOMAIN cache /\ k \notin DOMAIN cache'
      /\ j \in DOMAIN cache /\ j \in DOMAIN cache'
  BY DEF Evicted, Kept
<1>1. cache' # cache
  BY <1>0
<1>2. ASSUME NEW t \in Threads, Insert(t) PROVE LastUse(k) < LastUse(j)
  <2> DEFINE key == Key(Req(t))
             n == capacity - 1
             c == Evict(cache, order, n)
  <2>1. cache' = [x \in DOMAIN c \cup {key} |-> IF x = key THEN body[t] ELSE c[x]]
    BY <1>2 DEF Insert
  <2>2. DOMAIN c = DOMAIN cache \ Dropped(order, n)
    BY DEF Evict
  <2>3. n \in Nat /\ Len(order) - n <= 1 /\ order \in Seq(Keys)
    BY DEF Shape, Typed, CacheBounded
  <2> HIDE DEF c, key
  <2>4. DOMAIN cache' = DOMAIN c \cup {key}
    BY <2>1
  <2>5. k \in Dropped(order, n) /\ k # key
    BY <1>0, <2>2, <2>4
  <2>6. \A x \in Dropped(order, n) : x = order[1]
    <3>1. \A i \in 1..Len(order) - n : i = 1
      BY <2>3
    <3> QED
      BY <3>1 DEF Dropped
  <2>7. j \notin Dropped(order, n)
    BY <1>0, <2>2, <2>4, <2>5, <2>6
  <2> HIDE DEF n
  <2> QED
    BY <1>0, <2>3, <2>5, <2>7, DroppedFirst
<1>3. ASSUME NEW n \in Capacities, SetCapacity(n) PROVE LastUse(k) < LastUse(j)
  <2> DEFINE cap == IF n = 0 THEN 1 ELSE n
  <2>1. cap \in Nat
    BY CapacityAssumption
  <2>2. cache' = Evict(cache, order, cap)
    BY <1>3 DEF SetCapacity
  <2> HIDE DEF cap
  <2>3. DOMAIN cache' = DOMAIN cache \ Dropped(order, cap)
    BY <2>2 DEF Evict
  <2> QED
    BY <1>0, <2>1, <2>3, DroppedFirst
<1>4. ~Clear
  BY <1>0 DEF Clear
<1>5. ASSUME NEW t \in Threads, NEW r \in Requests PROVE ~Call(t, r)
  BY <1>1 DEF Call, shared
<1>6. ASSUME NEW t \in Threads
      PROVE  ~(Hit(t) \/ Miss(t) \/ DecodeAtOnce(t) \/ DecodeGlobals(t) \/ Filter(t))
  BY <1>1 DEF Hit, Miss, DecodeAtOnce, DecodeGlobals, Filter, shared
<1> QED
  BY <1>2, <1>3, <1>4, <1>5, <1>6 DEF Next, Step

\* As long as no key was queued twice, the cache is the LRU cache that its comment says
\* it is, for any streams and capacities: what an insertion or a lower capacity evicts was
\* used before all that stays.
THEOREM EvictionTakesTheOldest == Spec => EvictsOldest
<1> QED
  BY InitShape, NextShape, InitAged, NextAged, StepEvictsOldest, PTL DEF Spec, EvictsOldest
============================================================================
