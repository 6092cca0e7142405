---------------------------- MODULE StreamCache ----------------------------
(***************************************************************************)
(* decode_stream of src/nanopdf.cc, both overloads, called by several      *)
(* threads on one parsed Pdf: the cache of decoded streams, its key, its   *)
(* order of use and the decode of JBIG2 globals inside a decode.           *)
(* cache_mutex is held for one lookup or one insertion at a time; the      *)
(* filters run between the two, without it.                                *)
(*                                                                         *)
(* Decoded bytes are identified by what the filters were given: the        *)
(* stream, the parameters rows and columns, and the globals.               *)
(***************************************************************************)
EXTENDS Integers, Sequences

CONSTANTS
  Threads,
  Streams,        \* object numbers, not zero
  Bare,           \* streams without a Filter
  Malformed,      \* streams whose Filter or DecodeParms is of a wrong type
  Broken,         \* streams whose filters fail
  Fax,            \* streams with a CCITTFaxDecode filter
  Dictionary,     \* [Streams -> what DecodeParms says of rows and columns]
  Globals,        \* a JBIG2 stream -> the stream its JBIG2Globals refers to
  Requests,       \* [object, dims, keep] that callers pass
  Capacities,     \* what callers pass to set_decoded_stream_cache_capacity
  DefaultCapacity,
  Absent,         \* DecodeParms does not say
  None,           \* a failed decode
  Pending         \* the globals are not decoded yet

NoDims == [width |-> 0, height |-> 0]    \* the overload without dimensions
Dims == [width : Nat, height : Nat]

ASSUME StreamsAssumption ==
  /\ Bare \intersect Malformed = {}
  /\ Bare \subseteq Streams /\ Malformed \subseteq Streams
  /\ Broken \subseteq Streams /\ Fax \subseteq Streams
  /\ Dictionary \in [Streams -> [rows : Nat \cup {Absent}, columns : Nat \cup {Absent}]]
\* The globals of an image have no globals of their own.
ASSUME GlobalsAssumption ==
  /\ DOMAIN Globals \subseteq Streams
  /\ \A o \in DOMAIN Globals : Globals[o] \in Streams \ DOMAIN Globals
ASSUME RequestsAssumption ==
  Requests \subseteq [object : Streams, dims : Dims, keep : BOOLEAN]
ASSUME CapacityAssumption ==
  Capacities \subseteq Nat /\ DefaultCapacity \in Nat \ {0}
ASSUME SentinelAssumption == Absent \notin Nat /\ None # Pending

VARIABLES
  cache,       \* decoded_stream_cache: key -> decoded bytes
  order,       \* decoded_stream_cache_order, the next to be evicted first
  capacity,    \* decoded_stream_cache_capacity
  pc,          \* what each thread does next
  want,        \* the request it was called with
  nested,      \* TRUE while it decodes the globals of that request
  globals,     \* what that gave
  body,        \* the bytes it has decoded, or its answer
  used,        \* keys, least recently looked up or inserted first
  doubled      \* a key was queued that was in the order already

shared == <<cache, order, capacity, used, doubled>>
local == <<pc, want, nested, globals, body>>
vars == <<shared, local>>

PCs == {"idle", "lookup", "decode", "insert", "answered"}

Key_NoDims(r) == <<r.object, 0>>         \* mutant: dimensions are not in the key

\* make_decoded_stream_cache_key, without the generation: sixteen bits of dimensions.
Key(r) ==
  <<r.object, IF r.dims.width > 0 \/ r.dims.height > 0
                THEN (r.dims.width * 31 + r.dims.height) % 65536 ELSE 0>>

\* parse_decode_params and the defaults of DecodeParams.
Parsed(o) ==
  [rows |-> IF Dictionary[o].rows = Absent THEN 0 ELSE Dictionary[o].rows,
   columns |-> IF Dictionary[o].columns = Absent THEN 1 ELSE Dictionary[o].columns]

\* "Fix CCITT parameters if image dimensions are provided".
Fixed(n, d) == IF n = 0 /\ d > 0 THEN d ELSE n

Params(r) ==
  LET p == Parsed(r.object) IN
  IF r.object \in Fax
    THEN [rows |-> Fixed(p.rows, r.dims.height), columns |-> Fixed(p.columns, r.dims.width)]
    ELSE p

Raw(o) == [stream |-> o]

\* The filters, applied to the stream with these globals.
Filtered(r, g) ==
  IF r.object \in Broken THEN None
  ELSE [stream |-> r.object, params |-> Params(r), globals |-> g]

\* The decode_stream that a thread is in: the inner one is always cached.
GlobalsOf(o) == [object |-> Globals[o], dims |-> NoDims, keep |-> TRUE]
Req(t) == IF nested[t] THEN GlobalsOf(want[t].object) ELSE want[t]

Init ==
  /\ cache = <<>>
  /\ order = <<>>
  /\ capacity = DefaultCapacity
  /\ pc = [t \in Threads |-> "idle"]
  /\ want \in [Threads -> Requests]
  /\ nested = [t \in Threads |-> FALSE]
  /\ globals = [t \in Threads |-> Pending]
  /\ body = [t \in Threads |-> None]
  /\ used = <<>>
  /\ doubled = FALSE

Goto(t, l) == pc' = [pc EXCEPT ![t] = l]

\* The first occurrence of k taken out of q.
Without(q, k) ==
  IF \E i \in DOMAIN q : q[i] = k
    THEN LET i == CHOOSE j \in DOMAIN q : q[j] = k /\ \A h \in 1..j - 1 : q[h] # k
         IN  SubSeq(q, 1, i - 1) \o SubSeq(q, i + 1, Len(q))
    ELSE q

Moved(q, k) == Append(Without(q, k), k)

\* Evict from the front until at most n keys are queued.
Newest(q, n) == IF Len(q) > n THEN SubSeq(q, Len(q) - n + 1, Len(q)) ELSE q
Dropped(q, n) == {q[i] : i \in 1..Len(q) - n}
Evict(c, q, n) == [k \in DOMAIN c \ Dropped(q, n) |-> c[k]]

\* A decode ends.  That of the globals gives its bytes, or none, to the outer one.
Return(t, value) ==
  IF nested[t]
    THEN /\ globals' = [globals EXCEPT ![t] = value]
         /\ nested' = [nested EXCEPT ![t] = FALSE]
         /\ Goto(t, "decode")
         /\ UNCHANGED body
    ELSE /\ body' = [body EXCEPT ![t] = value]
         /\ Goto(t, "answered")
         /\ UNCHANGED <<globals, nested>>

Call(t, r) ==
  /\ pc[t] \in {"idle", "answered"}
  /\ want' = [want EXCEPT ![t] = r]
  /\ globals' = [globals EXCEPT ![t] = Pending]
  /\ body' = [body EXCEPT ![t] = None]
  /\ Goto(t, "lookup")
  /\ UNCHANGED <<shared, nested>>

Hit_Unmoved(t) ==                  \* mutant: a hit leaves the order alone
  LET k == Key(Req(t)) IN
  /\ pc[t] = "lookup"
  /\ Req(t).keep /\ k \in DOMAIN cache
  /\ used' = Moved(used, k)
  /\ Return(t, cache[k])
  /\ UNCHANGED <<cache, order, capacity, doubled, want>>

\* A hit moves the first occurrence of the key to the back of the order.
Hit(t) ==
  LET k == Key(Req(t)) IN
  /\ pc[t] = "lookup"
  /\ Req(t).keep /\ k \in DOMAIN cache
  /\ order' = IF \E i \in DOMAIN order : order[i] = k THEN Moved(order, k) ELSE order
  /\ used' = Moved(used, k)
  /\ Return(t, cache[k])
  /\ UNCHANGED <<cache, capacity, doubled, want>>

\* cache_result = false, or object number zero, never looks.
Miss(t) ==
  /\ pc[t] = "lookup"
  /\ ~(Req(t).keep /\ Key(Req(t)) \in DOMAIN cache)
  /\ Goto(t, "decode")
  /\ UNCHANGED <<shared, want, nested, globals, body>>

\* Without a Filter the bytes are returned as they are; neither they nor the
\* failure of a malformed dictionary are cached.
AtOnce == Bare \cup Malformed

DecodeAtOnce(t) ==
  /\ pc[t] = "decode"
  /\ Req(t).object \in AtOnce
  /\ Return(t, IF Req(t).object \in Bare THEN Raw(Req(t).object) ELSE None)
  /\ UNCHANGED <<shared, want>>

\* JBIG2Globals is resolved and decoded before the filters are applied.
DecodeGlobals(t) ==
  /\ pc[t] = "decode"
  /\ Req(t).object \in DOMAIN Globals \ AtOnce
  /\ globals[t] = Pending
  /\ nested' = [nested EXCEPT ![t] = TRUE]
  /\ Goto(t, "lookup")
  /\ UNCHANGED <<shared, want, globals, body>>

\* What the filters of the current decode get as globals: none unless it has some.
Given(t) == IF Req(t).object \in DOMAIN Globals THEN globals[t] ELSE None

(***************************************************************************)
(* The filters run.  A failure is returned and not cached; the body of the *)
(* inner decode is held in body until it is inserted.                      *)
(***************************************************************************)
Filter(t) ==
  LET b == Filtered(Req(t), Given(t)) IN
  /\ pc[t] = "decode"
  /\ Req(t).object \notin AtOnce
  /\ Req(t).object \in DOMAIN Globals => globals[t] # Pending
  /\ IF b # None /\ Req(t).keep
       THEN /\ body' = [body EXCEPT ![t] = b]
            /\ Goto(t, "insert")
            /\ UNCHANGED <<nested, globals>>
       ELSE Return(t, b)
  /\ UNCHANGED <<shared, want>>

Insert_NoQueue(t) ==               \* mutant: a key that is cached already is not queued
  LET k == Key(Req(t))
      c == Evict(cache, order, capacity - 1)
  IN
  /\ pc[t] = "insert"
  /\ cache' = [j \in DOMAIN c \cup {k} |-> IF j = k THEN body[t] ELSE c[j]]
  /\ order' = IF k \in DOMAIN cache THEN Newest(order, capacity - 1)
                                   ELSE Append(Newest(order, capacity - 1), k)
  /\ used' = Moved(used, k)
  /\ doubled' = (doubled \/ \E i \in DOMAIN order' : i < Len(order') /\ order'[i] = k)
  /\ Return(t, body[t])
  /\ UNCHANGED <<capacity, want>>

(***************************************************************************)
(* Evict from the front while the order is at capacity, then cache the     *)
(* bytes.  The key is queued even if another thread has inserted it since  *)
(* this one missed it.                                                     *)
(***************************************************************************)
Insert(t) ==
  LET k == Key(Req(t))
      c == Evict(cache, order, capacity - 1)
      q == Newest(order, capacity - 1)
  IN
  /\ pc[t] = "insert"
  /\ cache' = [j \in DOMAIN c \cup {k} |-> IF j = k THEN body[t] ELSE c[j]]
  /\ order' = Append(q, k)
  /\ used' = Moved(used, k)
  /\ doubled' = (doubled \/ \E i \in DOMAIN q : q[i] = k)
  /\ Return(t, body[t])
  /\ UNCHANGED <<capacity, want>>

SetCapacity(n) ==
  LET cap == IF n = 0 THEN 1 ELSE n IN
  /\ capacity' = cap
  /\ order' = Newest(order, cap)
  /\ cache' = Evict(cache, order, cap)
  /\ UNCHANGED <<used, doubled, local>>

Clear ==
  /\ cache' = <<>>
  /\ order' = <<>>
  /\ used' = <<>>
  /\ doubled' = FALSE
  /\ UNCHANGED <<capacity, local>>

Step(t) ==
  \/ Hit(t) \/ Miss(t) \/ DecodeAtOnce(t) \/ DecodeGlobals(t) \/ Filter(t) \/ Insert(t)

Next ==
  \/ \E t \in Threads : Step(t) \/ \E r \in Requests : Call(t, r)
  \/ \E n \in Capacities : SetCapacity(n)
  \/ Clear

Spec == Init /\ [][Next]_vars

---------------------------------------------------------------------------
\* What a request decodes to in a document that nobody else uses, nothing cached.
Decoded(r, g) ==
  IF r.object \in Malformed THEN None
  ELSE IF r.object \in Bare THEN Raw(r.object) ELSE Filtered(r, g)

GlobalsAlone(o) == IF o \in DOMAIN Globals THEN Decoded(GlobalsOf(o), None) ELSE None

Alone(r) == Decoded(r, GlobalsAlone(r.object))

AllRequests == Requests \cup {GlobalsOf(o) : o \in DOMAIN Globals}
Keys == {Key(r) : r \in AllRequests}
Bodies == {Alone(r) : r \in AllRequests}

TypeOK ==
  /\ DOMAIN cache \subseteq Keys /\ \A k \in DOMAIN cache : cache[k] \in Bodies
  /\ order \in Seq(Keys)
  /\ capacity \in Nat \ {0}
  /\ pc \in [Threads -> PCs]
  /\ want \in [Threads -> Requests]
  /\ nested \in [Threads -> BOOLEAN]
  /\ globals \in [Threads -> Bodies \cup {Pending, None}]
  /\ body \in [Threads -> Bodies \cup {None}]
  /\ used \in Seq(Keys)
  /\ doubled \in BOOLEAN

\* The key tells two requests apart whenever they decode to different bytes.
KeysTellApart == \A r, s \in AllRequests : Key(r) = Key(s) => Alone(r) = Alone(s)

\* Whatever other threads decode, cache, evict or clear in between, a call of
\* decode_stream gives what it would have given alone: keys do not confuse streams
\* nor dimensions, failures and missing globals are not cached.
DecodesAsAlone == \A t \in Threads : pc[t] = "answered" => body[t] = Alone(want[t])

\* Two threads may decode the same stream and both insert it, which queues its key
\* twice; still every entry of the cache can be evicted, and the order is never
\* longer than the capacity, so that the cache is not larger either.
CacheBounded ==
  /\ \A k \in DOMAIN cache : \E i \in DOMAIN order : order[i] = k
  /\ Len(order) <= capacity

\* What threads share stays within its bound, and what they are given is right.
CacheSound == TypeOK /\ CacheBounded /\ DecodesAsAlone

\* "Decoded stream cache (LRU)": whatever leaves the cache was used less recently
\* than all that stays, as long as no key was queued twice.  (A key queued twice is
\* evicted with its first occurrence, even if it was the last one used.)
LastUse(k) == CHOOSE i \in DOMAIN used : used[i] = k
Evicted == DOMAIN cache \ DOMAIN cache'
Kept == DOMAIN cache \intersect DOMAIN cache'
EvictsOldest ==
  [][~doubled => \A k \in Evicted, j \in Kept : LastUse(k) < LastUse(j)]_vars

AloneAnswers == [r \in Requests |-> Alone(r)]

\* To its callers decode_stream is a function: whatever threads decode, cache and evict
\* at once, each call is one step between its request and the answer it gets alone.
Seen ==
  [t \in Threads |->
    IF pc[t] = "idle" THEN [step |-> "idle"]
    ELSE IF pc[t] = "answered"
      THEN [step |-> "answered", request |-> want[t], answer |-> body[t]]
    ELSE [step |-> "busy", request |-> want[t]]]

Calls == INSTANCE CallService WITH
           Callers <- Threads, Answers <- AloneAnswers, calls <- Seen
IsAFunction == Calls!Spec
============================================================================
