---------------------------- MODULE ObjectStore ----------------------------
(***************************************************************************)
(* Pdf::load_object and Pdf::load_object_from_stream of src/nanopdf.cc,    *)
(* called by several threads on one Pdf.  cache_mutex is held for single   *)
(* accesses only: every action that touches shared state is one critical   *)
(* section, and between two of them other threads run.  The build of the   *)
(* index is module XrefIndex, run by the thread that claimed it.           *)
(*                                                                         *)
(* The body that revision s wrote for an object is identified by s.  The   *)
(* compressed objects of revision s are in the object stream StreamOf[s].  *)
(***************************************************************************)
EXTENDS XrefIndex

CONSTANTS
  Threads,
  StreamOf,       \* [Offsets -> Objects]
  Undecodable,    \* revisions whose object stream cannot be decoded
  Large,          \* objects that should_cache_resolved_object turns down
  Capacities,     \* what callers pass to set_object_stream_cache_capacity
  DefaultCapacity,
  Early           \* objects asked for before parse_pdf has built the index

ASSUME StreamOfAssumption == StreamOf \in [Offsets -> Objects]
\* Object streams are not themselves compressed.
ASSUME StreamsArePlain == \A f \in Files, s, r \in Offsets :
  f.section[s].entry[StreamOf[r]] # "c"
ASSUME CapacityAssumption ==
  Capacities \subseteq Nat /\ DefaultCapacity \in Nat \ {0}
ASSUME EarlyAssumption == Early \subseteq Objects

VARIABLES
  object_cache,   \* object -> revision
  stream_cache,   \* object_stream_cache: stream object -> revision
  stream_order,   \* object_stream_cache_order, least recently used first
  capacity,       \* object_stream_cache_capacity
  pc,             \* what each thread does next
  want,           \* the object a thread was asked for
  nested,         \* TRUE while it loads the stream that holds that object
  entry,          \* revision of the object_stream_entries record it copied
  body,           \* revision of the bytes it holds
  raced           \* a call was made before the index was built

caches == <<object_cache, stream_cache, stream_order, capacity>>
local == <<pc, want, nested, entry, body>>
vars == <<xref, caches, local, raced>>

PCs == {"idle", "lookup", "claim", "build", "find", "entry", "stream",
        "insert", "store", "answered"}

Init ==
  /\ IndexInit
  /\ object_cache = <<>>
  /\ stream_cache = <<>>
  /\ stream_order = <<>>
  /\ capacity = DefaultCapacity
  /\ pc = [t \in Threads |-> "idle"]
  /\ want \in [Threads -> Objects]
  /\ nested = [t \in Threads |-> FALSE]
  /\ entry = [t \in Threads |-> None]
  /\ body = [t \in Threads |-> None]
  /\ raced = FALSE

Goto(t, l) == pc' = [pc EXCEPT ![t] = l]

\* The object the current load_object frame of t is about.
Target(t) == IF nested[t] THEN StreamOf[entry[t]] ELSE want[t]

(***************************************************************************)
(* load_object has a value, or None for a failure.  The outer call answers *)
(* its caller; the inner one goes on in load_object_from_stream, which     *)
(* fails when the stream object could not be loaded.                       *)
(***************************************************************************)
Return(t, value) ==
  /\ body' = [body EXCEPT ![t] = value]
  /\ IF nested[t] /\ value # None
       THEN Goto(t, "stream") /\ UNCHANGED nested
       ELSE Goto(t, "answered") /\ nested' = [nested EXCEPT ![t] = FALSE]

\* parse_pdf builds the index before it hands the document to its caller; a thread
\* that was given the document earlier races with the build.
Call(t, o) ==
  /\ pc[t] \in {"idle", "answered"}
  /\ phase = "over" \/ o \in Early
  /\ raced' = (raced \/ phase # "over")
  /\ want' = [want EXCEPT ![t] = o]
  /\ Goto(t, "lookup")
  /\ entry' = [entry EXCEPT ![t] = None]
  /\ body' = [body EXCEPT ![t] = None]
  /\ UNCHANGED <<xref, caches, nested>>

\* The first critical section: a cached object is returned at once.
Lookup(t) ==
  /\ pc[t] = "lookup"
  /\ IF Target(t) \in DOMAIN object_cache
       THEN Return(t, object_cache[Target(t)])
       ELSE Goto(t, "claim") /\ UNCHANGED <<nested, body>>
  /\ UNCHANGED <<xref, caches, want, entry, raced>>

\* Mutants: the claim leaves no mark; callers wait for a published index.
ClaimBuild_Unmarked(t) ==
  /\ pc[t] = "claim"
  /\ \/ ~built /\ phase' = "claimed" /\ Goto(t, "build")
        /\ UNCHANGED <<file, worklist, visited, offsets, entries, any_entries,
                       root, size, built, failed>>
     \/ built /\ Goto(t, "find") /\ UNCHANGED xref
  /\ UNCHANGED <<caches, want, nested, entry, body, raced>>

ClaimBuild_Waits(t) ==
  /\ pc[t] = "claim"
  /\ \/ Claim /\ Goto(t, "build")
     \/ built /\ Goto(t, "find") /\ UNCHANGED xref
  /\ UNCHANGED <<caches, want, nested, entry, body, raced>>

\* Build the index, unless somebody has built it, failed to, or is building.
ClaimBuild(t) ==
  /\ pc[t] = "claim"
  /\ \/ Claim /\ Goto(t, "build")
     \/ (built \/ failed) /\ Goto(t, "find") /\ UNCHANGED xref
  /\ UNCHANGED <<caches, want, nested, entry, body, raced>>

\* load_document_structure claims the build in the same way.
ParseClaims ==
  /\ phase = "idle"
  /\ Claim
  /\ UNCHANGED <<caches, local, raced>>

\* One step of the build; its beginning also clears object_stream_cache.
BuildRuns ==
  /\ BuildStep
  /\ IF phase = "claimed"
       THEN stream_cache' = <<>> /\ stream_order' = <<>>
       ELSE UNCHANGED <<stream_cache, stream_order>>
  /\ UNCHANGED <<object_cache, capacity, local, raced>>

BuildDone(t) ==
  /\ pc[t] = "build"
  /\ phase = "over"
  /\ Goto(t, "find")
  /\ UNCHANGED <<xref, caches, want, nested, entry, body, raced>>

\* object_offsets is read only when it was published.
Find(t) ==
  /\ pc[t] = "find"
  /\ IF built /\ Target(t) \in DOMAIN offsets
       THEN Goto(t, "store") /\ body' = [body EXCEPT ![t] = offsets[Target(t)]]
       ELSE Goto(t, "entry") /\ UNCHANGED body
  /\ UNCHANGED <<xref, caches, want, nested, entry, raced>>

(***************************************************************************)
(* object_stream_entries is read whether or not the index was published.   *)
(* An object that is in neither is looked for in the bytes of the file.    *)
(***************************************************************************)
FindEntry(t) ==
  /\ pc[t] = "entry"
  /\ IF Target(t) \in DOMAIN entries
       THEN /\ entry' = [entry EXCEPT ![t] = entries[Target(t)]]
            /\ nested' = [nested EXCEPT ![t] = TRUE]
            /\ Goto(t, "lookup")
            /\ UNCHANGED body
       ELSE /\ UNCHANGED entry
            /\ IF ScanFirst(Target(t)) = None
                 THEN Return(t, None)
                 ELSE /\ body' = [body EXCEPT ![t] = ScanFirst(Target(t))]
                      /\ Goto(t, "store")
                      /\ UNCHANGED nested
  /\ UNCHANGED <<xref, caches, want, raced>>

\* touch_cache_entry and the eviction that follows it.
Without(q, k) ==
  IF \E i \in DOMAIN q : q[i] = k
    THEN LET i == CHOOSE j \in DOMAIN q : q[j] = k /\ \A h \in 1..j - 1 : q[h] # k
         IN  SubSeq(q, 1, i - 1) \o SubSeq(q, i + 1, Len(q))
    ELSE q

Trim(q, cap) == IF Len(q) > cap THEN SubSeq(q, Len(q) - cap + 1, Len(q)) ELSE q

Evicted(q, cap) == {q[i] : i \in 1..Len(q) - Len(Trim(q, cap))}

Drop(c, K) == [k \in DOMAIN c \ K |-> c[k]]

Extract_Unchecked(o, k, r) == r        \* mutant: the header of the stream is not searched

\* The object o, taken from revision r of the stream k that should hold it.
Extract(o, k, r) == IF Compressed(r, o) /\ StreamOf[r] = k THEN r ELSE None

Extracted(t, r) ==
  LET o == Extract(want[t], Target(t), r) IN
  /\ body' = [body EXCEPT ![t] = o]
  /\ Goto(t, IF o = None THEN "answered" ELSE "store")

\* A hit in object_stream_cache: the decoded bytes are copied under the lock.
StreamHit(t) ==
  LET k == Target(t)
      q == Append(Without(stream_order, k), k)
  IN
  /\ pc[t] = "stream"
  /\ k \in DOMAIN stream_cache
  /\ stream_order' = Trim(q, capacity)
  /\ stream_cache' = Drop(stream_cache, Evicted(q, capacity))
  /\ Extracted(t, stream_cache[k])
  /\ nested' = [nested EXCEPT ![t] = FALSE]
  /\ UNCHANGED <<xref, object_cache, capacity, want, entry, raced>>

\* A miss: decode_stream runs without the lock, and may fail.
StreamMiss(t) ==
  /\ pc[t] = "stream"
  /\ Target(t) \notin DOMAIN stream_cache
  /\ IF body[t] \in Undecodable
       THEN /\ body' = [body EXCEPT ![t] = None]
            /\ nested' = [nested EXCEPT ![t] = FALSE]
            /\ Goto(t, "answered")
       ELSE Goto(t, "insert") /\ UNCHANGED <<body, nested>>
  /\ UNCHANGED <<xref, caches, want, entry, raced>>

InsertStream_NoOrder(t) ==          \* mutant: the key is cached but not queued
  LET k == Target(t) IN
  /\ pc[t] = "insert"
  /\ stream_cache' = [j \in DOMAIN stream_cache \cup {k} |->
                        IF j \in DOMAIN stream_cache THEN stream_cache[j] ELSE body[t]]
  /\ Extracted(t, body[t])
  /\ nested' = [nested EXCEPT ![t] = FALSE]
  /\ UNCHANGED <<xref, object_cache, stream_order, capacity, want, entry, raced>>

(***************************************************************************)
(* The decoded stream is cached, unless another thread has cached one      *)
(* meanwhile (emplace); its key is appended to the order either way.       *)
(***************************************************************************)
InsertStream(t) ==
  LET k == Target(t)
      q == Append(stream_order, k)
      c == [j \in DOMAIN stream_cache \cup {k} |->
              IF j \in DOMAIN stream_cache THEN stream_cache[j] ELSE body[t]]
  IN
  /\ pc[t] = "insert"
  /\ stream_order' = Trim(q, capacity)
  /\ stream_cache' = Drop(c, Evicted(q, capacity))
  /\ Extracted(t, body[t])
  /\ nested' = [nested EXCEPT ![t] = FALSE]
  /\ UNCHANGED <<xref, object_cache, capacity, want, entry, raced>>

\* The last critical section: the object is cached and returned.
Store(t) ==
  /\ pc[t] = "store"
  /\ object_cache' =
       IF Target(t) \in Large THEN object_cache
       ELSE [o \in DOMAIN object_cache \cup {Target(t)} |->
               IF o = Target(t) THEN body[t] ELSE object_cache[o]]
  /\ Return(t, body[t])
  /\ UNCHANGED <<xref, stream_cache, stream_order, capacity, want, entry, raced>>

SetCapacity(n) ==
  LET cap == IF n = 0 THEN 1 ELSE n IN
  /\ capacity' = cap
  /\ stream_order' = Trim(stream_order, cap)
  /\ stream_cache' = Drop(stream_cache, Evicted(stream_order, cap))
  /\ UNCHANGED <<xref, object_cache, local, raced>>

Step(t) ==
  \/ Lookup(t) \/ ClaimBuild(t) \/ BuildDone(t) \/ Find(t) \/ FindEntry(t)
  \/ StreamHit(t) \/ StreamMiss(t) \/ InsertStream(t) \/ Store(t)

Next ==
  \/ ParseClaims
  \/ BuildRuns
  \/ \E t \in Threads : Step(t) \/ \E o \in Objects : Call(t, o)
  \/ \E n \in Capacities : SetCapacity(n)

\* A call in progress is a running thread; nothing in it waits for a lock for
\* longer than another thread's critical section.
Fairness == WF_vars(BuildRuns) /\ \A t \in Threads : WF_vars(Step(t))

Spec == Init /\ [][Next]_vars /\ Fairness

---------------------------------------------------------------------------
TypeOK ==
  /\ IndexTypeOK
  /\ DOMAIN object_cache \subseteq Objects
  /\ \A o \in DOMAIN object_cache : object_cache[o] \in Offsets
  /\ DOMAIN stream_cache \subseteq Objects
  /\ \A k \in DOMAIN stream_cache : stream_cache[k] \in Offsets
  /\ stream_order \in Seq(Objects)
  /\ capacity \in Nat \ {0}
  /\ pc \in [Threads -> PCs]
  /\ want \in [Threads -> Objects]
  /\ nested \in [Threads -> BOOLEAN]
  /\ entry \in [Threads -> Offsets \cup {None}]
  /\ body \in [Threads -> Offsets \cup {None}]
  /\ raced \in BOOLEAN

\* What load_object(o) yields when nobody else uses the document.
AlonePlain(o) ==
  IF built /\ o \in DOMAIN offsets THEN offsets[o] ELSE ScanFirst(o)

Alone(o) ==
  IF (built /\ o \in DOMAIN offsets) \/ o \notin DOMAIN entries THEN AlonePlain(o)
  ELSE LET k == StreamOf[entries[o]]
           r == AlonePlain(k)
       IN  IF r # None /\ r \notin Undecodable /\ StreamOf[r] = k /\ Compressed(r, o)
             THEN r ELSE None

\* However the critical sections of the calls interleave, each call answers what
\* it would have answered alone, in a document that was parsed before its first use.
AnswersAsAlone ==
  ~raced => \A t \in Threads : pc[t] = "answered" => body[t] = Alone(want[t])

\* "Thread-safe object and stream caches": object_cache, which nothing ever evicts,
\* holds no answer that a lone caller would not get.
ThreadSafeCache ==
  phase = "over" => \A o \in DOMAIN object_cache : object_cache[o] = Alone(o)

\* It does so in a document that was parsed before its first use: a wrong answer
\* would stay for the life of the document.
CacheAsAlone == ~raced => ThreadSafeCache

\* A document that threads share answers, now and later, as one that nobody shares.
AsAlone == AnswersAsAlone /\ CacheAsAlone

\* Of all the threads that find no index one builds it, and it is built once:
\* what the others read after the build does not change under them.
BuiltOnce ==
  [][phase = "over" => UNCHANGED <<phase, offsets, entries, built, failed>>]_vars

\* Threads that decode the same stream twice do not undo the bound of the stream
\* cache: every entry can still be evicted, and the order is no longer than the
\* capacity.  The bytes are those of the stream, as for CacheAsAlone.
StreamCacheBounded ==
  /\ \A k \in DOMAIN stream_cache : \E i \in DOMAIN stream_order : stream_order[i] = k
  /\ Len(stream_order) <= capacity
  /\ phase = "over" /\ ~raced => \A k \in DOMAIN stream_cache : stream_cache[k] = AlonePlain(k)

\* The caches of the document keep their types and the bound that was set for them.
StoreSound == TypeOK /\ StreamCacheBounded

\* Every call ends: no thread waits for the index or for another thread.
CallsReturn == \A t \in Threads : pc[t] = "lookup" ~> pc[t] = "answered"
============================================================================
