---------------------------- MODULE RenderCache ----------------------------
(***************************************************************************)
(* The process-wide byte-bounded LRU cache of src/render-cache.cc.  Every  *)
(* method holds mutex_ for its whole body, so each call is one action      *)
(* whatever backend or thread makes it.                                    *)
(*                                                                         *)
(* lru_ is the std::list (front = most recent), map_ the unordered_map     *)
(* from a key to an iterator: an iterator is represented by the node it    *)
(* denotes, so a dangling iterator is a node that is not in lru_.  latest  *)
(* and recency are history variables: what the callers stored last under   *)
(* each key, and the keys in the order of their last successful use.       *)
(***************************************************************************)
EXTENDS Integers, Sequences, SequencesExt

CONSTANTS
  Keys,       \* cache keys
  Values,     \* cached bitmaps
  Bytes,      \* Bytes[k][v]: approx_bytes of an entry that holds v under k
  Limits,     \* the sizes callers pass to set_max_size
  DefaultLimit, \* max_size_ before any of them does
  NoValue     \* "nothing stored", not a value

ASSUME BytesAssumption == Bytes \in [Keys -> [Values -> Nat \ {0}]]
ASSUME LimitsAssumption == Limits \subseteq Nat /\ DefaultLimit \in Limits
ASSUME NoValueAssumption == NoValue \notin Values

VARIABLES
  lru_,       \* sequence of nodes, most recently used first
  map_,       \* partial function from keys to nodes
  used_,      \* the running byte count
  max_size_,
  latest,     \* history: [Keys -> Values \cup {NoValue}]
  recency     \* history: keys, most recently stored or found first

vars == <<lru_, map_, used_, max_size_, latest, recency>>

Node == [key : Keys, val : Values, approx_bytes : Nat]

\* Total(s)[n]: bytes of the first n nodes.
Total(s) ==
  LET sum[n \in 0..Len(s)] == IF n = 0 THEN 0 ELSE sum[n - 1] + s[n].approx_bytes
  IN  sum

BytesFrom(s, i) == Total(s)[Len(s)] - Total(s)[i - 1]   \* of position i and behind

Unmap(m, K) == [k \in DOMAIN m \ K |-> m[k]]

\* The front of the list, where x may have been somewhere else before.
ToFront(s, x) == <<x>> \o RemoveFirst(s, x)

(***************************************************************************)
(* evict_to_fit(needed) on a list s with u bytes accounted: how many nodes *)
(* survive the loop that pops the back while u + needed exceeds the limit. *)
(***************************************************************************)
Survivors(s, u, needed, limit) ==
  LET fits == {n \in 0..Len(s) : u - BytesFrom(s, n + 1) + needed <= limit}
  IN  IF fits = {} THEN 0 ELSE CHOOSE n \in fits : \A m \in fits : m <= n

Evict(s, m, u, needed, limit) ==
  LET n == Survivors(s, u, needed, limit)
      gone == {s[i].key : i \in n + 1 .. Len(s)}
  IN  [list |-> SubSeq(s, 1, n),
       map  |-> Unmap(m, gone),
       used |-> u - BytesFrom(s, n + 1)]

Removed_KeepsMap(k) ==                          \* mutant: the map still has it
  IF k \in DOMAIN map_
    THEN [list |-> RemoveFirst(lru_, map_[k]), map |-> map_, used |-> used_ - map_[k].approx_bytes]
    ELSE [list |-> lru_, map |-> map_, used |-> used_]

\* The entry of k leaves the list, the map and the byte count, if there is one.
Removed(k) ==
  IF k \in DOMAIN map_
    THEN [list |-> RemoveFirst(lru_, map_[k]), map |-> Unmap(map_, {k}),
          used |-> used_ - map_[k].approx_bytes]
    ELSE [list |-> lru_, map |-> map_, used |-> used_]

Init ==
  /\ lru_ = <<>>
  /\ map_ = <<>>
  /\ used_ = 0
  /\ max_size_ = DefaultLimit
  /\ latest = [k \in Keys |-> NoValue]
  /\ recency = <<>>

SetMaxSize(limit) ==
  LET e == Evict(lru_, map_, used_, 0, limit) IN
  /\ max_size_' = limit
  /\ lru_' = e.list
  /\ map_' = e.map
  /\ used_' = e.used
  /\ UNCHANGED <<latest, recency>>

\* A hit moves the node to the front; a miss changes nothing but a counter.
Find_NoSplice(k) ==                             \* mutant: the hit is not moved
  /\ k \in DOMAIN map_
  /\ recency' = ToFront(recency, k)
  /\ UNCHANGED <<lru_, map_, used_, max_size_, latest>>

Find(k) ==
  /\ k \in DOMAIN map_
  /\ lru_' = ToFront(lru_, map_[k])
  /\ recency' = ToFront(recency, k)
  /\ UNCHANGED <<map_, used_, max_size_, latest>>

\* An entry larger than the whole cache only removes what it replaces.
StoreOversized_KeepsOld(k, v) ==                \* mutant: returns before erasing
  /\ Bytes[k][v] > max_size_
  /\ latest' = [latest EXCEPT ![k] = v]
  /\ UNCHANGED <<lru_, map_, used_, max_size_, recency>>

StoreOversized(k, v) ==
  LET r == Removed(k) IN
  /\ Bytes[k][v] > max_size_
  /\ lru_' = r.list
  /\ map_' = r.map
  /\ used_' = r.used
  /\ latest' = [latest EXCEPT ![k] = v]
  /\ UNCHANGED <<max_size_, recency>>

StoreFitting(k, v) ==
  LET r == Removed(k)
      e == Evict(r.list, r.map, r.used, Bytes[k][v], max_size_)
      node == [key |-> k, val |-> v, approx_bytes |-> Bytes[k][v]]
  IN
  /\ Bytes[k][v] <= max_size_
  /\ lru_' = <<node>> \o e.list
  /\ map_' = [j \in DOMAIN e.map \cup {k} |-> IF j = k THEN node ELSE e.map[j]]
  /\ used_' = e.used + Bytes[k][v]
  /\ latest' = [latest EXCEPT ![k] = v]
  /\ recency' = ToFront(recency, k)
  /\ UNCHANGED max_size_

Erase(k) ==
  LET r == Removed(k) IN
  /\ k \in DOMAIN map_
  /\ lru_' = r.list
  /\ map_' = r.map
  /\ used_' = r.used
  /\ latest' = [latest EXCEPT ![k] = NoValue]
  /\ UNCHANGED <<max_size_, recency>>

Clear ==
  /\ lru_' = <<>>
  /\ map_' = <<>>
  /\ used_' = 0
  /\ latest' = [k \in Keys |-> NoValue]
  /\ UNCHANGED <<max_size_, recency>>

Next ==
  \/ \E limit \in Limits : SetMaxSize(limit)
  \/ \E k \in Keys : Find(k) \/ Erase(k)
  \/ \E k \in Keys, v \in Values : StoreOversized(k, v) \/ StoreFitting(k, v)
  \/ Clear

Spec == Init /\ [][Next]_vars

---------------------------------------------------------------------------
\* The types of the cache's fields and of the history variables.
TypeOK ==
  /\ lru_ \in Seq(Node)
  /\ DOMAIN map_ \subseteq Keys
  /\ \A k \in DOMAIN map_ : map_[k] \in Node
  /\ used_ \in Nat
  /\ max_size_ \in Limits
  /\ latest \in [Keys -> Values \cup {NoValue}]
  /\ recency \in Seq(Keys)

\* No iterator of map_ dangles and no node of lru_ is unreachable: after any
\* history of replacements, evictions and erasures the two structures describe
\* the same entries, one per key.
IteratorsLive ==
  /\ \A k \in DOMAIN map_ : \E i \in DOMAIN lru_ : lru_[i] = map_[k] /\ lru_[i].key = k
  /\ \A i \in DOMAIN lru_ : lru_[i].key \in DOMAIN map_
  /\ \A i, j \in DOMAIN lru_ : lru_[i].key = lru_[j].key => i = j

\* The incrementally maintained byte count never drifts from what the list
\* holds, and never passes the limit in force, lowered limits included.
BytesAccounted ==
  /\ used_ = BytesFrom(lru_, 1)
  /\ used_ <= max_size_

\* What a lookup of k would return is what was stored last under k: a
\* replacement that does not fit must not leave the old bitmap behind.
NeverStale == \A k \in DOMAIN map_ : map_[k].val = latest[k]

\* The list, the map and the byte count describe one set of entries, the newest ones.
Consistent == TypeOK /\ IteratorsLive /\ BytesAccounted /\ NeverStale

Rank(s, k) == CHOOSE i \in DOMAIN s : s[i] = k

\* A step that is not an erasure of k evicts it only if every entry it keeps
\* was used more recently than k.
EvictsLeastRecent ==
  [][ \A k \in DOMAIN map_ \ DOMAIN map_' :
        latest'[k] = latest[k] /\ latest[k] # NoValue =>
          \A j \in DOMAIN map_' : Rank(recency', j) < Rank(recency', k) ]_vars

\* Eviction stops as soon as there is room: the entries kept and the most
\* recently used one given up would not have fitted together.
EvictsNoMoreThanNeeded ==
  [][ LET gone == {k \in DOMAIN map_ \ DOMAIN map_' :
                     latest'[k] = latest[k] /\ latest[k] # NoValue}
      IN  \A k \in gone :
            (\A j \in gone : Rank(recency, k) <= Rank(recency, j)) =>
              used_' + map_[k].approx_bytes > max_size_' ]_vars

\* "LRU": eviction takes the least recent entries, and no more of them than needed.
EvictionIsLRU == EvictsLeastRecent /\ EvictsNoMoreThanNeeded

\* To everyone who shares it the cache is a map that forgets: a lookup finds what was
\* stored last under the key or nothing, whatever is replaced, evicted and erased.
Map == INSTANCE ForgetfulMap WITH
         current <- latest, kept <- [k \in DOMAIN map_ |-> map_[k].val]
IsForgetfulMap == Map!Spec
============================================================================
