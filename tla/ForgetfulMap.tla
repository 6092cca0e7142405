---------------------------- MODULE ForgetfulMap ----------------------------
(***************************************************************************)
(* What a cache promises to those who share it: it may forget any entry at *)
(* any time, and what it still has under a key is what was stored there    *)
(* last.  Nothing is said of the order in which it forgets.                *)
(***************************************************************************)
CONSTANTS Keys, Values, NoValue

VARIABLES
  current,    \* what was stored last under each key, or NoValue
  kept        \* what the cache still has, a partial function

Init == current = [k \in Keys |-> NoValue] /\ kept = [k \in {} |-> NoValue]

\* Some entries of map and no others.
Part(part, map) ==
  DOMAIN part \subseteq DOMAIN map /\ \A k \in DOMAIN part : part[k] = map[k]

\* The entry that is stored may be forgotten at once, an older one must be.
Store(k, v) ==
  /\ current' = [current EXCEPT ![k] = v]
  /\ Part(kept', [j \in DOMAIN kept \union {k} |-> IF j = k THEN v ELSE kept[j]])

Erase(k) ==
  /\ current' = [current EXCEPT ![k] = NoValue]
  /\ Part(kept', [j \in DOMAIN kept \ {k} |-> kept[j]])

Clear == current' = [k \in Keys |-> NoValue] /\ DOMAIN kept' = {}

Forget == UNCHANGED current /\ Part(kept', kept)

Next ==
  \/ \E k \in Keys, v \in Values : Store(k, v)
  \/ \E k \in Keys : Erase(k)
  \/ Clear
  \/ Forget

Spec == Init /\ [][Next]_<<current, kept>>
=============================================================================
