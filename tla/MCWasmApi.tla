----------------------------- MODULE MCWasmApi -----------------------------
(***************************************************************************)
(* The parts change nothing of each other's but by Shutdown: TLC checks    *)
(* the behaviours in which one of them is used, which is chosen at first,  *)
(* instead of their product.  The editor is taken in three: three pages    *)
(* and what is on them, two pages with stamps and two exports, and forms   *)
(* with exports.                                                           *)
(***************************************************************************)
EXTENDS WasmApi

VARIABLE part

Pages12 == [d \in {"a", "b"} |-> IF d = "a" THEN 1 ELSE 2]

MCInit ==
  /\ Init /\ gBackend = "light" /\ current = "a"
  /\ part \in {"view", "pages", "exports", "forms", "sign"}

InPart ==
  CASE part = "pages" -> exports' = 0 /\ nextDoc' <= 1 /\ writer'.kind # "form"
    [] part = "exports" ->
         /\ Len(meant') <= 2 /\ writer'.kind # "form"
         /\ \A i \in DOMAIN annotations' : \A k \in DOMAIN annotations'[i] :
              annotations'[i][k].stamp # 0
    [] part = "forms" -> Len(meant') <= 1 /\ nextDoc' <= 1 /\ stamps' = <<>> /\ DOMAIN annotations' = {}
    [] OTHER -> TRUE

MCNext ==
  /\ \/ part = "view" /\ (ViewStep \/ Shutdown)
     \/ part \in {"pages", "exports", "forms"} /\ (WorkStep \/ Shutdown) /\ InPart
     \/ part = "sign" /\ SignStep
  /\ UNCHANGED part

MCSpec == MCInit /\ [][MCNext]_<<vars, part>>
=============================================================================
