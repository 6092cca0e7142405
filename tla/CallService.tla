---------------------------- MODULE CallService ----------------------------
(***************************************************************************)
(* What a function promises to the threads that call it at once: each call *)
(* is answered as if there were no other, by what it was asked alone.      *)
(***************************************************************************)
CONSTANTS
  Callers,
  Requests,
  Answers     \* [Requests -> answers]

VARIABLE calls    \* of each caller: its last call and how far it is

Idle == [step |-> "idle"]
Busy(r) == [step |-> "busy", request |-> r]
Answered(r, answer) == [step |-> "answered", request |-> r, answer |-> answer]

Init == calls = [c \in Callers |-> Idle]

Call(c, r) ==
  /\ calls[c].step # "busy"
  /\ calls' = [calls EXCEPT ![c] = Busy(r)]

Reply(c) ==
  /\ calls[c].step = "busy"
  /\ calls' = [calls EXCEPT ![c] = Answered(calls[c].request, Answers[calls[c].request])]

Next == \E c \in Callers : Reply(c) \/ \E r \in Requests : Call(c, r)

Spec == Init /\ [][Next]_calls
=============================================================================
