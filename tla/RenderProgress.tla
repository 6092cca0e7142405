--------------------------- MODULE RenderProgress ---------------------------
(***************************************************************************)
(* Progress reports and cancellation of LightVGBackend::render_page in     *)
(* src/lightvg-backend.cc: begin_progress, advance_progress and            *)
(* finish_progress around the content of a page and its annotations.       *)
(*                                                                         *)
(* A page is a number of objects in its content and a number of            *)
(* annotations; total_objects is what a scan of the content counted in     *)
(* advance, with or without the annotations.  The callback answers as it   *)
(* likes.  The loop that calls it back is made of steps of its own (pc     *)
(* "report").                                                              *)
(***************************************************************************)
EXTENDS Naturals, Sequences

CONSTANTS
  Counts,       \* numbers of objects drawn, and counted, in a page's content
  Annotations,  \* numbers of annotations of a page
  Uncounted,    \* whether total_objects leaves the annotations out
  Weights,      \* what one object may advance by
  Steps,        \* progress_percent_step as the caller sets it
  Threshold     \* progress_object_threshold

ASSUME CountsAssumption ==
  /\ Counts \subseteq Nat /\ Annotations \subseteq Nat /\ Uncounted \subseteq BOOLEAN
  /\ Weights \subseteq Nat \ {0} /\ Steps \subseteq Nat /\ Threshold \in Nat

VARIABLES
  pc,           \* "idle", "content", "annots", "report" or "over"
  back,         \* where a report returns to
  contents,     \* content objects left to draw
  annots,       \* annotations left to draw
  total, processed, step, reported, enabled,  \* progress_
  halted,       \* render_interrupted_
  outcome,      \* what render_page returned, "none" before it did
  calls,        \* percentages the callback was given, in order
  stopped,      \* Len(calls) when it first answered false, or 0
  annotated     \* some annotation was drawn to its end

progress == <<total, processed, step, reported, enabled>>
page == <<pc, back, contents, annots, progress, halted, outcome, calls,
          stopped, annotated>>

AtLeast(a, b) == IF a < b THEN b ELSE a
AtMost(a, b) == IF a < b THEN a ELSE b

ProgressInit ==
  /\ pc = "idle" /\ back = "idle"
  /\ contents = 0 /\ annots = 0
  /\ total = 0 /\ processed = 0 /\ step = 1 /\ reported = 0 /\ enabled = FALSE
  /\ halted = FALSE /\ outcome = "none"
  /\ calls = <<>> /\ stopped = 0 /\ annotated = FALSE

\* The callback is given p and answers go.
Callback(p, go) ==
  /\ calls' = Append(calls, p)
  /\ stopped' = IF ~go /\ stopped = 0 THEN Len(calls) + 1 ELSE stopped

\* render_page resets its state; begin_progress reports 0 percent.
Begin(c, counted, a, u, s) ==
  /\ pc \in {"idle", "over"}
  /\ pc' = "content"
  /\ contents' = c /\ annots' = a
  /\ processed' = 0 /\ reported' = 0
  /\ outcome' = "none" /\ annotated' = FALSE
  /\ LET n == IF u THEN counted ELSE counted + a IN
     IF n = 0 \/ n < Threshold
       THEN /\ total' = 0 /\ step' = 1 /\ enabled' = FALSE
            /\ halted' = FALSE
            /\ calls' = <<>> /\ stopped' = 0
       ELSE /\ total' = n /\ step' = AtLeast(1, s) /\ enabled' = TRUE
            /\ calls' = <<0>>
            /\ \E go \in BOOLEAN :
                 halted' = ~go /\ stopped' = IF go THEN 0 ELSE 1
  /\ UNCHANGED back

\* advance_progress: nothing while reports are off.
Advance(n) ==
  IF ~enabled THEN UNCHANGED <<pc, back, processed>>
  ELSE /\ processed' = AtMost(processed + n, total)
       /\ pc' = "report" /\ back' = pc

\* One content object; the parser stops at the next token once interrupted.
DrawObject(n) ==
  /\ pc = "content"
  /\ contents > 0 /\ ~halted
  /\ contents' = contents - 1
  /\ Advance(n)
  /\ UNCHANGED <<annots, total, step, reported, enabled, halted, outcome, calls,
                 stopped, annotated>>

Percent == (processed * 100) \div total

\* The loop of advance_progress calls back once per step, until told to stop.
Report ==
  /\ pc = "report"
  /\ IF reported + step <= Percent
       THEN \E go \in BOOLEAN :
              /\ Callback(reported + step, go)
              /\ reported' = reported + step
              /\ halted' = (halted \/ ~go)
              /\ enabled' = go
              /\ pc' = IF go THEN pc ELSE back
       ELSE pc' = back /\ UNCHANGED <<reported, enabled, halted, calls, stopped>>
  /\ UNCHANGED <<back, contents, annots, total, processed, step, outcome, annotated>>

\* finish_progress: a last report of 100 percent, whose answer nobody reads.
Finish_Always ==                    \* mutant: 100 is reported once more
  /\ IF enabled
       THEN \E go \in BOOLEAN : Callback(100, go)
       ELSE UNCHANGED <<calls, stopped>>
  /\ total' = 0 /\ processed' = 0 /\ step' = 1 /\ reported' = 0 /\ enabled' = FALSE

Finish ==
  /\ IF enabled /\ reported < 100
       THEN \E go \in BOOLEAN : Callback(100, go)
       ELSE UNCHANGED <<calls, stopped>>
  /\ total' = 0 /\ processed' = 0 /\ step' = 1 /\ reported' = 0 /\ enabled' = FALSE

\* render_page looks at render_interrupted_ once, after the content.
ContentEnds_Unread ==               \* mutant: annotations are drawn regardless
  /\ pc = "content"
  /\ contents = 0 \/ halted
  /\ pc' = "annots"
  /\ UNCHANGED <<back, contents, annots, progress, halted, outcome, calls,
                 stopped, annotated>>

ContentEnds ==
  /\ pc = "content"
  /\ contents = 0 \/ halted
  /\ IF halted
       THEN /\ pc' = "over" /\ outcome' = "interrupted"
            /\ Finish
       ELSE /\ pc' = "annots"
            /\ UNCHANGED <<progress, outcome, calls, stopped>>
  /\ UNCHANGED <<back, contents, annots, halted, annotated>>

DrawAnnotation_Again ==              \* mutant: the loop stays at its annotation
  /\ pc = "annots"
  /\ annots > 0
  /\ annots' = annots
  /\ annotated' = (annotated \/ ~halted)
  /\ Advance(1)
  /\ UNCHANGED <<contents, total, step, reported, enabled, halted, outcome, calls,
                 stopped>>

(***************************************************************************)
(* The appearance of an annotation is parsed with reports switched off, so *)
(* nothing can stop it halfway; one that is reached after an interruption  *)
(* stops at its first token.                                               *)
(***************************************************************************)
DrawAnnotation ==
  /\ pc = "annots"
  /\ annots > 0
  /\ annots' = annots - 1
  /\ annotated' = (annotated \/ ~halted)
  /\ Advance(1)
  /\ UNCHANGED <<contents, total, step, reported, enabled, halted, outcome, calls,
                 stopped>>

\* end_scene may fail; the reports are finished either way.
PageEnds(ok) ==
  /\ pc = "annots"
  /\ annots = 0
  /\ pc' = "over"
  /\ outcome' = IF ok THEN "success" ELSE "failed"
  /\ Finish
  /\ UNCHANGED <<back, contents, annots, halted, annotated>>

ProgressNext ==
  \/ \E c, n \in Counts, a \in Annotations, u \in Uncounted, s \in Steps :
       Begin(c, n, a, u, s)
  \/ \E n \in Weights : DrawObject(n)
  \/ Report \/ ContentEnds \/ DrawAnnotation
  \/ \E ok \in BOOLEAN : PageEnds(ok)

\* A page that was begun is drawn by a loop that waits for nothing but the callback.
Work == (\E n \in Weights : DrawObject(n)) \/ Report \/ ContentEnds \/ DrawAnnotation
          \/ (\E ok \in BOOLEAN : PageEnds(ok))
ProgressSpec == ProgressInit /\ [][ProgressNext]_page /\ WF_page(Work)

---------------------------------------------------------------------------
ProgressTypeOK ==
  /\ pc \in {"idle", "content", "annots", "report", "over"}
  /\ back \in {"idle", "content", "annots"}
  /\ contents \in Nat /\ annots \in Nat /\ annotated \in BOOLEAN
  /\ total \in Nat /\ processed \in 0..total /\ step \in Nat \ {0}
  /\ reported \in 0..100 /\ enabled \in BOOLEAN
  /\ halted \in BOOLEAN /\ outcome \in {"none", "success", "failed", "interrupted"}
  /\ calls \in Seq(0..100) /\ stopped \in 0..Len(calls)

\* However the objects weigh, the percentages a callback sees only grow, from 0
\* to at most 100, and none is reported twice.
PercentsGrow ==
  \A i \in 1..Len(calls) :
    /\ i = 1 => calls[i] = 0
    /\ i > 1 => calls[i - 1] < calls[i]
    /\ calls[i] <= 100

\* A page that nobody interrupted ends its reports at 100, also when the objects
\* counted in advance were never drawn or weighed less.
ReportsComplete ==
  pc = "over" /\ calls # <<>> /\ stopped = 0 => calls[Len(calls)] = 100

\* The reports of a page run from 0 up, and to 100 if nobody stops it.
ReportsSound == ProgressTypeOK /\ PercentsGrow /\ ReportsComplete

\* A page of which some content was left undrawn is reported as interrupted, and
\* none of its annotations is drawn over the unfinished content.
CutShortIsReported ==
  pc = "over" /\ contents > 0 => outcome = "interrupted" /\ ~annotated

\* Every page ends, whatever the callback answers.
PageReturns == pc = "content" ~> pc = "over"
============================================================================
