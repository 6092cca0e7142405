----------------------------- MODULE PageProofs -----------------------------
(***************************************************************************)
(* Theorems about a page of LightVGBackend.  RenderProgress: for pages of  *)
(* any size, any weights, steps and counts, and any answers of the         *)
(* callback.  PageImages: for any contents, images and number of threads.  *)
(***************************************************************************)
EXTENDS RenderProgress, PageImages, Integers, TLAPS

---------------------------------------------------------------------------
(* RenderProgress. *)

\* What is drawn when a report returns.
Phase == IF pc = "report" THEN back ELSE pc
Running == pc \in {"content", "annots", "report"}

\* Reports are on only in a page that was counted, and the loop that calls back runs
\* only then.
Counting ==
  /\ enabled => Running /\ total > 0 /\ calls # <<>> /\ calls[Len(calls)] = reported
  /\ pc = "report" => enabled /\ back # "idle"

\* Reports that nobody stopped are on until the page ends.
Unstopped ==
  /\ Running /\ calls # <<>> /\ stopped = 0 => enabled
  /\ pc = "idle" => calls = <<>> /\ contents = 0

\* Annotations are drawn when all of the content was.
Ordered ==
  /\ Phase = "content" => ~annotated
  /\ Phase = "annots" => contents = 0

PInv == ProgressTypeOK /\ PercentsGrow /\ Counting /\ Unstopped /\ ReportsComplete /\ Ordered
          /\ CutShortIsReported

---------------------------------------------------------------------------
\* A share of what was counted is at most 100 percent of it.
LEMMA PercentBound ==
  ASSUME NEW t \in Nat \ {0}, NEW p \in 0..t
  PROVE  (p * 100) \div t \in 0..100
<1> DEFINE q == (p * 100) \div t
<1>1. q \in Int /\ t * q <= p * 100 /\ p * 100 < t * (q + 1)
  OBVIOUS
<1>2. p * 100 <= t * 100 /\ p * 100 >= 0
  OBVIOUS
<1>3. q <= 100
  <2> SUFFICES ASSUME q >= 101 PROVE FALSE
    BY <1>1
  <2>1. t * q >= t * 101
    BY <1>1
  <2> QED
    BY <1>1, <1>2, <2>1
<1>4. q >= 0
  <2> SUFFICES ASSUME q + 1 <= 0 PROVE FALSE
    BY <1>1
  <2>1. t * (q + 1) <= 0
    BY <1>1
  <2> QED
    BY <1>1, <1>2, <2>1
<1> QED
  BY <1>1, <1>3, <1>4

\* A report of p goes on where the last one was smaller.
LEMMA CallbackGrows ==
  ASSUME ProgressTypeOK, PercentsGrow, NEW p \in 0..100, NEW go \in BOOLEAN,
         calls # <<>>, calls[Len(calls)] < p, Callback(p, go)
  PROVE  /\ calls' \in Seq(0..100) /\ PercentsGrow' /\ stopped' \in 0..Len(calls')
         /\ calls' # <<>> /\ calls'[Len(calls')] = p
         /\ stopped' = 0 => stopped = 0 /\ go
<1>1. calls \in Seq(0..100) /\ calls' = Append(calls, p) /\ stopped \in 0..Len(calls)
  BY DEF ProgressTypeOK, Callback
<1>2. /\ Len(calls') = Len(calls) + 1 /\ calls'[Len(calls) + 1] = p
      /\ \A i \in 1..Len(calls) : calls'[i] = calls[i]
  BY <1>1
<1>3. Len(calls) >= 1
  BY <1>1
<1>4. PercentsGrow'
  <2> SUFFICES ASSUME NEW i \in 1..Len(calls')
               PROVE  /\ i = 1 => calls'[i] = 0
                      /\ i > 1 => calls'[i - 1] < calls'[i]
                      /\ calls'[i] <= 100
    BY DEF PercentsGrow
  <2>1. CASE i \in 1..Len(calls)
    <3>1. i > 1 => i - 1 \in 1..Len(calls)
      BY <2>1, <1>1
    <3> QED
      BY <2>1, <3>1, <1>2 DEF PercentsGrow
  <2>2. CASE i = Len(calls) + 1
    <3>1. i > 1 /\ i - 1 = Len(calls) /\ Len(calls) \in 1..Len(calls)
      BY <2>2, <1>1, <1>3
    <3> QED
      BY <2>2, <3>1, <1>2
  <2> QED
    BY <2>1, <2>2, <1>1, <1>2
<1> QED
  BY <1>1, <1>2, <1>3, <1>4 DEF Callback

\* finish_progress ends the reports at 100 and switches them off.
LEMMA FinishCompletes ==
  ASSUME ProgressTypeOK, PercentsGrow, Counting, Unstopped, Running, Finish
  PROVE  /\ calls' \in Seq(0..100) /\ PercentsGrow' /\ stopped' \in 0..Len(calls')
         /\ calls' # <<>> /\ stopped' = 0 => calls'[Len(calls')] = 100
         /\ total' = 0 /\ processed' = 0 /\ step' = 1 /\ reported' = 0 /\ ~enabled'
         /\ enabled' \in BOOLEAN
<1>1. /\ total' = 0 /\ processed' = 0 /\ step' = 1 /\ reported' = 0 /\ ~enabled'
      /\ enabled' \in BOOLEAN
  BY DEF Finish
<1>2. CASE enabled /\ reported < 100
  <2>1. PICK go \in BOOLEAN : Callback(100, go)
    BY <1>2 DEF Finish
  <2>2. calls # <<>> /\ calls[Len(calls)] < 100 /\ 100 \in 0..100
    BY <1>2 DEF Counting
  <2> QED
    BY <1>1, <2>1, <2>2, CallbackGrows
<1>3. CASE ~(enabled /\ reported < 100)
  <2>1. UNCHANGED <<calls, stopped>>
    BY <1>3 DEF Finish
  <2>2. calls # <<>> /\ stopped = 0 => calls[Len(calls)] = 100
    BY <1>3 DEF ProgressTypeOK, Counting, Unstopped
  <2> QED
    BY <1>1, <2>1, <2>2 DEF ProgressTypeOK, PercentsGrow
<1> QED
  BY <1>2, <1>3

---------------------------------------------------------------------------
\* The invariant holds before any page, and every step of render_page keeps it.
LEMMA InitPInv == ProgressInit => PInv
<1> SUFFICES ASSUME ProgressInit PROVE PInv
  OBVIOUS
<1>1. calls = <<>> /\ Len(calls) = 0 /\ calls \in Seq(0..100)
  BY DEF ProgressInit
<1>2. ProgressTypeOK
  <2>1. enabled \in BOOLEAN /\ halted \in BOOLEAN /\ annotated \in BOOLEAN
    BY DEF ProgressInit
  <2>2. reported \in 0..100 /\ total \in Nat /\ processed \in 0..total /\ stopped \in 0..Len(calls)
    BY <1>1 DEF ProgressInit
  <2> QED
    BY <1>1, <2>1, <2>2 DEF ProgressInit, ProgressTypeOK
<1>3. PercentsGrow
  BY <1>1 DEF ProgressInit, PercentsGrow
<1> QED
  BY <1>1, <1>2, <1>3 DEF ProgressInit, PInv, Counting, Unstopped, ReportsComplete, Ordered,
                    CutShortIsReported, Running, Phase

\* advance_progress begins its loop only while reports are on.
LEMMA AdvanceCounts ==
  ASSUME ProgressTypeOK, pc \in {"content", "annots"}, NEW n \in Nat, Advance(n), UNCHANGED total
  PROVE  /\ processed' \in 0..total' /\ pc' \in {"content", "annots", "report"}
         /\ back' \in {"idle", "content", "annots"}
         /\ pc' = "report" => enabled /\ back' # "idle"
         /\ Phase' = pc
  BY DEF ProgressTypeOK, Advance, AtMost, Phase

\* One step per operation, one part of the invariant at a time.
LEMMA NextPInv == PInv /\ [ProgressNext]_page => PInv'
<1> SUFFICES ASSUME PInv, [ProgressNext]_page PROVE PInv'
  OBVIOUS
<1>0. ProgressTypeOK /\ PercentsGrow /\ Counting /\ Unstopped /\ ReportsComplete /\ Ordered
        /\ CutShortIsReported
  BY DEF PInv
<1>1. ASSUME NEW c \in Counts, NEW n \in Counts, NEW a \in Annotations, NEW u \in Uncounted,
             NEW s \in Steps, Begin(c, n, a, u, s)
      PROVE PInv'
  <2>1. c \in Nat /\ n \in Nat /\ a \in Nat /\ s \in Nat /\ Threshold \in Nat
    BY CountsAssumption
  <2>2. pc' = "content" /\ contents' = c /\ annots' = a /\ processed' = 0 /\ reported' = 0
        /\ outcome' = "none" /\ annotated' = FALSE /\ back' = back
    BY <1>1 DEF Begin
  <2>3. \/ /\ total' = 0 /\ step' = 1 /\ enabled' = FALSE
           /\ halted' = FALSE /\ calls' = <<>> /\ stopped' = 0
        \/ /\ total' \in Nat \ {0} /\ step' \in Nat \ {0} /\ enabled' = TRUE
           /\ halted' \in BOOLEAN /\ calls' = <<0>> /\ stopped' \in {0, 1}
    <3> DEFINE m == IF u THEN n ELSE n + a
    <3>1. CASE m = 0 \/ m < Threshold
      BY <1>1, <3>1 DEF Begin
    <3>2. CASE ~(m = 0 \/ m < Threshold)
      <4>1. PICK go \in BOOLEAN :
              /\ total' = m /\ step' = AtLeast(1, s) /\ enabled' = TRUE /\ calls' = <<0>>
              /\ halted' = ~go /\ stopped' = IF go THEN 0 ELSE 1
        BY <1>1, <3>2 DEF Begin
      <4>2. m \in Nat \ {0} /\ AtLeast(1, s) \in Nat \ {0}
        BY <2>1, <3>2 DEF AtLeast
      <4> QED
        BY <4>1, <4>2
    <3> QED
      BY <3>1, <3>2
  <2>4. CASE calls' = <<>>
    <3>1. /\ calls' \in Seq(0..100) /\ Len(calls') = 0 /\ calls' # <<0>>
          /\ total' = 0 /\ step' = 1 /\ enabled' = FALSE /\ halted' = FALSE /\ stopped' = 0
      BY <2>3, <2>4
    <3>2. enabled' \in BOOLEAN /\ halted' \in BOOLEAN /\ annotated' \in BOOLEAN
      BY <2>2, <3>1
    <3>3. ProgressTypeOK' /\ PercentsGrow'
      BY <1>0, <2>1, <2>2, <3>1, <3>2 DEF ProgressTypeOK, PercentsGrow
    <3> QED
      BY <2>2, <2>4, <3>1, <3>3
      DEF PInv, Counting, Unstopped, ReportsComplete, Ordered, CutShortIsReported, Running, Phase
  <2>5. CASE calls' = <<0>>
    <3>1. /\ calls' \in Seq(0..100) /\ Len(calls') = 1 /\ calls'[1] = 0 /\ calls' # <<>>
          /\ total' \in Nat \ {0} /\ step' \in Nat \ {0} /\ enabled' = TRUE
          /\ halted' \in BOOLEAN /\ stopped' \in {0, 1}
      BY <2>3, <2>5
    <3>2. enabled' \in BOOLEAN /\ annotated' \in BOOLEAN
      BY <2>2, <3>1
    <3>3. ProgressTypeOK' /\ PercentsGrow'
      BY <1>0, <2>1, <2>2, <3>1, <3>2 DEF ProgressTypeOK, PercentsGrow
    <3>4. Counting'
      BY <2>2, <3>1 DEF Counting, Running
    <3> QED
      BY <2>2, <3>1, <3>3, <3>4
      DEF PInv, Unstopped, ReportsComplete, Ordered, CutShortIsReported, Running, Phase
  <2> QED
    BY <2>3, <2>4, <2>5
<1>2. ASSUME NEW n \in Weights, DrawObject(n) PROVE PInv'
  <2>1. n \in Nat /\ UNCHANGED <<annots, total, step, reported, enabled, halted, outcome, calls,
                                 stopped, annotated>>
        /\ pc = "content" /\ contents > 0 /\ contents' = contents - 1 /\ Advance(n)
    BY <1>2, CountsAssumption DEF DrawObject
  <2>2. /\ processed' \in 0..total' /\ pc' \in {"content", "annots", "report"}
        /\ back' \in {"idle", "content", "annots"}
        /\ pc' = "report" => enabled /\ back' # "idle"
        /\ Phase' = "content"
    BY <1>0, <2>1, AdvanceCounts
  <2>3. contents' \in Nat
    BY <1>0, <2>1 DEF ProgressTypeOK
  <2> QED
    BY <1>0, <2>1, <2>2, <2>3
    DEF PInv, ProgressTypeOK, PercentsGrow, Counting, Unstopped, ReportsComplete, Ordered,
        CutShortIsReported, Running, Phase
<1>3. CASE Report
  <2>1. pc = "report" /\ enabled /\ back \in {"content", "annots"} /\ total > 0 /\ calls # <<>>
        /\ calls[Len(calls)] = reported
        /\ UNCHANGED <<back, contents, annots, total, processed, step, outcome, annotated>>
    BY <1>0, <1>3 DEF Report, Counting, ProgressTypeOK
  <2>2. CASE reported + step <= Percent
    <3>1. PICK go \in BOOLEAN :
            /\ Callback(reported + step, go) /\ reported' = reported + step
            /\ halted' = (halted \/ ~go) /\ enabled' = go
            /\ pc' = IF go THEN pc ELSE back
      BY <1>3, <2>2 DEF Report
    <3>2. Percent \in 0..100
      <4>1. total \in Nat \ {0} /\ processed \in 0..total
        BY <1>0, <2>1 DEF ProgressTypeOK
      <4> QED
        BY <4>1, PercentBound DEF Percent
    <3>3. reported + step \in 0..100 /\ reported < reported + step
      BY <1>0, <2>2, <3>2 DEF ProgressTypeOK
    <3>4. /\ calls' \in Seq(0..100) /\ PercentsGrow' /\ stopped' \in 0..Len(calls')
          /\ calls' # <<>> /\ calls'[Len(calls')] = reported + step
          /\ stopped' = 0 => stopped = 0 /\ go
      BY <1>0, <2>1, <3>1, <3>3, CallbackGrows
    <3> QED
      BY <1>0, <2>1, <3>1, <3>3, <3>4
      DEF PInv, ProgressTypeOK, Counting, Unstopped, ReportsComplete, Ordered, CutShortIsReported,
          Running, Phase
  <2>3. CASE ~(reported + step <= Percent)
    <3>1. pc' = back /\ UNCHANGED <<reported, enabled, halted, calls, stopped>>
      BY <1>3, <2>3 DEF Report
    <3> QED
      BY <1>0, <2>1, <3>1
      DEF PInv, ProgressTypeOK, PercentsGrow, Counting, Unstopped, ReportsComplete, Ordered,
          CutShortIsReported, Running, Phase
  <2> QED
    BY <2>2, <2>3
<1>4. CASE ContentEnds
  <2>1. pc = "content" /\ Running /\ UNCHANGED <<back, contents, annots, halted, annotated>>
    BY <1>4 DEF ContentEnds, Running
  <2>2. CASE halted
    <3>1. pc' = "over" /\ outcome' = "interrupted" /\ Finish
      BY <1>4, <2>2 DEF ContentEnds
    <3>2. /\ calls' \in Seq(0..100) /\ PercentsGrow' /\ stopped' \in 0..Len(calls')
          /\ calls' # <<>> /\ stopped' = 0 => calls'[Len(calls')] = 100
          /\ total' = 0 /\ processed' = 0 /\ step' = 1 /\ reported' = 0 /\ ~enabled'
          /\ enabled' \in BOOLEAN
      BY <1>0, <2>1, <3>1, FinishCompletes
    <3>3. ProgressTypeOK'
      BY <1>0, <2>1, <3>1, <3>2 DEF ProgressTypeOK
    <3>4. ReportsComplete' /\ CutShortIsReported'
      BY <1>0, <2>1, <3>1, <3>2 DEF ReportsComplete, CutShortIsReported, Ordered, Phase
    <3> QED
      BY <3>1, <3>2, <3>3, <3>4 DEF PInv, Counting, Unstopped, Ordered, Running, Phase
  <2>3. CASE ~halted
    <3>1. pc' = "annots" /\ contents = 0 /\ UNCHANGED <<progress, outcome, calls, stopped>>
      BY <1>4, <2>3 DEF ContentEnds
    <3> QED
      BY <1>0, <2>1, <3>1
      DEF PInv, ProgressTypeOK, PercentsGrow, Counting, Unstopped, ReportsComplete, Ordered,
          CutShortIsReported, Running, Phase, progress
  <2> QED
    BY <2>2, <2>3
<1>5. CASE DrawAnnotation
  <2>1. pc = "annots" /\ annots > 0 /\ annots' = annots - 1
        /\ annotated' = (annotated \/ ~halted)
        /\ Advance(1)
        /\ UNCHANGED <<contents, total, step, reported, enabled, halted, outcome, calls, stopped>>
    BY <1>5 DEF DrawAnnotation
  <2>2. /\ processed' \in 0..total' /\ pc' \in {"content", "annots", "report"}
        /\ back' \in {"idle", "content", "annots"}
        /\ pc' = "report" => enabled /\ back' # "idle"
        /\ Phase' = "annots"
    BY <1>0, <2>1, AdvanceCounts
  <2>3. annots' \in Nat /\ annotated' \in BOOLEAN
    BY <1>0, <2>1 DEF ProgressTypeOK
  <2> QED
    BY <1>0, <2>1, <2>2, <2>3
    DEF PInv, ProgressTypeOK, PercentsGrow, Counting, Unstopped, ReportsComplete, Ordered,
        CutShortIsReported, Running, Phase
<1>6. ASSUME NEW ok \in BOOLEAN, PageEnds(ok) PROVE PInv'
  <2>1. pc = "annots" /\ Running /\ pc' = "over" /\ Finish
        /\ outcome' \in {"success", "failed"}
        /\ UNCHANGED <<back, contents, annots, halted, annotated>>
    BY <1>6 DEF PageEnds, Running
  <2>2. /\ calls' \in Seq(0..100) /\ PercentsGrow' /\ stopped' \in 0..Len(calls')
        /\ calls' # <<>> /\ stopped' = 0 => calls'[Len(calls')] = 100
        /\ total' = 0 /\ processed' = 0 /\ step' = 1 /\ reported' = 0 /\ ~enabled'
        /\ enabled' \in BOOLEAN
    BY <1>0, <2>1, FinishCompletes
  <2>3. contents = 0
    BY <1>0, <2>1 DEF Ordered, Phase
  <2>4. ProgressTypeOK'
    BY <1>0, <2>1, <2>2 DEF ProgressTypeOK
  <2> QED
    BY <2>1, <2>2, <2>3, <2>4
    DEF PInv, Counting, Unstopped, ReportsComplete, Ordered, CutShortIsReported, Running, Phase
<1>7. CASE UNCHANGED page
  BY <1>0, <1>7
  DEF PInv, ProgressTypeOK, PercentsGrow, Counting, Unstopped, ReportsComplete, Ordered,
      CutShortIsReported, Running, Phase, page, progress
<1> QED
  BY <1>1, <1>2, <1>3, <1>4, <1>5, <1>6, <1>7 DEF ProgressNext

---------------------------------------------------------------------------
\* The percentages that the callback of render_page sees grow from 0, and reach 100 on
\* a page that it does not stop, whatever the objects weigh and were counted to be.
THEOREM ReportsAreSound == ProgressSpec => []ReportsSound
<1>1. PInv => ReportsSound
  BY DEF PInv, ReportsSound
<1> QED
  BY InitPInv, NextPInv, <1>1, PTL DEF ProgressSpec

\* render_page returns a page of which content was left out as interrupted, and draws
\* no annotation over it.
THEOREM CutPagesAreReported == ProgressSpec => []CutShortIsReported
<1>1. PInv => CutShortIsReported
  BY DEF PInv
<1> QED
  BY InitPInv, NextPInv, <1>1, PTL DEF ProgressSpec

---------------------------------------------------------------------------
(* PageImages: what a page leaves behind. *)

Tiled == [op : {"tiled"}, tile : Tiles, content : Contents]
Canvases == Tiles \union {"page"}
Frames == [content : Seq(Operator \union Tiled), canvas : Canvases, state : Nat]

\* A draw that came from the cache carries the pixels of its object, any other is to
\* leave its own there.
Faithful(d) == d.retain = ~d.hit /\ (d.hit => d.pixels # None /\ d.pixels.of[2] = d.obj)

\* A flush runs in a page, and its threads only where pixels are prepared.
Batched ==
  /\ batch # <<>> => ~Idle /\ deferred = <<>>
  /\ prepared = <<>> => Len(batch) < 2 /\ \A t \in Threads : taken[t] = 0
  /\ \A i \in 1..Len(prepared) : prepared[i] \in {None, Prepare(batch[i])}

LInv ==
  /\ NothingLeaks
  /\ stack \in Seq(Frames)
  /\ Batched
  /\ \A i \in 1..Len(deferred) : Faithful(deferred[i])
  /\ \A i \in 1..Len(batch) : Faithful(batch[i])

---------------------------------------------------------------------------
\* A sequence is a function on its positions.
LEMMA SequenceIs ==
  ASSUME NEW S, NEW n \in Nat, NEW f \in [1..n -> S]
  PROVE  f \in Seq(S) /\ Len(f) = n
  OBVIOUS

\* The first operator of a content is one of the kinds.
LEMMA OpIs ==
  ASSUME stack \in Seq(Frames), stack # <<>>, Top.content # <<>>
  PROVE  /\ Top \in Frames /\ Top.content \in Seq(Operator \union Tiled)
         /\ Op \in Operator \union Tiled
         /\ Op.op = "image" => Op.obj \in Objects /\ Op.small \in BOOLEAN
         /\ Op.op = "state" => Op.to \in Nat
         /\ Op.op = "form" => Op.content \in Contents
         /\ Op.op \in {"fill", "tiled"} => Op.tile \in Tiles /\ Op.content \in Contents
<1>1. Top \in Frames
  BY DEF Top
<1>2. Top.content \in Seq(Operator \union Tiled)
  BY <1>1 DEF Frames
<1>3. Op \in Operator \union Tiled
  BY <1>2 DEF Op
<1>4. Op.op = "image" => Op.obj \in Objects /\ Op.small \in BOOLEAN
  BY <1>3 DEF Operator, Tiled
<1>5. Op.op = "state" => Op.to \in Nat
  BY <1>3 DEF Operator, Tiled
<1>6. Op.op = "form" => Op.content \in Contents
  BY <1>3 DEF Operator, Tiled
<1>7. Op.op \in {"fill", "tiled"} => Op.tile \in Tiles /\ Op.content \in Contents
  BY <1>3 DEF Operator, Tiled
<1> QED
  BY <1>1, <1>2, <1>3, <1>4, <1>5, <1>6, <1>7

\* An operator that was read is gone from the innermost content, and only there.
LEMMA ConsumedIs ==
  ASSUME stack \in Seq(Frames), stack # <<>>, Top.content # <<>>
  PROVE  /\ Consumed \in Seq(Frames) /\ Len(Consumed) = Len(stack)
         /\ \A i \in 1..(Len(stack) - 1) : Consumed[i] = stack[i]
         /\ Consumed[Len(stack)] = Frame(Tail(Top.content), Top.canvas, Top.state)
<1>1. Top \in Frames /\ Len(stack) \in 1..Len(stack)
  BY DEF Top
<1>2. Tail(Top.content) \in Seq(Operator \union Tiled)
  BY <1>1 DEF Frames
<1>3. \A c : [Top EXCEPT !.content = c] = Frame(c, Top.canvas, Top.state)
  BY <1>1 DEF Frames, Frame
<1>4. Frame(Tail(Top.content), Top.canvas, Top.state) \in Frames
  BY <1>1, <1>2 DEF Frames, Frame
<1> DEFINE f == Frame(Tail(Top.content), Top.canvas, Top.state)
<1>5. Consumed = [stack EXCEPT ![Len(stack)] = f]
  <2>1. Consumed = [stack EXCEPT ![Len(stack)] = [Top EXCEPT !.content = Tail(Top.content)]]
    BY DEF Consumed, Top
  <2> QED
    BY <2>1, <1>3
<1> HIDE DEF f
<1>6. f \in Frames
  BY <1>4 DEF f
<1>7. Consumed = [i \in 1..Len(stack) |-> IF i = Len(stack) THEN f ELSE stack[i]]
  <2>1. DOMAIN stack = 1..Len(stack)
    OBVIOUS
  <2> QED
    BY <2>1, <1>5
<1>8. Consumed \in [1..Len(stack) -> Frames]
  BY <1>6, <1>7
<1>9. Consumed \in Seq(Frames) /\ Len(Consumed) = Len(stack)
  BY <1>8, SequenceIs
<1> QED
  BY <1>1, <1>7, <1>9 DEF f

\* The content of a page, a form or a tile can be parsed.
LEMMA ContentIs ==
  ASSUME NEW c \in Contents, NEW canvas \in Canvases, NEW state \in Nat
  PROVE  Frame(c, canvas, state) \in Frames
<1>1. c \in Seq(Operator)
  BY PipelineAssumption
<1>2. c \in Seq(Operator \union Tiled)
  BY <1>1
<1> QED
  BY <1>2 DEF Frame, Frames

\* The half of a fill that is left when its tile is rendered.
LEMMA HalfIs ==
  ASSUME stack \in Seq(Frames), stack # <<>>, Top.content # <<>>, Op.op = "fill",
         NEW s, s = [stack EXCEPT ![Len(stack)].content[1].op = "tiled"]
  PROVE  /\ s \in Seq(Frames) /\ Len(s) = Len(stack)
         /\ \A i \in 1..(Len(stack) - 1) : s[i] = stack[i]
         /\ s[Len(stack)].canvas = Top.canvas /\ s[Len(stack)].state = Top.state
         /\ Len(s[Len(stack)].content) = Len(Top.content)
         /\ s[Len(stack)].content[1] = [Op EXCEPT !.op = "tiled"]
         /\ [Op EXCEPT !.op = "tiled"] \in Tiled
         /\ \A i \in 2..Len(Top.content) : s[Len(stack)].content[i] = Top.content[i]
<1>1. Top \in Frames /\ Len(stack) \in 1..Len(stack)
  BY DEF Top
<1> DEFINE c == Top.content
           h == [Op EXCEPT !.op = "tiled"]
           e == [c EXCEPT ![1] = h]
           f == [Top EXCEPT !.content = e]
<1>2. c \in Seq(Operator \union Tiled) /\ c # <<>>
  BY <1>1 DEF Frames
<1>3. Op = c[1]
  BY <1>2 DEF Op
<1>4. h \in Tiled
  <2>1. Op \in [op : {"fill"}, tile : Tiles, content : Contents]
    BY OpIs DEF Operator, Tiled
  <2> QED
    BY <2>1 DEF Tiled
<1>5. s = [stack EXCEPT ![Len(stack)] = f]
  BY <1>3 DEF Top
<1> HIDE DEF h
<1>6. /\ e \in Seq(Operator \union Tiled) /\ Len(e) = Len(c) /\ e[1] = h
      /\ \A i \in 2..Len(c) : e[i] = c[i]
  BY <1>2, <1>4
<1> HIDE DEF c, e
<1>7. f \in Frames /\ f.content = e /\ f.canvas = Top.canvas /\ f.state = Top.state
  BY <1>1, <1>6 DEF Frames
<1> HIDE DEF f
<1>8. /\ s \in Seq(Frames) /\ Len(s) = Len(stack) /\ s[Len(stack)] = f
      /\ \A i \in 1..(Len(stack) - 1) : s[i] = stack[i]
  <2>1. f \in Frames /\ Len(stack) \in Nat \ {0} /\ DOMAIN stack = 1..Len(stack)
        /\ \A i \in 1..Len(stack) : stack[i] \in Frames
    BY <1>1, <1>7
  <2>2. s = [i \in 1..Len(stack) |-> IF i = Len(stack) THEN f ELSE stack[i]]
    BY <1>5, <2>1
  <2>3. s \in [1..Len(stack) -> Frames]
    BY <2>1, <2>2
  <2>4. s \in Seq(Frames) /\ Len(s) = Len(stack)
    BY <2>1, <2>3, SequenceIs
  <2> QED
    BY <2>1, <2>2, <2>4
<1> QED
  BY <1>4, <1>6, <1>7, <1>8 DEF c, h

\* A change of the state of the innermost content.
LEMMA StateIs ==
  ASSUME NEW s \in Seq(Frames), s # <<>>, NEW n \in Nat
  PROVE  /\ [s EXCEPT ![Len(s)].state = n] \in Seq(Frames)
         /\ Len([s EXCEPT ![Len(s)].state = n]) = Len(s)
         /\ \A i \in 1..(Len(s) - 1) : [s EXCEPT ![Len(s)].state = n][i] = s[i]
         /\ [s EXCEPT ![Len(s)].state = n][Len(s)]
              = Frame(s[Len(s)].content, s[Len(s)].canvas, n)
<1>1. s[Len(s)] \in Frames /\ Len(s) \in 1..Len(s)
  OBVIOUS
<1>2. [s[Len(s)] EXCEPT !.state = n] = Frame(s[Len(s)].content, s[Len(s)].canvas, n)
  BY <1>1 DEF Frames, Frame
<1>3. Frame(s[Len(s)].content, s[Len(s)].canvas, n) \in Frames
  BY <1>1 DEF Frames, Frame
<1>4. [s EXCEPT ![Len(s)].state = n] = [s EXCEPT ![Len(s)] = [s[Len(s)] EXCEPT !.state = n]]
  OBVIOUS
<1> QED
  BY <1>1, <1>2, <1>3, <1>4

\* What is left when the innermost content ends.
LEMMA FrontIs ==
  ASSUME NEW s \in Seq(Frames), s # <<>>
  PROVE  /\ Front(s) \in Seq(Frames) /\ Len(Front(s)) = Len(s) - 1
         /\ \A i \in 1..(Len(s) - 1) : Front(s)[i] = s[i]
<1>1. Len(s) \in Nat \ {0}
  OBVIOUS
<1>2. Front(s) = SubSeq(s, 1, Len(s) - 1)
  BY DEF Front
<1>3. SubSeq(s, 1, Len(s) - 1) = [i \in 1..(Len(s) - 1) |-> s[i]]
  BY <1>1
<1>4. \A i \in 1..(Len(s) - 1) : s[i] \in Frames
  BY <1>1
<1>5. Front(s) \in [1..(Len(s) - 1) -> Frames]
  BY <1>2, <1>3, <1>4
<1>6. Front(s) \in Seq(Frames) /\ Len(Front(s)) = Len(s) - 1
  BY <1>1, <1>5, SequenceIs
<1> QED
  BY <1>2, <1>3, <1>6

---------------------------------------------------------------------------
LEMMA InitLInv == Init => LInv
<1> SUFFICES ASSUME Init PROVE LInv
  OBVIOUS
<1>1. TypeOK
  <2>1. /\ cache \in [Objects -> Pixel \union {None}] /\ taken \in [Threads -> 0..Len(batch)]
        /\ pages \in 0..MaxPages
    BY PipelineAssumption DEF Init
  <2>2. /\ deferred \in Seq(Draw) /\ batch \in Seq(Draw)
        /\ prepared \in Seq(Pixel \union {None}) /\ Len(prepared) \in {0, Len(batch)}
    <3>1. deferred = <<>> /\ batch = <<>> /\ prepared = <<>>
      BY DEF Init
    <3> QED
      BY <3>1
  <2>3. doc \in Docs /\ next \in Nat \ {0} /\ last \in Pixel \union {None}
    BY DEF Init
  <2>4. interrupted \in BOOLEAN
    BY DEF Init
  <2> QED
    BY <2>1, <2>2, <2>3, <2>4 DEF TypeOK
<1>2. NothingCarriesOver /\ KeysOwnPixels
  BY DEF Init, NothingCarriesOver, KeysOwnPixels
<1>3. Batched
  BY DEF Init, Batched
<1> QED
  BY <1>1, <1>2, <1>3 DEF Init, LInv, NothingLeaks

LEMMA RenderPageLInv ==
  ASSUME LInv, NEW d \in Docs, NEW c \in Pages, RenderPage(d, c)
  PROVE  LInv'
<1>1. deferred = <<>> /\ batch = <<>> /\ prepared = <<>>
  <2>1. deferred = <<>> /\ batch = <<>>
    BY DEF RenderPage, LInv, NothingLeaks, NothingCarriesOver, Idle
  <2>2. prepared \in Seq(Pixel \union {None}) /\ Len(prepared) \in {0, Len(batch)}
    BY DEF LInv, NothingLeaks, TypeOK
  <2> QED
    BY <2>1, <2>2
<1>2. Frame(c, "page", 0) \in Frames
  BY ContentIs, PipelineAssumption DEF Canvases
<1>3. stack' \in Seq(Frames)
  BY <1>2 DEF RenderPage
<1>4. TypeOK'
  BY PipelineAssumption DEF RenderPage, LInv, NothingLeaks, TypeOK, work
<1>5. KeysOwnPixels' /\ ~Idle'
  BY DEF RenderPage, LInv, NothingLeaks, KeysOwnPixels, Idle
<1>6. Batched'
  BY <1>1 DEF RenderPage, LInv, Batched, work
<1> QED
  BY <1>1, <1>3, <1>4, <1>5, <1>6 DEF RenderPage, LInv, NothingLeaks, NothingCarriesOver,
     Faithful, work

LEMMA EvictLInv ==
  ASSUME LInv, NEW o \in Objects, Evict(o)
  PROVE  LInv'
<1>1. TypeOK'
  BY DEF Evict, LInv, NothingLeaks, TypeOK, work
<1>2. KeysOwnPixels'
  BY DEF Evict, LInv, NothingLeaks, TypeOK, KeysOwnPixels
<1>3. Batched' /\ NothingCarriesOver'
  BY DEF Evict, LInv, NothingLeaks, NothingCarriesOver, Idle, Batched, work, Prepare, Pixels
<1> QED
  BY <1>1, <1>2, <1>3 DEF Evict, LInv, NothingLeaks, Faithful, work

\* An operator that leaves the images that were put off alone.
LEMMA OperatorLInv ==
  ASSUME LInv, ~Idle, stack' \in Seq(Frames), stack' # <<>>, interrupted' \in BOOLEAN,
         UNCHANGED <<doc, deferred, work, last, cache, pages>>
  PROVE  LInv'
<1>1. TypeOK'
  BY DEF LInv, NothingLeaks, TypeOK, work
<1>2. KeysOwnPixels' /\ ~Idle'
  BY DEF LInv, NothingLeaks, KeysOwnPixels, Idle
<1>3. Batched'
  BY <1>2 DEF LInv, Batched, work, Prepare, Pixels
<1> QED
  BY <1>1, <1>2, <1>3 DEF LInv, NothingLeaks, NothingCarriesOver, Faithful, work

\* What is put off is a draw.
LEMMA DeferredIs ==
  ASSUME LInv, NEW o \in Objects, NEW small \in BOOLEAN, NEW state \in Nat, NEW d,
         d = [obj |-> o, hit |-> cache[o] # None, pixels |-> cache[o],
              retain |-> cache[o] = None, small |-> small, state |-> state]
  PROVE  d \in Draw /\ Faithful(d)
<1>1. cache[o] \in Pixel \union {None}
  BY DEF LInv, NothingLeaks, TypeOK
<1>2. d \in Draw
  BY <1>1 DEF Draw
<1>3. cache[o] # None => cache[o].of[2] = o
  BY DEF LInv, NothingLeaks, KeysOwnPixels
<1> QED
  BY <1>2, <1>3 DEF Faithful

\* What a draw leaves in last_image_argb_ are pixels or nothing.
LEMMA LeftIs ==
  ASSUME doc \in Docs, NEW d \in Draw, Faithful(d)
  PROVE  /\ Source(d) \in Pixel /\ Left(d) \in Pixel \union {None}
         /\ d.retain /\ Left(d) # None => Left(d).of[2] = d.obj /\ ~Left(d).small
<1>1. d.obj \in Objects /\ d.hit \in BOOLEAN /\ d.retain \in BOOLEAN
      /\ d.pixels \in Pixel \union {None}
  BY DEF Draw
<1>2. Pixels(d.obj, FALSE, FALSE) \in Pixel
      /\ Pixels(d.obj, FALSE, FALSE).of[2] = d.obj /\ ~Pixels(d.obj, FALSE, FALSE).small
  BY <1>1 DEF Pixels, Pixel
<1>3. Source(d) \in Pixel
  BY <1>1, <1>2 DEF Source, Faithful
<1>4. Left(d) \in Pixel \union {None}
  BY <1>3 DEF Left
<1>5. d.retain => Source(d) = Pixels(d.obj, FALSE, FALSE)
  BY DEF Source, Faithful
<1> QED
  BY <1>2, <1>3, <1>4, <1>5 DEF Left

LEMMA PrepareIs ==
  ASSUME doc \in Docs, NEW d \in Draw, Faithful(d)
  PROVE  /\ Prepare(d) \in Pixel \union {None}
         /\ d.retain /\ Prepare(d) # None
              => Prepare(d) = Pixels(d.obj, d.obj \in Masked, d.small)
                 /\ Prepare(d).of[2] = d.obj
<1>1. d.obj \in Objects /\ d.hit \in BOOLEAN /\ d.retain \in BOOLEAN /\ d.small \in BOOLEAN
      /\ d.pixels \in Pixel \union {None}
  BY DEF Draw
<1>2. Pixels(d.obj, d.obj \in Masked, d.small) \in Pixel
      /\ Pixels(d.obj, d.obj \in Masked, d.small).of[2] = d.obj
  <2>1. (d.obj \in Masked) \in BOOLEAN
    OBVIOUS
  <2> QED
    BY <1>1, <2>1 DEF Pixels, Pixel
<1>3. d.hit => [d.pixels EXCEPT !.small = d.small] \in Pixel
  BY <1>1 DEF Faithful, Pixel
<1> QED
  BY <1>1, <1>2, <1>3 DEF Prepare, Faithful

LEMMA DoImageLInv ==
  ASSUME LInv, DoImage
  PROVE  LInv'
<1>1. stack # <<>> /\ Top.content # <<>> /\ Op.op = "image" /\ batch = <<>>
  BY DEF DoImage, Reads
<1>2. Op.obj \in Objects /\ Op.small \in BOOLEAN /\ Top.state \in Nat
  BY <1>1, OpIs DEF LInv, Frames
<1>3. stack' \in Seq(Frames) /\ stack' # <<>>
  BY <1>1, ConsumedIs DEF DoImage, LInv
<1> DEFINE d == [obj |-> Op.obj, hit |-> cache[Op.obj] # None, pixels |-> cache[Op.obj],
                 retain |-> cache[Op.obj] = None, small |-> Op.small, state |-> Top.state]
<1>4. d \in Draw /\ Faithful(d)
  BY <1>2, DeferredIs
<1>5. interrupted' \in BOOLEAN /\ UNCHANGED <<doc, work, cache, tiles, pages>>
  BY DEF DoImage, Progress
<1>6. \/ last' = Left(d) /\ UNCHANGED deferred
      \/ deferred' = Append(deferred, d) /\ UNCHANGED last
  BY DEF DoImage
<1>7. doc \in Docs /\ deferred \in Seq(Draw) /\ last \in Pixel \union {None}
  BY DEF LInv, NothingLeaks, TypeOK
<1> HIDE DEF d
<1>8. last' \in Pixel \union {None} /\ deferred' \in Seq(Draw)
  BY <1>4, <1>6, <1>7, LeftIs
<1>9. \A i \in 1..Len(deferred') : Faithful(deferred'[i])
  BY <1>4, <1>6, <1>7 DEF LInv
<1>10. TypeOK'
  BY <1>5, <1>8 DEF LInv, NothingLeaks, TypeOK, work
<1>11. KeysOwnPixels' /\ ~Idle'
  BY <1>3, <1>5 DEF LInv, NothingLeaks, KeysOwnPixels, Idle
<1>12. Batched'
  BY <1>1, <1>5, <1>11 DEF LInv, Batched, work, Prepare, Pixels
<1>13. \A i \in 1..Len(batch') : Faithful(batch'[i])
  BY <1>1, <1>5 DEF work
<1> QED
  BY <1>3, <1>9, <1>10, <1>11, <1>12, <1>13 DEF LInv, NothingLeaks, NothingCarriesOver, Faithful

LEMMA FillLInv ==
  ASSUME LInv, Fill
  PROVE  LInv'
<1>1. stack # <<>> /\ Top.content # <<>>
  BY DEF Fill, Reads
<1>2. stack' \in Seq(Frames) /\ stack' # <<>>
  BY <1>1, ConsumedIs DEF Fill, LInv
<1> QED
  BY <1>1, <1>2, OperatorLInv DEF Fill, Progress, Idle

LEMMA RenderTileLInv ==
  ASSUME LInv, RenderTile
  PROVE  LInv'
<1>1. stack # <<>> /\ Top.content # <<>> /\ Op.op = "fill" /\ stack \in Seq(Frames)
  BY DEF RenderTile, Reads, LInv
<1>2. Op.tile \in Canvases /\ Op.content \in Contents
  BY <1>1, OpIs DEF Canvases
<1>3. Frame(Op.content, Op.tile, 0) \in Frames
  BY <1>2, ContentIs
<1>4. [stack EXCEPT ![Len(stack)].content[1].op = "tiled"] \in Seq(Frames)
  BY <1>1, HalfIs
<1>5. stack' \in Seq(Frames) /\ stack' # <<>>
  BY <1>3, <1>4 DEF RenderTile
<1> QED
  BY <1>1, <1>5, OperatorLInv DEF RenderTile, Idle, LInv, NothingLeaks, TypeOK

LEMMA EndContentLInv ==
  ASSUME LInv, EndContent
  PROVE  LInv'
<1>1. stack # <<>> /\ stack \in Seq(Frames) /\ batch = <<>>
  BY DEF EndContent, LInv
<1>2. /\ stack' \in Seq(Frames) /\ Len(stack') = Len(stack) - 1
      /\ deferred' \in Seq(Draw) /\ deferred' \in {deferred, <<>>}
      /\ Len(stack) = 1 => deferred' = <<>>
      /\ UNCHANGED <<doc, work, last, cache, interrupted, pages>>
  BY <1>1, FrontIs DEF EndContent, LInv, NothingLeaks, TypeOK
<1>3. TypeOK'
  BY <1>2 DEF LInv, NothingLeaks, TypeOK, work
<1>4. KeysOwnPixels'
  BY <1>2 DEF LInv, NothingLeaks, KeysOwnPixels
<1>5. NothingCarriesOver'
  BY <1>1, <1>2 DEF NothingCarriesOver, Idle, work
<1>6. Batched'
  BY <1>1, <1>2 DEF LInv, Batched, work, Prepare, Pixels
<1> QED
  BY <1>2, <1>3, <1>4, <1>5, <1>6 DEF LInv, NothingLeaks, Faithful, work

LEMMA FlushLInv ==
  ASSUME LInv, Flush
  PROVE  LInv'
<1>1. /\ stack # <<>> /\ batch = <<>> /\ deferred # <<>> /\ deferred \in Seq(Draw)
      /\ batch' = deferred /\ deferred' = <<>> /\ next' = 1
      /\ prepared' = IF Len(deferred) = 1 THEN <<>> ELSE [i \in DOMAIN deferred |-> None]
      /\ UNCHANGED <<doc, stack, taken, last, cache, interrupted, pages>>
  BY DEF Flush, LInv, NothingLeaks, TypeOK
<1>2. prepared = <<>>
  BY <1>1 DEF LInv, NothingLeaks, TypeOK
<1>3. \A t \in Threads : taken[t] = 0
  BY <1>2 DEF LInv, Batched
<1>4. /\ prepared' \in Seq(Pixel \union {None}) /\ Len(prepared') \in {0, Len(batch')}
      /\ prepared' = <<>> => Len(batch') < 2
      /\ \A i \in 1..Len(prepared') : prepared'[i] = None
  BY <1>1
<1>5. taken' \in [Threads -> 0..Len(batch')]
  <2>1. taken \in [Threads -> 0..Len(batch)]
    BY DEF LInv, NothingLeaks, TypeOK
  <2> QED
    BY <2>1, <1>1, <1>3
<1>6. TypeOK'
  BY <1>1, <1>4, <1>5 DEF LInv, NothingLeaks, TypeOK
<1>7. KeysOwnPixels' /\ NothingCarriesOver'
  BY <1>1 DEF LInv, NothingLeaks, KeysOwnPixels, NothingCarriesOver, Idle
<1>8. Batched'
  BY <1>1, <1>3, <1>4 DEF Batched, Idle
<1> QED
  BY <1>1, <1>6, <1>7, <1>8 DEF LInv, NothingLeaks, Faithful

\* What a draw stores is its object's.
LEMMA StoringIs ==
  ASSUME cache \in [Objects -> Pixel \union {None}], KeysOwnPixels,
         NEW d \in Draw, NEW p \in Pixel \union {None}, cache' = Storing(d, p),
         d.retain /\ p # None => p.of[2] = d.obj
  PROVE  cache' \in [Objects -> Pixel \union {None}] /\ KeysOwnPixels'
<1>1. d.obj \in Objects
  BY DEF Draw
<1> QED
  BY <1>1 DEF Storing, KeysOwnPixels

LEMMA DrawSingleLInv ==
  ASSUME LInv, DrawSingle
  PROVE  LInv'
<1>1. batch # <<>> /\ prepared = <<>> /\ batch \in Seq(Draw) /\ ~Idle /\ deferred = <<>>
  BY DEF DrawSingle, LInv, NothingLeaks, TypeOK, Batched
<1>2. batch[1] \in Draw /\ Faithful(batch[1])
  BY <1>1 DEF LInv
<1>3. doc \in Docs /\ cache \in [Objects -> Pixel \union {None}] /\ KeysOwnPixels
  BY DEF LInv, NothingLeaks, TypeOK
<1> DEFINE d == batch[1]
<1>4. /\ batch' = <<>> /\ cache' = Storing(d, Left(d))
      /\ last' = IF d.retain THEN None ELSE Left(d)
      /\ UNCHANGED <<doc, stack, deferred, next, taken, prepared, interrupted, pages>>
  BY DEF DrawSingle, Leaves
<1>5. Left(d) \in Pixel \union {None} /\ (d.retain /\ Left(d) # None => Left(d).of[2] = d.obj)
  BY <1>2, <1>3, LeftIs
<1>6. last' \in Pixel \union {None}
  BY <1>4, <1>5
<1>7. cache' \in [Objects -> Pixel \union {None}] /\ KeysOwnPixels'
  BY <1>2, <1>3, <1>4, <1>5, StoringIs
<1> HIDE DEF d
<1>8. \A t \in Threads : taken[t] = 0
  BY <1>1 DEF LInv, Batched
<1>9. taken' \in [Threads -> 0..Len(batch')]
  <2>1. taken \in [Threads -> 0..Len(batch)]
    BY DEF LInv, NothingLeaks, TypeOK
  <2> QED
    BY <2>1, <1>4, <1>8
<1>10. TypeOK'
  BY <1>1, <1>4, <1>6, <1>7, <1>9 DEF LInv, NothingLeaks, TypeOK
<1>11. Batched' /\ NothingCarriesOver'
  BY <1>1, <1>4, <1>8 DEF Batched, NothingCarriesOver, Idle
<1> QED
  BY <1>1, <1>4, <1>7, <1>10, <1>11 DEF LInv, NothingLeaks, Faithful

LEMMA FetchLInv ==
  ASSUME LInv, NEW t \in Threads, Fetch(t)
  PROVE  LInv'
<1>1. /\ next \in Nat \ {0} /\ next \in 0..Len(batch) /\ prepared # <<>>
      /\ taken' = [taken EXCEPT ![t] = next] /\ next' = next + 1
      /\ UNCHANGED <<doc, stack, deferred, batch, prepared, last, cache, interrupted, pages>>
  BY DEF Fetch, LInv, NothingLeaks, TypeOK
<1>2. taken' \in [Threads -> 0..Len(batch')]
  <2>1. taken \in [Threads -> 0..Len(batch)]
    BY DEF LInv, NothingLeaks, TypeOK
  <2> QED
    BY <2>1, <1>1
<1>3. TypeOK'
  BY <1>1, <1>2 DEF LInv, NothingLeaks, TypeOK
<1>4. KeysOwnPixels' /\ NothingCarriesOver'
  BY <1>1 DEF LInv, NothingLeaks, KeysOwnPixels, NothingCarriesOver, Idle
<1>5. Batched'
  BY <1>1 DEF LInv, Batched, Idle, Prepare, Pixels
<1> QED
  BY <1>1, <1>3, <1>4, <1>5 DEF LInv, NothingLeaks, Faithful

LEMMA ConvertLInv ==
  ASSUME LInv, NEW t \in Threads, Convert(t)
  PROVE  LInv'
<1>1. /\ batch \in Seq(Draw) /\ prepared \in Seq(Pixel \union {None})
      /\ taken \in [Threads -> 0..Len(batch)]
      /\ doc \in Docs /\ Len(prepared) \in {0, Len(batch)}
  BY DEF LInv, NothingLeaks, TypeOK
<1>2. /\ taken[t] # 0
      /\ prepared' = [prepared EXCEPT ![taken[t]] = Prepare(batch[taken[t]])]
      /\ taken' = [taken EXCEPT ![t] = 0]
      /\ UNCHANGED <<doc, stack, deferred, batch, next, last, cache, interrupted, pages>>
  BY DEF Convert
<1>3. prepared # <<>>
  BY <1>2 DEF LInv, Batched
<1>4. taken[t] \in 1..Len(batch) /\ Len(prepared) = Len(batch)
  BY <1>1, <1>2, <1>3
<1> DEFINE d == batch[taken[t]]
<1>5. d \in Draw /\ Faithful(d)
  BY <1>1, <1>4 DEF LInv
<1>6. Prepare(d) \in Pixel \union {None}
  BY <1>1, <1>5, PrepareIs
<1>7. /\ prepared' \in Seq(Pixel \union {None}) /\ Len(prepared') = Len(prepared)
      /\ \A i \in 1..Len(prepared) : i # taken[t] => prepared'[i] = prepared[i]
      /\ prepared'[taken[t]] = Prepare(d)
  BY <1>1, <1>2, <1>4, <1>6
<1> HIDE DEF d
<1>8. taken' \in [Threads -> 0..Len(batch)]
  BY <1>1, <1>2
<1>9. TypeOK'
  BY <1>1, <1>2, <1>7, <1>8 DEF LInv, NothingLeaks, TypeOK
<1>10. KeysOwnPixels' /\ NothingCarriesOver'
  BY <1>2 DEF LInv, NothingLeaks, KeysOwnPixels, NothingCarriesOver, Idle
<1>11. \A i \in 1..Len(prepared') : prepared'[i] \in {None, Prepare(batch[i])}
  BY <1>7 DEF LInv, Batched, d
<1>12. \A e : Prepare(e)' = Prepare(e)
  BY <1>2 DEF Prepare, Pixels
<1>13. prepared' # <<>>
  BY <1>3, <1>1, <1>7
<1>14. Batched'
  <2>1. \A i \in 1..Len(prepared') : prepared'[i] \in {None, Prepare(batch[i])'}
    BY <1>2, <1>11 DEF Prepare, Pixels
  <2>2. batch' # <<>> => ~Idle' /\ deferred' = <<>>
    BY <1>2 DEF LInv, Batched, Idle
  <2> QED
    BY <1>13, <2>1, <2>2 DEF Batched
<1> QED
  BY <1>2, <1>9, <1>10, <1>14 DEF LInv, NothingLeaks, Faithful

LEMMA SubmitLInv ==
  ASSUME LInv, Submit
  PROVE  LInv'
<1>1. /\ batch \in Seq(Draw) /\ prepared \in Seq(Pixel \union {None})
      /\ taken \in [Threads -> 0..Len(batch)] /\ Len(prepared) = Len(batch)
      /\ prepared # <<>> /\ batch # <<>>
      /\ doc \in Docs /\ cache \in [Objects -> Pixel \union {None}] /\ KeysOwnPixels
  BY DEF Submit, LInv, NothingLeaks, TypeOK
<1> DEFINE d == batch[1]
           p == prepared[1]
<1>2. d \in Draw /\ Faithful(d) /\ p \in Pixel \union {None}
  BY <1>1 DEF LInv
<1>3. p \in {None, Prepare(d)}
  BY <1>1 DEF LInv, Batched
<1>4. /\ \/ cache' = Storing(d, Kept(d, p))
         \/ cache' = cache
      /\ last' \in {None, Kept(d, p), Left(d)}
      /\ batch' = Tail(batch) /\ prepared' = Tail(prepared)
      /\ \A t \in Threads : taken[t] = 0
      /\ UNCHANGED <<doc, stack, deferred, next, taken, interrupted, pages>>
  BY DEF Submit, Leaves
<1> HIDE DEF d, p
<1>5. Left(d) \in Pixel \union {None}
  BY <1>1, <1>2, LeftIs
<1>6. Kept(d, p) \in Pixel \union {None}
      /\ (d.retain /\ Kept(d, p) # None => Kept(d, p).of[2] = d.obj)
  BY <1>1, <1>2, <1>3, PrepareIs DEF Kept
<1>7. cache' \in [Objects -> Pixel \union {None}] /\ KeysOwnPixels'
  <2>1. CASE cache' = Storing(d, Kept(d, p))
    BY <2>1, <1>1, <1>2, <1>6, StoringIs
  <2>2. CASE cache' = cache
    BY <2>2, <1>1 DEF KeysOwnPixels
  <2> QED
    BY <2>1, <2>2, <1>4
<1>8. last' \in Pixel \union {None}
  BY <1>4, <1>5, <1>6
<1>9. /\ batch' \in Seq(Draw) /\ Len(batch') = Len(batch) - 1
      /\ \A i \in 1..Len(batch') : batch'[i] = batch[i + 1] /\ i + 1 \in 1..Len(batch)
      /\ prepared' \in Seq(Pixel \union {None}) /\ Len(prepared') = Len(batch')
      /\ \A i \in 1..Len(prepared') : prepared'[i] = prepared[i + 1]
  BY <1>1, <1>4
<1>10. taken' \in [Threads -> 0..Len(batch')]
  BY <1>1, <1>4, <1>9
<1>11. TypeOK'
  BY <1>1, <1>4, <1>7, <1>8, <1>9, <1>10 DEF LInv, NothingLeaks, TypeOK
<1>12. ~Idle' /\ deferred' = <<>>
  BY <1>1, <1>4 DEF LInv, Batched, Idle
<1>13. Batched'
  <2>1. \A i \in 1..Len(prepared') : prepared'[i] \in {None, Prepare(batch'[i])}
    BY <1>9, <1>1 DEF LInv, Batched
  <2>2. \A i \in 1..Len(prepared') : prepared'[i] \in {None, Prepare(batch[i])'}
    BY <1>4, <2>1 DEF Prepare, Pixels
  <2>3. prepared' = <<>> => Len(batch') < 2
    <3> SUFFICES ASSUME prepared' = <<>> PROVE Len(batch') < 2
      OBVIOUS
    <3>1. Len(prepared') = 0
      OBVIOUS
    <3>2. Len(prepared') = Len(batch')
      BY <1>9
    <3> QED
      BY <3>1, <3>2
  <2> QED
    BY <1>4, <1>12, <2>2, <2>3 DEF Batched
<1>14. \A i \in 1..Len(batch') : Faithful(batch'[i])
  BY <1>9 DEF LInv
<1>15. NothingCarriesOver'
  BY <1>12 DEF NothingCarriesOver
<1> QED
  BY <1>4, <1>7, <1>11, <1>12, <1>13, <1>14, <1>15 DEF LInv, NothingLeaks, Faithful

LEMMA NextLInv ==
  ASSUME LInv, [Next]_vars
  PROVE  LInv'
<1>1. ASSUME NEW d \in Docs, NEW c \in Pages, RenderPage(d, c) PROVE LInv'
  BY <1>1, RenderPageLInv
<1>2. ASSUME NEW o \in Objects, Evict(o) PROVE LInv'
  BY <1>2, EvictLInv
<1>3. CASE DoImage
  BY <1>3, DoImageLInv
<1>4. CASE SetState
  <2>1. stack # <<>> /\ Top.content # <<>> /\ Op.op = "state"
    BY <1>4 DEF SetState, Reads
  <2>2. Op.to \in Nat
    BY <2>1, OpIs DEF LInv
  <2>3. Consumed \in Seq(Frames) /\ Len(Consumed) = Len(stack)
    BY <2>1, ConsumedIs DEF LInv
  <2>4. stack' \in Seq(Frames) /\ stack' # <<>>
    <3>1. Consumed # <<>> /\ stack' = [Consumed EXCEPT ![Len(Consumed)].state = Op.to]
      BY <1>4, <2>1, <2>3 DEF SetState
    <3>2. stack' \in Seq(Frames) /\ Len(stack') = Len(Consumed)
      BY <3>1, <2>2, <2>3, StateIs
    <3> QED
      BY <3>1, <3>2, <2>3
  <2> QED
    BY <1>4, <2>1, <2>4, OperatorLInv DEF SetState, Idle, LInv, NothingLeaks, TypeOK
<1>5. CASE Paint
  <2>1. stack # <<>> /\ Top.content # <<>>
    BY <1>5 DEF Paint, Reads
  <2>2. stack' \in Seq(Frames) /\ stack' # <<>>
    BY <1>5, <2>1, ConsumedIs DEF Paint, LInv
  <2> QED
    BY <1>5, <2>1, <2>2, OperatorLInv DEF Paint, Progress, Idle
<1>6. CASE DoForm
  <2>1. stack # <<>> /\ Top.content # <<>> /\ Op.op = "form"
    BY <1>6 DEF DoForm, Reads
  <2>2. Op.content \in Contents /\ Top \in Frames
    BY <2>1, OpIs DEF LInv
  <2>3. Frame(Op.content, Top.canvas, Top.state) \in Frames
    BY <2>2, ContentIs DEF Frames
  <2>4. stack' \in Seq(Frames) /\ stack' # <<>>
    BY <1>6, <2>1, <2>3, ConsumedIs DEF DoForm, LInv
  <2> QED
    BY <1>6, <2>1, <2>4, OperatorLInv DEF DoForm, Idle, LInv, NothingLeaks, TypeOK
<1>7. CASE RenderTile
  BY <1>7, RenderTileLInv
<1>8. CASE Fill
  BY <1>8, FillLInv
<1>9. CASE EndContent
  BY <1>9, EndContentLInv
<1>10. CASE Flush
  BY <1>10, FlushLInv
<1>11. CASE DrawSingle
  BY <1>11, DrawSingleLInv
<1>12. CASE Submit
  BY <1>12, SubmitLInv
<1>13. ASSUME NEW t \in Threads, Thread(t) PROVE LInv'
  BY <1>13, FetchLInv, ConvertLInv DEF Thread
<1>14. CASE UNCHANGED vars
  BY <1>14 DEF vars, work, LInv, NothingLeaks, TypeOK, NothingCarriesOver, KeysOwnPixels, Idle,
     Batched, Faithful, Prepare, Pixels
<1> QED
  BY <1>1, <1>2, <1>3, <1>4, <1>5, <1>6, <1>7, <1>8, <1>9, <1>10, <1>11, <1>12, <1>13, <1>14
     DEF Next, Main

THEOREM PagesInvariance == Spec => []LInv
  BY InitLInv, NextLInv, PTL DEF Spec

\* Nothing of a page is left for the next one to draw, however the pages are cut short
\* and whatever the threads of a flush convert, and what is kept under the number of an
\* object are its pixels.
THEOREM PagesLeakNothing == Spec => []NothingLeaks
<1>1. LInv => NothingLeaks
  BY DEF LInv
<1> QED
  BY <1>1, PagesInvariance, PTL

---------------------------------------------------------------------------
(* What a page shows. *)

Things ==
  [what : [image : (Docs \X Objects) \union (({"paint"} \union Tiles) \X {0}), alpha : BOOLEAN],
   on : Canvases, state : Nat]
Wanted(source, on, d) == Thing(Asked(source, d.obj), on, d.state)

\* Shown, in a page of document k, for objects used by us and crowded in cr.
ShownIn(k, us, cr, r, a) ==
  \/ r = a
  \/ \E o \in Objects :
       /\ a = Thing(Asked(k, o), a.on, a.state)
       /\ r.on = a.on /\ r.state = a.state /\ r.what.image[2] = o
       /\ us[o] \subseteq {k} => r.what.image[1] = k
       /\ o \notin cr => r.what.alpha

\* r is what was drawn of a, and s the draws on a canvas that are missing, unless a tile
\* with images left over was used.
Started(k, us, cr, a, r) == \A i \in 1..Len(r) : ShownIn(k, us, cr, r[i], a[i])
Behind(k, on, a, r, s) == \A i \in 1..Len(s) : a[Len(r) + i] = Wanted(k, on, s[i])
Follows(k, on, us, cr, sp, a, r, s) ==
  /\ Len(a) = Len(r) + Len(s)
  /\ ~sp => Started(k, us, cr, a, r) /\ Behind(k, on, a, r, s)

Pending == IF batch # <<>> THEN batch ELSE deferred
Drew ==
  /\ asked \in Seq(Things) /\ drawn \in Seq(Things)
  /\ ~Idle => Follows(doc, Top.canvas, users, crowded, spilled, asked, drawn, Pending)
  /\ Idle => /\ Len(drawn) <= Len(asked) /\ (~interrupted => Len(drawn) = Len(asked))
             /\ ~spilled => Started(doc, users, crowded, asked, drawn)

\* Pixels come from a document that asked for the object, and are multiplied by their
\* alpha only if it was prepared among others.
Known(p, o, us, cr) == p.of[1] \in us[o] /\ (p.premul => o \in cr)
Owned(d, k, us, cr) == k \in us[d.obj] /\ (d.hit => Known(d.pixels, d.obj, us, cr))
Sourced ==
  /\ users \in [Objects -> SUBSET Docs] /\ crowded \subseteq Objects
  /\ \A o \in Objects : cache[o] # None => Known(cache[o], o, users, crowded)
  /\ \A i \in 1..Len(deferred) : Owned(deferred[i], doc, users, crowded)
  /\ \A i \in 1..Len(batch) : Owned(batch[i], doc, users, crowded)
  /\ prepared # <<>> => \A i \in 1..Len(batch) : Heavy(batch[i]) => batch[i].obj \in crowded

\* Content i of s is halfway through a fill; only the first operator of one is.
Half(s, i) == s[i].content # <<>> /\ s[i].content[1].op = "tiled"
Tailed(c) == \A k \in 2..Len(c) : c[k].op # "tiled"

\* A content is drawn on the canvas under it, unless that one waits for a tile.
Nested(s) ==
  /\ \A i \in 1..Len(s) : Tailed(s[i].content)
  /\ \A i \in 1..(Len(s) - 1) : ~Half(s, i) => s[i + 1].canvas = s[i].canvas

\* A fill goes on with nothing put off, unless its tile left it.
Closed == ~Idle /\ ~spilled /\ Half(stack, Len(stack)) => deferred = <<>>

SInv == Nested(stack) /\ Closed /\ Sourced /\ Drew

---------------------------------------------------------------------------
(* Sequences of what was asked for and drawn. *)

\* What is left of a content once its first operator was read.
LEMMA TailIs ==
  ASSUME NEW S, NEW c \in Seq(S), c # <<>>
  PROVE  /\ Tail(c) \in Seq(S) /\ Len(Tail(c)) = Len(c) - 1 /\ Len(c) \in Nat \ {0}
         /\ \A i \in 1..Len(Tail(c)) : i + 1 \in 2..Len(c) /\ Tail(c)[i] = c[i + 1]
         /\ \A i \in 2..Len(c) : i - 1 \in 1..Len(Tail(c)) /\ Tail(c)[i - 1] = c[i]
  OBVIOUS

LEMMA WantedIs ==
  ASSUME NEW k \in Docs, NEW on \in Canvases, NEW d \in Draw
  PROVE  Wanted(k, on, d) \in Things
<1>1. d.obj \in Objects /\ d.state \in Nat
  BY DEF Draw
<1>2. <<k, d.obj>> \in Docs \X Objects
  BY <1>1
<1>3. [image |-> <<k, d.obj>>, alpha |-> TRUE]
        \in [image : (Docs \X Objects) \union (({"paint"} \union Tiles) \X {0}), alpha : BOOLEAN]
  BY <1>2
<1> QED
  BY <1>1, <1>3 DEF Wanted, Asked, Thing, Things

LEMMA PaintedIs ==
  ASSUME NEW what \in {"paint"} \union Tiles, NEW on \in Canvases, NEW state \in Nat
  PROVE  Thing(Asked(what, 0), on, state) \in Things
<1>1. <<what, 0>> \in ({"paint"} \union Tiles) \X {0}
  OBVIOUS
<1>2. [image |-> <<what, 0>>, alpha |-> TRUE]
        \in [image : (Docs \X Objects) \union (({"paint"} \union Tiles) \X {0}), alpha : BOOLEAN]
  BY <1>1
<1> QED
  BY <1>2 DEF Asked, Thing, Things

\* What was shown stays so while more documents use objects and more are crowded.
LEMMA FollowsLater ==
  ASSUME NEW k, NEW on, NEW us, NEW cr, NEW sp, NEW a, NEW r, NEW s,
         Follows(k, on, us, cr, sp, a, r, s),
         NEW vs, NEW ds, NEW sq, \A o \in Objects : us[o] \subseteq vs[o],
         cr \subseteq ds, sp => sq
  PROVE  Follows(k, on, vs, ds, sq, a, r, s)
<1>1. ASSUME NEW x, NEW y, ShownIn(k, us, cr, x, y) PROVE ShownIn(k, vs, ds, x, y)
  BY <1>1 DEF ShownIn
<1>2. Started(k, us, cr, a, r) => Started(k, vs, ds, a, r)
  BY <1>1 DEF Started
<1> QED
  BY <1>2 DEF Follows

\* An image is asked for and put off.
LEMMA AskMore ==
  ASSUME NEW k, NEW on, NEW us, NEW cr, NEW sp, NEW a \in Seq(Things), NEW r \in Seq(Things),
         NEW s \in Seq(Draw), NEW d \in Draw, Wanted(k, on, d) \in Things,
         Follows(k, on, us, cr, sp, a, r, s), NEW b, b = Append(a, Wanted(k, on, d))
  PROVE  b \in Seq(Things) /\ Follows(k, on, us, cr, sp, b, r, Append(s, d))
<1> DEFINE w == Wanted(k, on, d)
           e == Append(s, d)
<1>1. PICK l \in Nat, m \in Nat, n \in Nat : l = Len(a) /\ m = Len(r) /\ n = Len(s)
  OBVIOUS
<1>2. l = m + n
  BY <1>1 DEF Follows
<1>3. b \in Seq(Things) /\ Len(b) = l + 1 /\ b[l + 1] = w /\ \A i \in 1..l : b[i] = a[i]
  BY <1>1
<1>4. Len(e) = n + 1 /\ e[n + 1] = d /\ \A i \in 1..n : e[i] = s[i]
  BY <1>1
<1> HIDE DEF e, w
<1>5. ASSUME ~sp PROVE Started(k, us, cr, b, r)
  <2>1. \A i \in 1..m : ShownIn(k, us, cr, r[i], a[i])
    BY <1>1, <1>5 DEF Follows, Started
  <2>2. \A i \in 1..m : b[i] = a[i]
    BY <1>2, <1>3
  <2> QED
    BY <1>1, <2>1, <2>2 DEF Started
<1>6. ASSUME ~sp, NEW i \in 1..(n + 1) PROVE b[m + i] = Wanted(k, on, e[i])
  <2>1. CASE i = n + 1
    <3>1. m + i = l + 1
      BY <1>2, <2>1
    <3> QED
      BY <3>1, <2>1, <1>3, <1>4 DEF w
  <2>2. CASE i # n + 1
    <3>1. i \in 1..n /\ m + i \in 1..l
      BY <1>2, <2>2
    <3>2. a[m + i] = Wanted(k, on, s[i])
      BY <3>1, <1>1, <1>6 DEF Follows, Behind
    <3> QED
      BY <3>1, <3>2, <1>3, <1>4
  <2> QED
    BY <2>1, <2>2
<1>7. Len(b) = m + Len(e)
  BY <1>2, <1>3, <1>4
<1>8. ~sp => Behind(k, on, b, r, e)
  BY <1>1, <1>4, <1>6 DEF Behind
<1>9. Follows(k, on, us, cr, sp, b, r, e)
  BY <1>1, <1>5, <1>7, <1>8 DEF Follows
<1> QED
  BY <1>3, <1>9 DEF e

\* The first of the missing draws is drawn.
LEMMA DrawFirst ==
  ASSUME NEW k, NEW on, NEW us, NEW cr, NEW sp, NEW a \in Seq(Things), NEW r \in Seq(Things),
         NEW s \in Seq(Draw), s # <<>>, Follows(k, on, us, cr, sp, a, r, s),
         NEW v \in Things, ShownIn(k, us, cr, v, Wanted(k, on, s[1])),
         NEW q, q = Append(r, v)
  PROVE  q \in Seq(Things) /\ Follows(k, on, us, cr, sp, a, q, Tail(s))
<1> DEFINE w == Wanted(k, on, s[1])
           t == Tail(s)
<1>1. PICK l \in Nat, m \in Nat, n \in Nat : l = Len(a) /\ m = Len(r) /\ n = Len(s)
  OBVIOUS
<1>2. l = m + n
  BY <1>1 DEF Follows
<1>3. q \in Seq(Things) /\ Len(q) = m + 1 /\ q[m + 1] = v /\ \A i \in 1..m : q[i] = r[i]
  BY <1>1
<1>4. n \in Nat \ {0} /\ Len(t) = n - 1 /\ \A i \in 1..(n - 1) : t[i] = s[i + 1]
  BY <1>1, TailIs
<1>5. ShownIn(k, us, cr, v, w)
  OBVIOUS
<1>6. ~sp => a[m + 1] = w
  BY <1>1, <1>4 DEF Follows, Behind
<1> HIDE DEF t, w
<1>7. ASSUME ~sp PROVE Started(k, us, cr, a, q)
  <2> SUFFICES ASSUME NEW i \in 1..(m + 1) PROVE ShownIn(k, us, cr, q[i], a[i])
    BY <1>3 DEF Started
  <2>1. CASE i = m + 1
    BY <2>1, <1>3, <1>5, <1>6, <1>7
  <2>2. CASE i # m + 1
    <3>1. i \in 1..m
      BY <2>2
    <3>2. ShownIn(k, us, cr, r[i], a[i])
      BY <3>1, <1>1, <1>7 DEF Follows, Started
    <3> QED
      BY <3>1, <3>2, <1>3
  <2> QED
    BY <2>1, <2>2
<1>8. ASSUME ~sp, NEW i \in 1..(n - 1) PROVE a[(m + 1) + i] = Wanted(k, on, t[i])
  <2>1. (m + 1) + i = m + (i + 1) /\ i + 1 \in 1..n
    BY <1>4
  <2>2. a[m + (i + 1)] = Wanted(k, on, s[i + 1])
    BY <2>1, <1>1, <1>8 DEF Follows, Behind
  <2> QED
    BY <2>1, <2>2, <1>4
<1>9. Len(a) = (m + 1) + Len(t)
  BY <1>1, <1>2, <1>4
<1>10. ~sp => Behind(k, on, a, q, t)
  BY <1>3, <1>4, <1>8 DEF Behind
<1>11. Follows(k, on, us, cr, sp, a, q, t)
  BY <1>3, <1>7, <1>9, <1>10 DEF Follows
<1> QED
  BY <1>3, <1>11 DEF t

\* What is asked for is drawn at once, with nothing missing or where nothing is said.
LEMMA AskAndDraw ==
  ASSUME NEW k, NEW on, NEW us, NEW cr, NEW sp, NEW a \in Seq(Things), NEW r \in Seq(Things),
         NEW s \in Seq(Draw), ~sp => s = <<>>, NEW w \in Things,
         Follows(k, on, us, cr, sp, a, r, s)
  PROVE  /\ Append(a, w) \in Seq(Things) /\ Append(r, w) \in Seq(Things)
         /\ Follows(k, on, us, cr, sp, Append(a, w), Append(r, w), s)
<1> DEFINE b == Append(a, w)
           q == Append(r, w)
<1>1. PICK l \in Nat, m \in Nat, n \in Nat : l = Len(a) /\ m = Len(r) /\ n = Len(s)
  OBVIOUS
<1>2. /\ b \in Seq(Things) /\ Len(b) = l + 1 /\ b[l + 1] = w /\ \A i \in 1..l : b[i] = a[i]
      /\ q \in Seq(Things) /\ Len(q) = m + 1 /\ q[m + 1] = w /\ \A i \in 1..m : q[i] = r[i]
  BY <1>1
<1>3. l = m + n
  BY <1>1 DEF Follows
<1> HIDE DEF b, q
<1>4. Len(b) = Len(q) + Len(s)
  BY <1>1, <1>2, <1>3
<1>5. ASSUME ~sp PROVE Started(k, us, cr, b, q) /\ Behind(k, on, b, q, s)
  <2>1. n = 0 /\ l = m
    BY <1>1, <1>3, <1>5
  <2>2. ASSUME NEW i \in 1..(m + 1) PROVE ShownIn(k, us, cr, q[i], b[i])
    <3>1. CASE i = m + 1
      BY <3>1, <2>1, <1>2 DEF ShownIn
    <3>2. CASE i # m + 1
      <4>1. i \in 1..m /\ i \in 1..l
        BY <3>2, <2>1
      <4>2. ShownIn(k, us, cr, r[i], a[i])
        BY <4>1, <1>1, <1>5 DEF Follows, Started
      <4> QED
        BY <4>1, <4>2, <1>2
    <3> QED
      BY <3>1, <3>2
  <2>3. Started(k, us, cr, b, q)
    BY <2>2, <1>2 DEF Started
  <2> QED
    BY <2>1, <2>3, <1>1 DEF Behind
<1>6. Follows(k, on, us, cr, sp, b, q, s)
  BY <1>4, <1>5 DEF Follows
<1> QED
  BY <1>2, <1>6 DEF b, q

---------------------------------------------------------------------------
(* Pixels. *)

LEMMA KnownLater ==
  ASSUME NEW us, NEW cr, NEW vs, NEW ds, \A o \in Objects : us[o] \subseteq vs[o],
         cr \subseteq ds
  PROVE  /\ \A p : \A o \in Objects : Known(p, o, us, cr) => Known(p, o, vs, ds)
         /\ \A k : \A d \in Draw : Owned(d, k, us, cr) => Owned(d, k, vs, ds)
<1>1. \A p : \A o \in Objects : Known(p, o, us, cr) => Known(p, o, vs, ds)
  BY DEF Known
<1>2. \A d \in Draw : d.obj \in Objects
  BY DEF Draw
<1> QED
  BY <1>1, <1>2 DEF Owned

\* What is drawn with pixels of the object of a draw.
LEMMA PictureShows ==
  ASSUME doc \in Docs, NEW d \in Draw, NEW p \in Pixel, NEW flag \in BOOLEAN,
         NEW on \in Canvases, p.of[2] = d.obj, users[d.obj] \subseteq {doc} => p.of[1] = doc,
         d.obj \notin crowded => p.premul = flag
  PROVE  /\ Picture(d, p, flag, on, d.state) \in Things
         /\ ShownIn(doc, users, crowded, Picture(d, p, flag, on, d.state), Wanted(doc, on, d))
<1>1. d.obj \in Objects /\ d.state \in Nat
  BY DEF Draw
<1>2. p.of \in Docs \X Objects /\ p.premul \in BOOLEAN
  BY DEF Pixel
<1> DEFINE x == [image |-> p.of, alpha |-> p.premul = flag]
           r == Picture(d, p, flag, on, d.state)
           a == Wanted(doc, on, d)
<1>3. x \in [image : (Docs \X Objects) \union (({"paint"} \union Tiles) \X {0}), alpha : BOOLEAN]
  BY <1>2
<1>4. r = [what |-> x, on |-> on, state |-> d.state]
  BY DEF Picture, Thing
<1>5. a = [what |-> Asked(doc, d.obj), on |-> on, state |-> d.state]
  BY DEF Wanted, Thing
<1>6. r \in Things
  BY <1>1, <1>3, <1>4 DEF Things
<1>7. x.image = p.of /\ (d.obj \notin crowded => x.alpha)
  OBVIOUS
<1> HIDE DEF x, r, a
<1>8. a = Thing(Asked(doc, d.obj), a.on, a.state)
  BY <1>5 DEF Thing
<1>9. r.on = a.on /\ r.state = a.state /\ r.what = x
  BY <1>4, <1>5
<1>10. ShownIn(doc, users, crowded, r, a)
  BY <1>1, <1>7, <1>8, <1>9 DEF ShownIn
<1> QED
  BY <1>6, <1>10 DEF r, a

\* Pixels taken from the cache, or decoded by draw_image.
LEMMA SourceShows ==
  ASSUME doc \in Docs, NEW d \in Draw, Faithful(d), Owned(d, doc, users, crowded),
         users \in [Objects -> SUBSET Docs], NEW on \in Canvases
  PROVE  /\ Drawing(d, on) \in Things
         /\ ShownIn(doc, users, crowded, Drawing(d, on), Wanted(doc, on, d))
<1>1. d.obj \in Objects /\ d.pixels \in Pixel \union {None} /\ d.hit \in BOOLEAN
  BY DEF Draw
<1>2. Source(d) \in Pixel
  BY LeftIs
<1>3. /\ Source(d).of[2] = d.obj
      /\ users[d.obj] \subseteq {doc} => Source(d).of[1] = doc
      /\ d.obj \notin crowded => Source(d).premul = FALSE
  <2>1. CASE d.hit
    <3>1. d.pixels \in Pixel /\ d.pixels.of[2] = d.obj /\ Source(d) = d.pixels
      BY <1>1, <2>1 DEF Faithful, Source
    <3>2. d.pixels.premul \in BOOLEAN
      BY <3>1 DEF Pixel
    <3>3. Known(d.pixels, d.obj, users, crowded)
      BY <2>1 DEF Owned
    <3> QED
      BY <3>1, <3>2, <3>3 DEF Known
  <2>2. CASE ~d.hit
    BY <2>2 DEF Source, Pixels
  <2> QED
    BY <2>1, <2>2
<1> QED
  BY <1>2, <1>3, PictureShows DEF Drawing

\* An image that was decoded for the draw is shown as it was asked for.
LEMMA DecodedShows ==
  ASSUME NEW d, ~d.hit, NEW on
  PROVE  Drawing(d, on) = Wanted(doc, on, d)
<1>1. Source(d).of = <<doc, d.obj>> /\ Source(d).premul = FALSE
  BY DEF Source, Pixels
<1>2. (Source(d).premul = FALSE) = TRUE
  BY <1>1
<1> QED
  BY <1>1, <1>2 DEF Drawing, Picture, Wanted, Asked

\* Pixels prepared by a thread.
LEMMA PreparedShows ==
  ASSUME doc \in Docs, NEW d \in Draw, Faithful(d), Owned(d, doc, users, crowded),
         users \in [Objects -> SUBSET Docs], NEW on \in Canvases,
         NEW p, p = Prepare(d), p # None
  PROVE  /\ Submitted(d, p, on) \in Things
         /\ ShownIn(doc, users, crowded, Submitted(d, p, on), Wanted(doc, on, d))
<1>1. d.obj \in Objects /\ d.pixels \in Pixel \union {None} /\ d.hit \in BOOLEAN
      /\ d.small \in BOOLEAN
  BY DEF Draw
<1>2. p \in Pixel
  BY PrepareIs
<1>3. p.premul \in BOOLEAN
  BY <1>2 DEF Pixel
<1> DEFINE flag == p.premul /\ ~d.hit
<1>4. flag \in BOOLEAN
  BY <1>1, <1>3
<1>5. /\ p.of[2] = d.obj /\ (users[d.obj] \subseteq {doc} => p.of[1] = doc)
      /\ d.obj \notin crowded => p.premul = flag
  <2>1. CASE d.hit
    <3>1. d.pixels \in Pixel /\ d.pixels.of[2] = d.obj
      BY <1>1, <2>1 DEF Faithful
    <3>2. p = [d.pixels EXCEPT !.small = d.small]
      BY <2>1 DEF Prepare
    <3>3. p.of = d.pixels.of /\ p.premul = d.pixels.premul
      BY <3>1, <3>2 DEF Pixel
    <3>4. Known(d.pixels, d.obj, users, crowded)
      BY <2>1 DEF Owned
    <3>5. users[d.obj] \subseteq {doc} => p.of[1] = doc
      BY <3>3, <3>4 DEF Known
    <3>6. d.obj \notin crowded => p.premul = FALSE
      BY <1>3, <3>3, <3>4 DEF Known
    <3>7. flag = FALSE
      BY <2>1
    <3> QED
      BY <3>1, <3>3, <3>5, <3>6, <3>7
  <2>2. CASE ~d.hit
    <3>1. p = Pixels(d.obj, d.obj \in Masked, d.small)
      BY <2>2 DEF Prepare
    <3>2. p.of = <<doc, d.obj>>
      BY <3>1 DEF Pixels
    <3>3. flag = p.premul
      BY <1>3, <2>2
    <3> QED
      BY <3>2, <3>3
  <2> QED
    BY <2>1, <2>2
<1> HIDE DEF flag
<1>6. Submitted(d, p, on) = Picture(d, p, flag, on, d.state)
  BY DEF Submitted, flag
<1> QED
  BY <1>2, <1>4, <1>5, <1>6, PictureShows

\* A draw stores pixels of its document.
LEMMA StoringKnown ==
  ASSUME Sourced, cache \in [Objects -> Pixel \union {None}], NEW d \in Draw, NEW p,
         d.retain /\ p # None /\ ~p.small => Known(p, d.obj, users, crowded),
         cache' = Storing(d, p)
  PROVE  \A o \in Objects : cache'[o] # None => Known(cache'[o], o, users, crowded)
<1>1. d.obj \in Objects
  BY DEF Draw
<1>2. \A o \in Objects : cache[o] # None => Known(cache[o], o, users, crowded)
  BY DEF Sourced
<1> QED
  BY <1>1, <1>2 DEF Storing

---------------------------------------------------------------------------
(* Contents. *)

LEMMA FirstIs ==
  ASSUME stack \in Seq(Frames), stack # <<>>
  PROVE  /\ Len(stack) \in Nat \ {0} /\ Len(stack) \in 1..Len(stack)
         /\ Top = stack[Len(stack)] /\ Top \in Frames
         /\ Top.content \in Seq(Operator \union Tiled)
         /\ Top.canvas \in Canvases /\ Top.state \in Nat
         /\ Top.content # <<>> => Op = Top.content[1]
<1>1. Len(stack) \in Nat \ {0} /\ Len(stack) \in 1..Len(stack)
  OBVIOUS
<1>2. Top = stack[Len(stack)] /\ Top \in Frames
  BY <1>1 DEF Top
<1>3. Top.content \in Seq(Operator \union Tiled) /\ Top.canvas \in Canvases /\ Top.state \in Nat
  BY <1>2 DEF Frames
<1>4. Top.content # <<>> => Op = Top.content[1]
  BY <1>3 DEF Op
<1> QED
  BY <1>1, <1>2, <1>3, <1>4

\* An operator of the innermost content is read.
LEMMA ReadNests ==
  ASSUME stack \in Seq(Frames), stack # <<>>, Top.content # <<>>, Nested(stack),
         NEW t \in Seq(Frames), Len(t) = Len(stack),
         \A i \in 1..(Len(stack) - 1) : t[i] = stack[i],
         t[Len(stack)].content = Tail(Top.content), t[Len(stack)].canvas = Top.canvas
  PROVE  Nested(t) /\ ~Half(t, Len(t))
<1>1. PICK n \in Nat \ {0} : n = Len(stack)
  BY FirstIs
<1>2. Top = stack[n] /\ Top.content \in Seq(Operator \union Tiled) /\ Len(t) = n
  BY <1>1, FirstIs
<1> DEFINE c == Top.content
           e == Tail(c)
<1>3. /\ e \in Seq(Operator \union Tiled) /\ Len(e) = Len(c) - 1 /\ Len(c) \in Nat \ {0}
      /\ \A i \in 1..Len(e) : i + 1 \in 2..Len(c) /\ e[i] = c[i + 1]
  BY <1>2, TailIs
<1>4. \A k \in 1..Len(e) : e[k].op # "tiled"
  <2>1. Tailed(c)
    BY <1>1, <1>2 DEF Nested
  <2> QED
    BY <2>1, <1>3 DEF Tailed
<1>5. t[n].content = e /\ t[n].canvas = stack[n].canvas /\ \A i \in 1..(n - 1) : t[i] = stack[i]
  BY <1>1, <1>2
<1> HIDE DEF c, e
<1>6. Tailed(e) /\ (e # <<>> => e[1].op # "tiled")
  BY <1>3, <1>4 DEF Tailed
<1>7. ~Half(t, Len(t))
  BY <1>2, <1>5, <1>6 DEF Half
<1>8. \A i \in 1..n : Tailed(t[i].content)
  <2> SUFFICES ASSUME NEW i \in 1..n PROVE Tailed(t[i].content)
    OBVIOUS
  <2>1. CASE i = n
    BY <2>1, <1>5, <1>6
  <2>2. CASE i # n
    <3>1. i \in 1..(n - 1) /\ t[i] = stack[i]
      BY <2>2, <1>5
    <3> QED
      BY <3>1, <1>1 DEF Nested
  <2> QED
    BY <2>1, <2>2
<1>9. ASSUME NEW i \in 1..(n - 1), ~Half(t, i) PROVE t[i + 1].canvas = t[i].canvas
  <2>1. t[i] = stack[i] /\ ~Half(stack, i)
    BY <1>5, <1>9 DEF Half
  <2>2. stack[i + 1].canvas = stack[i].canvas
    BY <2>1, <1>1 DEF Nested
  <2>3. t[i + 1].canvas = stack[i + 1].canvas
    <3>1. i + 1 = n \/ i + 1 \in 1..(n - 1)
      OBVIOUS
    <3> QED
      BY <3>1, <1>5
  <2> QED
    BY <2>1, <2>2, <2>3
<1> QED
  BY <1>2, <1>7, <1>8, <1>9 DEF Nested

\* A content of a page, form or tile is opened.
LEMMA OpenNests ==
  ASSUME NEW s \in Seq(Frames), s # <<>>, Nested(s), NEW c \in Contents,
         NEW on \in Canvases, NEW state \in Nat,
         ~Half(s, Len(s)) => on = s[Len(s)].canvas
  PROVE  LET t == Append(s, Frame(c, on, state)) IN
         Nested(t) /\ ~Half(t, Len(t)) /\ t[Len(t)].canvas = on /\ t # <<>>
<1> DEFINE t == Append(s, Frame(c, on, state))
<1>1. PICK n \in Nat \ {0} : n = Len(s)
  OBVIOUS
<1>2. Len(t) = n + 1 /\ t[n + 1] = Frame(c, on, state) /\ \A i \in 1..n : t[i] = s[i]
  BY <1>1
<1> HIDE DEF t
<1>3. \A k \in 1..Len(c) : c[k].op # "tiled"
  <2>1. c \in Seq(Operator)
    BY PipelineAssumption
  <2>2. \A k \in 1..Len(c) : c[k] \in Operator
    BY <2>1
  <2> QED
    BY <2>2 DEF Operator
<1>4. c \in Seq(Operator)
  BY PipelineAssumption
<1>5. t[n + 1].content = c /\ t[n + 1].canvas = on
  BY <1>2 DEF Frame
<1>6. ~Half(t, n + 1)
  BY <1>3, <1>4, <1>5 DEF Half
<1>7. \A i \in 1..(n + 1) : Tailed(t[i].content)
  <2> SUFFICES ASSUME NEW i \in 1..(n + 1) PROVE Tailed(t[i].content)
    OBVIOUS
  <2>1. CASE i = n + 1
    BY <2>1, <1>3, <1>4, <1>5 DEF Tailed
  <2>2. CASE i # n + 1
    <3>1. i \in 1..n /\ t[i] = s[i]
      BY <2>2, <1>2
    <3> QED
      BY <3>1, <1>1 DEF Nested
  <2> QED
    BY <2>1, <2>2
<1>8. ASSUME NEW i \in 1..n, ~Half(t, i) PROVE t[i + 1].canvas = t[i].canvas
  <2>1. t[i] = s[i] /\ ~Half(s, i)
    BY <1>2, <1>8 DEF Half
  <2>2. CASE i = n
    BY <2>1, <2>2, <1>1, <1>5
  <2>3. CASE i # n
    <3>1. i \in 1..(n - 1) /\ i + 1 \in 1..n
      BY <2>3
    <3> QED
      BY <3>1, <2>1, <1>1, <1>2 DEF Nested
  <2> QED
    BY <2>2, <2>3
<1> QED
  BY <1>2, <1>5, <1>6, <1>7, <1>8 DEF Nested, t

\* The innermost content ends.
LEMMA EndNests ==
  ASSUME NEW s \in Seq(Frames), s # <<>>, Nested(s)
  PROVE  Nested(Front(s))
<1>1. PICK n \in Nat \ {0} : n = Len(s)
  OBVIOUS
<1> DEFINE t == Front(s)
<1>2. Len(t) = n - 1 /\ \A i \in 1..(n - 1) : t[i] = s[i]
  BY <1>1, FrontIs
<1> HIDE DEF t
<1>3. \A i \in 1..(n - 1) : Tailed(t[i].content)
  BY <1>1, <1>2 DEF Nested
<1>4. ASSUME NEW i \in 1..((n - 1) - 1), ~Half(t, i) PROVE t[i + 1].canvas = t[i].canvas
  <2>1. i \in 1..(n - 1) /\ i + 1 \in 1..(n - 1)
    OBVIOUS
  <2>2. t[i] = s[i] /\ t[i + 1] = s[i + 1] /\ ~Half(s, i)
    BY <2>1, <1>2, <1>4 DEF Half
  <2> QED
    BY <2>1, <2>2, <1>1 DEF Nested
<1> QED
  BY <1>2, <1>3, <1>4 DEF Nested, t

---------------------------------------------------------------------------
(* Steps. *)

\* The stack once an operator of the innermost content was read.
LEMMA ConsumedNests ==
  ASSUME LInv, SInv, ~Idle, Top.content # <<>>, stack' = Consumed
  PROVE  /\ stack' \in Seq(Frames) /\ stack' # <<>>
         /\ stack'[Len(stack')].canvas = Top.canvas
         /\ Nested(stack') /\ ~Half(stack', Len(stack'))
<1>1. stack \in Seq(Frames) /\ stack # <<>> /\ Len(stack) \in Nat \ {0}
  BY FirstIs DEF LInv, Idle
<1>2. /\ stack' \in Seq(Frames) /\ Len(stack') = Len(stack)
      /\ \A i \in 1..(Len(stack) - 1) : stack'[i] = stack[i]
      /\ stack'[Len(stack)] = Frame(Tail(Top.content), Top.canvas, Top.state)
  BY <1>1, ConsumedIs
<1>3. stack'[Len(stack)].content = Tail(Top.content) /\ stack'[Len(stack)].canvas = Top.canvas
  BY <1>2 DEF Frame
<1>4. Nested(stack') /\ ~Half(stack', Len(stack'))
  BY <1>1, <1>2, <1>3, ReadNests DEF SInv
<1> QED
  BY <1>1, <1>2, <1>3, <1>4

\* A step that draws nothing, puts nothing off and stores nothing keeps what was shown.
LEMMA DrewLater ==
  ASSUME SInv, ~Idle, stack' # <<>>, stack'[Len(stack')].canvas = Top.canvas,
         UNCHANGED <<doc, deferred, batch, asked, drawn, users, crowded, spilled>>
  PROVE  Drew'
<1>1. ~Idle' /\ Pending' = Pending /\ Top'.canvas = Top.canvas
  BY DEF Idle, Pending, Top
<1> QED
  BY <1>1 DEF SInv, Drew

LEMMA SourcedLater ==
  ASSUME Sourced, UNCHANGED <<doc, deferred, batch, prepared, cache, users, crowded>>
  PROVE  Sourced'
  BY DEF Sourced, Heavy

\* While an operator is read no draw is waiting in a batch.
LEMMA Unbatched ==
  ASSUME LInv, batch = <<>>
  PROVE  prepared = <<>> /\ Pending = deferred
  BY DEF LInv, NothingLeaks, TypeOK, Pending

LEMMA DoImageSInv ==
  ASSUME LInv, SInv, DoImage
  PROVE  SInv'
<1>1. ~Idle /\ stack # <<>> /\ Top.content # <<>> /\ Op.op = "image" /\ batch = <<>>
      /\ stack \in Seq(Frames) /\ stack' = Consumed
  BY DEF DoImage, Reads, LInv, Idle
<1>2. Op.obj \in Objects /\ Op.small \in BOOLEAN /\ Top.state \in Nat /\ Top.canvas \in Canvases
  BY <1>1, OpIs, FirstIs
<1> DEFINE d == [obj |-> Op.obj, hit |-> cache[Op.obj] # None, pixels |-> cache[Op.obj],
                 retain |-> cache[Op.obj] = None, small |-> Op.small, state |-> Top.state]
<1>3. d \in Draw /\ Faithful(d)
  BY <1>2, DeferredIs
<1>4. /\ d.obj = Op.obj /\ d.state = Top.state /\ d.pixels = cache[Op.obj]
      /\ d.hit <=> cache[Op.obj] # None
  OBVIOUS
<1>5. \/ /\ ~d.hit /\ deferred = <<>> /\ drawn' = Append(drawn, Drawing(d, Top.canvas))
         /\ UNCHANGED deferred
      \/ deferred' = Append(deferred, d) /\ UNCHANGED drawn
  BY DEF DoImage, Refused
<1> HIDE DEF d
<1>6. /\ UNCHANGED <<doc, work, cache, crowded, spilled>>
      /\ asked' = Append(asked, Thing(Asked(doc, Op.obj), Top.canvas, Top.state))
      /\ users' = [users EXCEPT ![Op.obj] = @ \union {doc}]
  BY DEF DoImage
<1>7. doc \in Docs /\ deferred \in Seq(Draw) /\ cache \in [Objects -> Pixel \union {None}]
  BY DEF LInv, NothingLeaks, TypeOK
<1>8. users' \in [Objects -> SUBSET Docs] /\ doc \in users'[Op.obj]
      /\ \A o \in Objects : users[o] \subseteq users'[o]
  BY <1>2, <1>6, <1>7 DEF SInv, Sourced
<1>9. /\ stack' # <<>> /\ stack'[Len(stack')].canvas = Top.canvas
      /\ Nested(stack') /\ ~Half(stack', Len(stack'))
  BY <1>1, ConsumedNests
<1>10. Closed'
  BY <1>9 DEF Closed
<1>11. prepared = <<>> /\ Pending = deferred /\ batch' = <<>> /\ prepared' = <<>>
  BY <1>1, <1>6, Unbatched DEF work
<1>12. \A o \in Objects : cache'[o] # None => Known(cache'[o], o, users', crowded')
  <2>1. \A o \in Objects : cache[o] # None => Known(cache[o], o, users, crowded)
    BY DEF SInv, Sourced
  <2>2. \A p : \A o \in Objects : Known(p, o, users, crowded) => Known(p, o, users', crowded)
    BY <1>8, KnownLater
  <2> QED
    BY <2>1, <2>2, <1>6
<1>13. \A i \in 1..Len(deferred') : Owned(deferred'[i], doc', users', crowded')
  <2>1. \A i \in 1..Len(deferred) : Owned(deferred[i], doc, users', crowded)
    <3>1. \A i \in 1..Len(deferred) :
            deferred[i] \in Draw /\ Owned(deferred[i], doc, users, crowded)
      BY <1>7 DEF SInv, Sourced
    <3>2. \A k : \A e \in Draw : Owned(e, k, users, crowded) => Owned(e, k, users', crowded)
      BY <1>8, KnownLater
    <3> QED
      BY <3>1, <3>2
  <2>2. Owned(d, doc, users', crowded)
    BY <1>2, <1>4, <1>6, <1>8, <1>12 DEF Owned
  <2>3. CASE deferred' = Append(deferred, d)
    <3>1. \A i \in 1..Len(deferred') : \/ i \in 1..Len(deferred) /\ deferred'[i] = deferred[i]
                                       \/ deferred'[i] = d
      BY <2>3, <1>3, <1>7
    <3> QED
      BY <2>1, <2>2, <3>1, <1>6
  <2>4. CASE UNCHANGED deferred
    BY <2>1, <2>4, <1>6
  <2> QED
    BY <2>3, <2>4, <1>5
<1>14. Sourced'
  <2>1. crowded' \subseteq Objects
    BY <1>6 DEF SInv, Sourced
  <2> QED
    BY <2>1, <1>8, <1>11, <1>12, <1>13 DEF Sourced
<1>15. asked' = Append(asked, Wanted(doc, Top.canvas, d)) /\ Wanted(doc, Top.canvas, d) \in Things
  BY <1>2, <1>3, <1>4, <1>6, <1>7, WantedIs DEF Wanted
<1>16. asked \in Seq(Things) /\ drawn \in Seq(Things)
       /\ Follows(doc, Top.canvas, users', crowded, spilled, asked, drawn, deferred)
  <2>1. asked \in Seq(Things) /\ drawn \in Seq(Things)
        /\ Follows(doc, Top.canvas, users, crowded, spilled, asked, drawn, deferred)
    BY <1>1, <1>11 DEF SInv, Drew
  <2> QED
    BY <2>1, <1>8, FollowsLater
<1>17. /\ asked' \in Seq(Things) /\ drawn' \in Seq(Things)
       /\ Follows(doc, Top.canvas, users', crowded, spilled, asked', drawn', deferred')
  <2> DEFINE on == Top.canvas
             w == Wanted(doc, on, d)
  <2>0. /\ asked' = Append(asked, w) /\ w \in Things
        /\ Follows(doc, on, users', crowded, spilled, asked, drawn, deferred)
    BY <1>15, <1>16
  <2> HIDE DEF on
  <2>1. CASE deferred' = Append(deferred, d) /\ UNCHANGED drawn
    <3>1. asked' \in Seq(Things)
          /\ Follows(doc, on, users', crowded, spilled, asked', drawn, Append(deferred, d))
      BY <2>0, <1>3, <1>7, <1>16, AskMore
    <3> QED
      BY <3>1, <2>1, <1>16 DEF on
  <2>2. CASE /\ ~d.hit /\ deferred = <<>> /\ drawn' = Append(drawn, Drawing(d, Top.canvas))
             /\ UNCHANGED deferred
    <3>1. drawn' = Append(drawn, w) /\ deferred = <<>>
      BY <2>2, DecodedShows DEF on
    <3> HIDE DEF w
    <3>2. /\ Append(asked, w) \in Seq(Things) /\ Append(drawn, w) \in Seq(Things)
          /\ Follows(doc, on, users', crowded, spilled, Append(asked, w), Append(drawn, w),
                     deferred)
      BY <2>0, <3>1, <1>7, <1>16, AskAndDraw
    <3> QED
      BY <3>1, <3>2, <2>0, <2>2 DEF on
  <2> QED
    BY <1>5, <2>1, <2>2
<1>18. ~Idle' /\ Pending' = deferred' /\ Top'.canvas = Top.canvas
  BY <1>9, <1>11 DEF Idle, Pending, Top
<1>19. Drew'
  BY <1>6, <1>17, <1>18 DEF Drew
<1> QED
  BY <1>9, <1>10, <1>14, <1>19 DEF SInv

LEMMA SetStateSInv ==
  ASSUME LInv, SInv, SetState
  PROVE  SInv'
<1>1. ~Idle /\ stack # <<>> /\ Top.content # <<>> /\ Op.op = "state" /\ batch = <<>>
      /\ stack \in Seq(Frames)
  BY DEF SetState, Reads, LInv, Idle
<1>2. /\ Consumed \in Seq(Frames) /\ Len(Consumed) = Len(stack)
      /\ \A i \in 1..(Len(stack) - 1) : Consumed[i] = stack[i]
      /\ Consumed[Len(stack)] = Frame(Tail(Top.content), Top.canvas, Top.state)
  BY <1>1, ConsumedIs
<1>3. Op.to \in Nat
  BY <1>1, OpIs
<1>4. /\ stack' \in Seq(Frames) /\ Len(stack') = Len(stack)
      /\ \A i \in 1..(Len(stack) - 1) : stack'[i] = Consumed[i]
      /\ stack'[Len(stack)] = Frame(Consumed[Len(stack)].content, Consumed[Len(stack)].canvas,
                                    Op.to)
  <2>1. Consumed # <<>> /\ stack' = [Consumed EXCEPT ![Len(Consumed)].state = Op.to]
    BY <1>1, <1>2 DEF SetState
  <2> QED
    BY <2>1, <1>2, <1>3, StateIs
<1>5. stack'[Len(stack)].content = Tail(Top.content) /\ stack'[Len(stack)].canvas = Top.canvas
  BY <1>2, <1>4 DEF Frame
<1>6. Nested(stack') /\ ~Half(stack', Len(stack'))
  BY <1>1, <1>2, <1>4, <1>5, ReadNests DEF SInv
<1>7. stack' # <<>> /\ stack'[Len(stack')].canvas = Top.canvas
  BY <1>1, <1>4, <1>5
<1>8. UNCHANGED <<doc, deferred, batch, prepared, cache, asked, drawn, users, crowded, spilled>>
  BY DEF SetState, work, history
<1>9. Drew'
  BY <1>1, <1>7, <1>8, DrewLater
<1>10. Sourced'
  BY <1>8, SourcedLater DEF SInv
<1>11. Closed'
  BY <1>6 DEF Closed
<1> QED
  BY <1>6, <1>9, <1>10, <1>11 DEF SInv

\* The operators that paint at once.
LEMMA PaintsSInv ==
  ASSUME LInv, SInv, ~Idle, Top.content # <<>>, batch = <<>>, stack' = Consumed,
         ~spilled => deferred = <<>>, spilled => spilled',
         NEW w \in Things, asked' = Append(asked, w), drawn' = Append(drawn, w),
         UNCHANGED <<doc, deferred, work, cache, users, crowded>>
  PROVE  SInv'
<1>1. /\ stack' # <<>> /\ stack'[Len(stack')].canvas = Top.canvas
      /\ Nested(stack') /\ ~Half(stack', Len(stack'))
  BY ConsumedNests
<1>2. Pending = deferred /\ Pending' = deferred /\ ~Idle' /\ Top'.canvas = Top.canvas
  BY <1>1, Unbatched DEF Pending, Idle, Top, work
<1>3. asked \in Seq(Things) /\ drawn \in Seq(Things) /\ deferred \in Seq(Draw)
      /\ Follows(doc, Top.canvas, users, crowded, spilled, asked, drawn, deferred)
  BY <1>2 DEF SInv, Drew, LInv, NothingLeaks, TypeOK
<1>4. asked' \in Seq(Things) /\ drawn' \in Seq(Things)
      /\ Follows(doc, Top.canvas, users, crowded, spilled, asked', drawn', deferred)
  BY <1>3, AskAndDraw
<1>5. Follows(doc, Top.canvas, users, crowded, spilled', asked', drawn', deferred)
  BY <1>4, FollowsLater
<1>6. Drew'
  BY <1>2, <1>4, <1>5 DEF Drew
<1>7. Sourced' /\ Closed'
  BY <1>1, SourcedLater DEF SInv, Closed, work
<1> QED
  BY <1>1, <1>6, <1>7 DEF SInv

LEMMA PaintSInv ==
  ASSUME LInv, SInv, Paint
  PROVE  SInv'
<1>1. ~Idle /\ stack # <<>> /\ Top.content # <<>> /\ batch = <<>> /\ deferred = <<>>
      /\ stack \in Seq(Frames)
  BY DEF Paint, Reads, LInv, Idle
<1>2. Thing(Asked("paint", 0), Top.canvas, Top.state) \in Things
  BY <1>1, FirstIs, PaintedIs
<1> QED
  BY <1>1, <1>2, PaintsSInv DEF Paint, history

LEMMA FillSInv ==
  ASSUME LInv, SInv, Fill
  PROVE  SInv'
<1>1. ~Idle /\ stack # <<>> /\ Top.content # <<>> /\ batch = <<>> /\ stack \in Seq(Frames)
      /\ Op.op \in {"fill", "tiled"}
  BY DEF Fill, Reads, LInv, Idle
<1>2. Op.tile \in Tiles
  BY <1>1, OpIs
<1>3. Thing(Asked(Op.tile, 0), Top.canvas, Top.state) \in Things
  BY <1>1, <1>2, FirstIs, PaintedIs
<1>4. ~spilled => deferred = <<>>
  <2>1. CASE deferred = <<>>
    BY <2>1
  <2>2. CASE Op.op = "tiled"
    <3>1. Half(stack, Len(stack))
      BY <1>1, <2>2, FirstIs DEF Half
    <3> QED
      BY <1>1, <3>1 DEF SInv, Closed
  <2> QED
    BY <2>1, <2>2 DEF Fill, Reads
<1>5. spilled => spilled'
  BY DEF Fill
<1> QED
  BY <1>1, <1>3, <1>4, <1>5, PaintsSInv DEF Fill

LEMMA DoFormSInv ==
  ASSUME LInv, SInv, DoForm
  PROVE  SInv'
<1>1. ~Idle /\ stack # <<>> /\ Top.content # <<>> /\ Op.op = "form" /\ batch = <<>>
      /\ stack \in Seq(Frames) /\ deferred = <<>>
  BY DEF DoForm, Reads, LInv, Idle
<1>2. Op.content \in Contents /\ Top.canvas \in Canvases /\ Top.state \in Nat
  BY <1>1, OpIs, FirstIs
<1> DEFINE s == Consumed
<1>3. /\ s \in Seq(Frames) /\ Len(s) = Len(stack)
      /\ \A i \in 1..(Len(stack) - 1) : s[i] = stack[i]
      /\ s[Len(stack)] = Frame(Tail(Top.content), Top.canvas, Top.state)
  BY <1>1, ConsumedIs
<1>4. s[Len(stack)].content = Tail(Top.content) /\ s[Len(stack)].canvas = Top.canvas
  BY <1>3 DEF Frame
<1>5. Nested(s)
  BY <1>1, <1>3, <1>4, ReadNests DEF SInv
<1>6. s # <<>> /\ s[Len(s)].canvas = Top.canvas
  BY <1>1, <1>3, <1>4
<1>7. stack' = Append(s, Frame(Op.content, Top.canvas, Top.state))
  BY DEF DoForm
<1> HIDE DEF s
<1>8. /\ Nested(stack') /\ ~Half(stack', Len(stack')) /\ stack' # <<>>
      /\ stack'[Len(stack')].canvas = Top.canvas
  BY <1>2, <1>3, <1>5, <1>6, <1>7, OpenNests
<1>9. UNCHANGED <<doc, deferred, batch, prepared, cache, asked, drawn, users, crowded, spilled>>
  BY DEF DoForm, work, history
<1>10. Drew'
  BY <1>1, <1>8, <1>9, DrewLater
<1>11. Sourced' /\ Closed'
  BY <1>8, <1>9, SourcedLater DEF SInv, Closed
<1> QED
  BY <1>8, <1>10, <1>11 DEF SInv

\* A content that waits for its tile.
LEMMA HalfNests ==
  ASSUME stack \in Seq(Frames), stack # <<>>, Top.content # <<>>, Op.op = "fill",
         Nested(stack), NEW s, s = [stack EXCEPT ![Len(stack)].content[1].op = "tiled"]
  PROVE  /\ s \in Seq(Frames) /\ Len(s) = Len(stack) /\ s # <<>>
         /\ Half(s, Len(s)) /\ Nested(s)
<1>1. PICK n \in Nat \ {0} : n = Len(stack)
  BY FirstIs
<1>2. Top = stack[n] /\ Top.content \in Seq(Operator \union Tiled)
  BY <1>1, FirstIs
<1> DEFINE t == [stack EXCEPT ![Len(stack)].content[1].op = "tiled"]
<1>0. /\ t \in Seq(Frames) /\ Len(t) = Len(stack)
      /\ \A i \in 1..(Len(stack) - 1) : t[i] = stack[i]
      /\ t[Len(stack)].canvas = Top.canvas
      /\ Len(t[Len(stack)].content) = Len(Top.content)
      /\ t[Len(stack)].content[1] = [Op EXCEPT !.op = "tiled"]
      /\ [Op EXCEPT !.op = "tiled"] \in Tiled
      /\ \A i \in 2..Len(Top.content) : t[Len(stack)].content[i] = Top.content[i]
  BY HalfIs
<1> HIDE DEF t
<1>3. /\ s \in Seq(Frames) /\ Len(s) = n
      /\ \A i \in 1..(n - 1) : s[i] = stack[i]
      /\ s[n].canvas = stack[n].canvas
      /\ Len(s[n].content) = Len(Top.content)
      /\ s[n].content[1] = [Op EXCEPT !.op = "tiled"]
      /\ [Op EXCEPT !.op = "tiled"] \in Tiled
      /\ \A i \in 2..Len(Top.content) : s[n].content[i] = Top.content[i]
  <2>1. s = t
    BY DEF t
  <2> QED
    BY <2>1, <1>0, <1>1, <1>2
<1>4. s[n].content[1].op = "tiled" /\ s[n].content # <<>>
  <2>1. s[n].content[1].op = "tiled"
    BY <1>3 DEF Tiled
  <2>2. Len(Top.content) # 0
    BY <1>2
  <2> QED
    BY <2>1, <2>2, <1>3
<1>5. \A i \in 1..n : Tailed(s[i].content)
  <2> SUFFICES ASSUME NEW i \in 1..n PROVE Tailed(s[i].content)
    OBVIOUS
  <2>1. Tailed(stack[i].content)
    BY <1>1 DEF Nested
  <2>2. CASE i = n
    BY <2>1, <2>2, <1>2, <1>3 DEF Tailed
  <2>3. CASE i # n
    <3>1. s[i] = stack[i]
      BY <2>3, <1>3
    <3> QED
      BY <3>1, <2>1
  <2> QED
    BY <2>2, <2>3
<1>6. ASSUME NEW i \in 1..(n - 1), ~Half(s, i) PROVE s[i + 1].canvas = s[i].canvas
  <2>1. s[i] = stack[i] /\ ~Half(stack, i)
    BY <1>3, <1>6 DEF Half
  <2>2. stack[i + 1].canvas = stack[i].canvas
    BY <2>1, <1>1 DEF Nested
  <2>3. s[i + 1].canvas = stack[i + 1].canvas
    <3>1. i + 1 = n \/ i + 1 \in 1..(n - 1)
      OBVIOUS
    <3> QED
      BY <3>1, <1>3
  <2> QED
    BY <2>1, <2>2, <2>3
<1> QED
  BY <1>1, <1>3, <1>4, <1>5, <1>6 DEF Half, Nested

LEMMA RenderTileSInv ==
  ASSUME LInv, SInv, RenderTile
  PROVE  SInv'
<1>1. ~Idle /\ stack # <<>> /\ Top.content # <<>> /\ Op.op = "fill" /\ batch = <<>>
      /\ stack \in Seq(Frames) /\ deferred = <<>>
  BY DEF RenderTile, Reads, LInv, Idle
<1>2. Op.tile \in Canvases /\ Op.content \in Contents
  BY <1>1, OpIs DEF Canvases
<1> DEFINE s == [stack EXCEPT ![Len(stack)].content[1].op = "tiled"]
<1>3. s \in Seq(Frames) /\ s # <<>> /\ Half(s, Len(s)) /\ Nested(s)
  BY <1>1, HalfNests DEF SInv
<1>4. stack' = Append(s, Frame(Op.content, Op.tile, 0))
  BY DEF RenderTile
<1> HIDE DEF s
<1>5. Nested(stack') /\ ~Half(stack', Len(stack')) /\ stack' # <<>>
  BY <1>2, <1>3, <1>4, OpenNests
<1>6. UNCHANGED <<doc, deferred, batch, prepared, cache, asked, drawn, users, crowded, spilled>>
  BY DEF RenderTile, work, history
<1>7. Pending = <<>> /\ Pending' = <<>> /\ ~Idle'
  BY <1>1, <1>5, <1>6 DEF Pending, Idle
<1>8. asked \in Seq(Things) /\ drawn \in Seq(Things)
      /\ Follows(doc, Top.canvas, users, crowded, spilled, asked, drawn, <<>>)
  BY <1>1, <1>7 DEF SInv, Drew
<1>9. \A on : Follows(doc, on, users, crowded, spilled, asked, drawn, <<>>)
  BY <1>8 DEF Follows, Behind
<1>10. Drew'
  BY <1>6, <1>7, <1>8, <1>9 DEF Drew
<1>11. Sourced' /\ Closed'
  BY <1>5, <1>6, SourcedLater DEF SInv, Closed
<1> QED
  BY <1>5, <1>10, <1>11 DEF SInv

LEMMA EndContentSInv ==
  ASSUME LInv, SInv, EndContent
  PROVE  SInv'
<1>1. ~Idle /\ stack # <<>> /\ batch = <<>> /\ stack \in Seq(Frames) /\ Len(stack) \in Nat \ {0}
  BY FirstIs DEF EndContent, LInv, Idle
<1>2. stack' = Front(stack)
      /\ UNCHANGED <<doc, work, last, cache, interrupted, pages, asked, drawn, users, crowded>>
  BY DEF EndContent
<1>3. /\ stack' \in Seq(Frames) /\ Len(stack') = Len(stack) - 1
      /\ \A i \in 1..(Len(stack) - 1) : stack'[i] = stack[i]
  BY <1>1, <1>2, FrontIs
<1>4. Nested(stack')
  BY <1>1, <1>2, EndNests DEF SInv
<1>5. batch' = <<>> /\ prepared' = <<>> /\ prepared = <<>> /\ Pending = deferred
      /\ Pending' = deferred'
  BY <1>1, <1>2, Unbatched DEF work, Pending
<1>6. \A i \in 1..Len(deferred') : Owned(deferred'[i], doc, users, crowded)
  BY DEF EndContent, SInv, Sourced
<1>7. Sourced'
  <2>1. \A i \in 1..Len(deferred') : Owned(deferred'[i], doc', users', crowded')
    BY <1>2, <1>6
  <2>2. /\ users' \in [Objects -> SUBSET Docs] /\ crowded' \subseteq Objects
        /\ \A o \in Objects : cache'[o] # None => Known(cache'[o], o, users', crowded')
    BY <1>2 DEF SInv, Sourced
  <2> QED
    BY <2>1, <2>2, <1>5 DEF Sourced
<1>8. asked \in Seq(Things) /\ drawn \in Seq(Things) /\ deferred \in Seq(Draw)
      /\ Follows(doc, Top.canvas, users, crowded, spilled, asked, drawn, deferred)
  BY <1>1, <1>5 DEF SInv, Drew, LInv, NothingLeaks, TypeOK
<1>9. CASE Len(stack) = 1
  <2>1. Idle' /\ spilled' = spilled /\ (~interrupted => deferred = <<>>)
    BY <1>1, <1>3, <1>9 DEF EndContent, EndTile, Idle
  <2>2. Len(drawn) <= Len(asked) /\ (~interrupted => Len(drawn) = Len(asked))
    <3>1. Len(asked) = Len(drawn) + Len(deferred)
      BY <1>8 DEF Follows
    <3> QED
      BY <3>1, <2>1, <1>8
  <2>3. ~spilled => Started(doc, users, crowded, asked, drawn)
    BY <1>8 DEF Follows
  <2>4. Drew'
    BY <2>1, <2>2, <2>3, <1>2, <1>8 DEF Drew
  <2>5. Closed'
    BY <2>1 DEF Closed
  <2> QED
    BY <2>4, <2>5, <1>4, <1>7 DEF SInv
<1>10. CASE Len(stack) # 1
  <2>1. PICK n \in Nat \ {0} : Len(stack) = n + 1 /\ Len(stack') = n /\ stack'[n] = stack[n]
    <3>1. Len(stack) - 1 \in Nat \ {0}
      BY <1>1, <1>10
    <3> QED
      BY <3>1, <1>3
  <2> DEFINE h == Half(stack, n)
  <2>2. deferred' = deferred /\ ~Idle' /\ stack' # <<>>
    BY <1>10, <2>1 DEF EndContent, Idle
  <2>3. IF h THEN spilled' = (spilled \/ deferred # <<>>) ELSE spilled' = spilled
    BY <2>1 DEF EndContent, EndTile, Half
  <2>4. Half(stack', Len(stack')) <=> h
    BY <2>1 DEF Half
  <2>5. Top'.canvas = stack[n].canvas /\ Top = stack[n + 1]
    BY <2>1 DEF Top
  <2>6. ~h => stack[n].canvas = Top.canvas
    BY <2>1, <2>5 DEF SInv, Nested
  <2> HIDE DEF h
  <2>7. Closed'
    BY <2>2, <2>3, <2>4 DEF Closed
  <2>8. Follows(doc, stack[n].canvas, users, crowded, spilled', asked, drawn, deferred)
    <3>1. CASE h /\ deferred # <<>>
      BY <3>1, <2>3, <1>8 DEF Follows
    <3>2. CASE h /\ deferred = <<>>
      <4>1. \A i \in 1..Len(deferred) : FALSE
        BY <3>2
      <4>2. Follows(doc, stack[n].canvas, users, crowded, spilled, asked, drawn, deferred)
        BY <4>1, <1>8 DEF Follows, Behind
      <4>3. spilled => spilled'
        BY <2>3
      <4> QED
        BY <4>2, <4>3, FollowsLater
    <3>3. CASE ~h
      BY <3>3, <2>3, <2>6, <1>8
    <3> QED
      BY <3>1, <3>2, <3>3
  <2>9. Drew'
    BY <1>2, <1>5, <1>8, <2>2, <2>5, <2>8 DEF Drew
  <2> QED
    BY <2>7, <2>9, <1>4, <1>7 DEF SInv
<1> QED
  BY <1>9, <1>10

LEMMA FlushSInv ==
  ASSUME LInv, SInv, Flush
  PROVE  SInv'
<1>1. /\ stack # <<>> /\ batch = <<>> /\ deferred # <<>> /\ deferred \in Seq(Draw)
      /\ batch' = deferred /\ deferred' = <<>>
      /\ prepared' = IF Len(deferred) = 1 THEN <<>> ELSE [i \in DOMAIN deferred |-> None]
      /\ crowded' = IF Len(deferred) = 1 THEN crowded ELSE crowded \union HeavyObjects(deferred)
      /\ UNCHANGED <<doc, stack, cache, interrupted, asked, drawn, users, spilled>>
  BY DEF Flush, LInv, NothingLeaks, TypeOK
<1>2. /\ crowded \subseteq crowded' /\ crowded' \subseteq Objects
      /\ Len(deferred) # 1 =>
           \A i \in 1..Len(deferred) : Heavy(deferred[i]) => deferred[i].obj \in crowded'
  <2>1. HeavyObjects(deferred) \subseteq Objects
    <3>1. \A i \in DOMAIN deferred : deferred[i] \in Draw
      BY <1>1
    <3>2. \A e \in Draw : e.obj \in Objects
      BY DEF Draw
    <3> QED
      BY <3>1, <3>2 DEF HeavyObjects
  <2>2. \A i \in 1..Len(deferred) : Heavy(deferred[i]) => deferred[i].obj \in HeavyObjects(deferred)
    BY <1>1 DEF HeavyObjects
  <2> QED
    BY <2>1, <2>2, <1>1 DEF SInv, Sourced
<1>3. \A o \in Objects : users[o] \subseteq users'[o]
  BY <1>1
<1>4. \A o \in Objects : cache'[o] # None => Known(cache'[o], o, users', crowded')
  <2>1. \A o \in Objects : cache[o] # None => Known(cache[o], o, users, crowded)
    BY DEF SInv, Sourced
  <2>2. \A p : \A o \in Objects : Known(p, o, users, crowded) => Known(p, o, users, crowded')
    BY <1>2, <1>3, KnownLater
  <2> QED
    BY <2>1, <2>2, <1>1
<1>5. \A i \in 1..Len(batch') : Owned(batch'[i], doc', users', crowded')
  <2>1. \A i \in 1..Len(deferred) : deferred[i] \in Draw /\ Owned(deferred[i], doc, users, crowded)
    BY <1>1 DEF SInv, Sourced
  <2>2. \A k : \A e \in Draw : Owned(e, k, users, crowded) => Owned(e, k, users, crowded')
    BY <1>2, <1>3, KnownLater
  <2> QED
    BY <2>1, <2>2, <1>1
<1>6. prepared' # <<>> => \A i \in 1..Len(batch') : Heavy(batch'[i]) => batch'[i].obj \in crowded'
  BY <1>1, <1>2
<1>7. Sourced'
  <2>1. users' \in [Objects -> SUBSET Docs] /\ \A i \in 1..Len(deferred') : FALSE
    BY <1>1 DEF SInv, Sourced
  <2> QED
    BY <2>1, <1>2, <1>4, <1>5, <1>6 DEF Sourced, Heavy
<1>8. Pending = deferred /\ Pending' = deferred /\ Top' = Top /\ ~Idle' /\ ~Idle
  BY <1>1 DEF Pending, Top, Idle
<1>9. asked \in Seq(Things) /\ drawn \in Seq(Things)
      /\ Follows(doc, Top.canvas, users, crowded, spilled, asked, drawn, deferred)
  BY <1>8 DEF SInv, Drew
<1>10. Follows(doc, Top.canvas, users, crowded', spilled, asked, drawn, deferred)
  BY <1>2, <1>9, FollowsLater
<1>11. Drew'
  BY <1>1, <1>8, <1>9, <1>10 DEF Drew
<1>12. Nested(stack') /\ Closed'
  BY <1>1 DEF SInv, Closed
<1> QED
  BY <1>7, <1>11, <1>12 DEF SInv

\* The first draw of a batch is drawn.
LEMMA BatchDraws ==
  ASSUME LInv, SInv, batch # <<>>, NEW v \in Things,
         ShownIn(doc, users, crowded, v, Wanted(doc, Top.canvas, batch[1])),
         drawn' = Append(drawn, v), batch' = Tail(batch),
         UNCHANGED <<doc, stack, deferred, interrupted, asked, users, crowded, spilled>>
  PROVE  Drew' /\ Closed' /\ Nested(stack')
<1>1. ~Idle /\ deferred = <<>> /\ batch \in Seq(Draw)
  BY DEF LInv, NothingLeaks, TypeOK, Batched
<1>2. asked \in Seq(Things) /\ drawn \in Seq(Things)
      /\ Follows(doc, Top.canvas, users, crowded, spilled, asked, drawn, batch)
  BY <1>1 DEF SInv, Drew, Pending
<1>3. drawn' \in Seq(Things)
      /\ Follows(doc, Top.canvas, users, crowded, spilled, asked, drawn', Tail(batch))
  BY <1>1, <1>2, DrawFirst
<1>4. Pending' = Tail(batch) /\ ~Idle' /\ Top' = Top
  BY <1>1 DEF Pending, Idle, Top
<1>5. Drew'
  BY <1>2, <1>3, <1>4 DEF Drew
<1> QED
  BY <1>1, <1>5 DEF Closed, SInv

LEMMA DrawSingleSInv ==
  ASSUME LInv, SInv, DrawSingle
  PROVE  SInv'
<1>1. batch # <<>> /\ prepared = <<>> /\ batch \in Seq(Draw) /\ ~Idle /\ deferred = <<>>
      /\ Len(batch) < 2 /\ doc \in Docs /\ cache \in [Objects -> Pixel \union {None}]
      /\ stack \in Seq(Frames)
  BY DEF DrawSingle, LInv, NothingLeaks, TypeOK, Batched
<1> DEFINE d == batch[1]
<1>2. 1 \in 1..Len(batch) /\ d \in Draw /\ Tail(batch) = <<>>
  BY <1>1
<1>3. Faithful(d) /\ Owned(d, doc, users, crowded) /\ users \in [Objects -> SUBSET Docs]
  BY <1>2 DEF LInv, SInv, Sourced
<1>4. /\ drawn' = Append(drawn, Drawing(d, Top.canvas))
      /\ batch' = <<>> /\ cache' = Storing(d, Left(d))
      /\ UNCHANGED <<doc, stack, deferred, prepared, interrupted, asked, users, crowded, spilled>>
  BY DEF DrawSingle, Leaves, history
<1>5. Top.canvas \in Canvases
  BY <1>1, FirstIs DEF Idle
<1>6. /\ Drawing(d, Top.canvas) \in Things
      /\ ShownIn(doc, users, crowded, Drawing(d, Top.canvas), Wanted(doc, Top.canvas, d))
  BY <1>1, <1>2, <1>3, <1>5, SourceShows
<1>7. Drew' /\ Closed' /\ Nested(stack')
  BY <1>1, <1>2, <1>4, <1>6, BatchDraws
<1> HIDE DEF d
<1>8. d.retain /\ Left(d) # None /\ ~Left(d).small => Known(Left(d), d.obj, users, crowded)
  BY <1>3 DEF Left, Source, Faithful, Pixels, Owned, Known
<1>9. \A o \in Objects : cache'[o] # None => Known(cache'[o], o, users, crowded)
  BY <1>1, <1>2, <1>4, <1>8, StoringKnown DEF SInv
<1>10. Sourced'
  BY <1>1, <1>4, <1>9 DEF SInv, Sourced
<1> QED
  BY <1>7, <1>10 DEF SInv

LEMMA SubmitSInv ==
  ASSUME LInv, SInv, Submit
  PROVE  SInv'
<1>1. /\ batch \in Seq(Draw) /\ prepared \in Seq(Pixel \union {None})
      /\ Len(prepared) = Len(batch) /\ prepared # <<>> /\ batch # <<>>
      /\ doc \in Docs /\ cache \in [Objects -> Pixel \union {None}] /\ stack \in Seq(Frames)
  BY DEF Submit, LInv, NothingLeaks, TypeOK
<1>2. ~Idle /\ deferred = <<>>
  BY <1>1 DEF LInv, Batched
<1> DEFINE d == batch[1]
           p == prepared[1]
<1>3. 1 \in 1..Len(batch) /\ 1 \in 1..Len(prepared) /\ d \in Draw
  BY <1>1
<1>4. /\ Faithful(d) /\ Owned(d, doc, users, crowded) /\ users \in [Objects -> SUBSET Docs]
      /\ Heavy(d) => d.obj \in crowded
  BY <1>1, <1>3 DEF LInv, SInv, Sourced
<1>5. p \in {None, Prepare(d)}
  BY <1>3 DEF LInv, Batched
<1>6. /\ \/ /\ p # None /\ drawn' = Append(drawn, Submitted(d, p, Top.canvas))
            /\ cache' = Storing(d, Kept(d, p))
         \/ /\ drawn' = Append(drawn, Drawing(d, Top.canvas)) /\ cache' = cache
      /\ batch' = Tail(batch) /\ prepared' = Tail(prepared)
      /\ UNCHANGED <<doc, stack, deferred, interrupted, asked, users, crowded, spilled>>
  BY DEF Submit, Leaves, history
<1>7. Top.canvas \in Canvases
  BY <1>1, <1>2, FirstIs DEF Idle
<1>8. Drew' /\ Closed' /\ Nested(stack')
  <2>1. CASE p # None /\ drawn' = Append(drawn, Submitted(d, p, Top.canvas))
    <3>1. p = Prepare(d) /\ p # None
      BY <2>1, <1>5
    <3>2. /\ Submitted(d, p, Top.canvas) \in Things
          /\ ShownIn(doc, users, crowded, Submitted(d, p, Top.canvas), Wanted(doc, Top.canvas, d))
      BY <3>1, <1>1, <1>3, <1>4, <1>7, PreparedShows
    <3> QED
      BY <3>2, <2>1, <1>1, <1>6, BatchDraws
  <2>2. CASE drawn' = Append(drawn, Drawing(d, Top.canvas))
    <3>1. /\ Drawing(d, Top.canvas) \in Things
          /\ ShownIn(doc, users, crowded, Drawing(d, Top.canvas), Wanted(doc, Top.canvas, d))
      BY <1>1, <1>3, <1>4, <1>7, SourceShows
    <3> QED
      BY <3>1, <2>2, <1>1, <1>6, BatchDraws
  <2> QED
    BY <2>1, <2>2, <1>6
<1> HIDE DEF d, p
<1>9. d.retain /\ Kept(d, p) # None /\ ~Kept(d, p).small
        => Known(Kept(d, p), d.obj, users, crowded)
  <2> SUFFICES ASSUME d.retain, Kept(d, p) # None, ~Kept(d, p).small
               PROVE  Known(Kept(d, p), d.obj, users, crowded)
    OBVIOUS
  <2>1. Kept(d, p) = p /\ p = Prepare(d) /\ p # None
    BY <1>5 DEF Kept
  <2>2. p = Pixels(d.obj, d.obj \in Masked, d.small)
    BY <1>1, <1>3, <1>4, <2>1, PrepareIs
  <2>3. p.small = d.small /\ p.premul = (d.obj \in Masked) /\ p.of[1] = doc
    BY <2>2 DEF Pixels
  <2>4. doc \in users[d.obj]
    BY <1>4 DEF Owned
  <2>5. p.premul => d.obj \in crowded
    BY <1>4, <2>1, <2>3 DEF Heavy
  <2> QED
    BY <2>1, <2>3, <2>4, <2>5 DEF Known
<1>10. \A o \in Objects : cache'[o] # None => Known(cache'[o], o, users, crowded)
  <2>1. CASE cache' = Storing(d, Kept(d, p))
    BY <2>1, <1>1, <1>3, <1>9, StoringKnown DEF SInv
  <2>2. CASE cache' = cache
    BY <2>2 DEF SInv, Sourced
  <2> QED
    BY <2>1, <2>2, <1>6
<1>11. \A i \in 1..Len(batch') : i + 1 \in 1..Len(batch) /\ batch'[i] = batch[i + 1]
  BY <1>1, <1>6, TailIs
<1>12. Sourced'
  <2>1. \A i \in 1..Len(batch') : Owned(batch'[i], doc, users, crowded)
                                  /\ (Heavy(batch'[i]) => batch'[i].obj \in crowded)
    BY <1>1, <1>11 DEF SInv, Sourced
  <2>2. users \in [Objects -> SUBSET Docs] /\ crowded \subseteq Objects
        /\ \A i \in 1..Len(deferred) : Owned(deferred[i], doc, users, crowded)
    BY DEF SInv, Sourced
  <2> QED
    BY <2>1, <2>2, <1>6, <1>10 DEF Sourced, Heavy
<1> QED
  BY <1>8, <1>12 DEF SInv

\* The threads of a flush draw nothing and store nothing.
LEMMA ThreadSInv ==
  ASSUME LInv, SInv, NEW t \in Threads, Thread(t)
  PROVE  SInv'
<1>1. /\ prepared # <<>>
      /\ UNCHANGED <<doc, stack, deferred, batch, cache, interrupted, asked, drawn, users,
                     crowded, spilled>>
  BY DEF Thread, Fetch, Convert, LInv, Batched, history
<1>2. Sourced'
  BY <1>1 DEF SInv, Sourced, Heavy
<1>3. Drew' /\ Nested(stack') /\ Closed'
  BY <1>1 DEF SInv, Drew, Pending, Idle, Top, Closed
<1> QED
  BY <1>2, <1>3 DEF SInv

LEMMA EvictSInv ==
  ASSUME LInv, SInv, NEW o \in Objects, Evict(o)
  PROVE  SInv'
<1>1. /\ cache' = [cache EXCEPT ![o] = None] /\ cache \in [Objects -> Pixel \union {None}]
      /\ UNCHANGED <<doc, stack, deferred, batch, prepared, interrupted, asked, drawn, users,
                     crowded, spilled>>
  BY DEF Evict, LInv, NothingLeaks, TypeOK, work, history
<1>2. Sourced'
  BY <1>1 DEF SInv, Sourced, Heavy
<1>3. Drew' /\ Nested(stack') /\ Closed'
  BY <1>1 DEF SInv, Drew, Pending, Idle, Top, Closed
<1> QED
  BY <1>2, <1>3 DEF SInv

LEMMA RenderPageSInv ==
  ASSUME LInv, SInv, NEW d \in Docs, NEW c \in Pages, RenderPage(d, c)
  PROVE  SInv'
<1>1. /\ stack' = <<Frame(c, "page", 0)>> /\ asked' = <<>> /\ drawn' = <<>> /\ stack = <<>>
      /\ users' = [o \in Objects |-> IF cache[o] = None THEN {} ELSE users[o]]
      /\ crowded' = {o \in crowded : cache[o] # None}
      /\ UNCHANGED <<deferred, batch, prepared, cache>>
  BY DEF RenderPage, work
<1>2. deferred = <<>> /\ batch = <<>> /\ prepared = <<>>
  <2>1. deferred = <<>> /\ batch = <<>>
    BY <1>1 DEF LInv, NothingLeaks, NothingCarriesOver, Idle
  <2> QED
    BY <2>1, Unbatched
<1>3. Len(stack') = 1 /\ stack'[1].content = c /\ stack' # <<>>
  BY <1>1 DEF Frame
<1>4. c \in Seq(Operator) /\ \A k \in 1..Len(c) : c[k].op # "tiled"
  <2>1. c \in Seq(Operator)
    BY PipelineAssumption
  <2>2. \A k \in 1..Len(c) : c[k] \in Operator
    BY <2>1
  <2> QED
    BY <2>1, <2>2 DEF Operator
<1>5. Nested(stack') /\ ~Half(stack', Len(stack'))
  BY <1>3, <1>4 DEF Nested, Tailed, Half
<1>6. Sourced'
  <2>1. users' \in [Objects -> SUBSET Docs] /\ crowded' \subseteq Objects
    BY <1>1 DEF SInv, Sourced
  <2>2. \A o \in Objects : cache'[o] # None => Known(cache'[o], o, users', crowded')
    BY <1>1 DEF SInv, Sourced, Known
  <2>3. /\ deferred' = <<>> /\ batch' = <<>> /\ prepared' = <<>>
        /\ \A i \in 1..Len(<<>>) : FALSE
    BY <1>1, <1>2
  <2> QED
    BY <2>1, <2>2, <2>3 DEF Sourced
<1>7. Drew'
  <2>1. Pending' = <<>> /\ ~Idle'
    BY <1>1, <1>2, <1>3 DEF Pending, Idle
  <2>2. \A k, on, us, cr, sp : Follows(k, on, us, cr, sp, <<>>, <<>>, <<>>)
    BY DEF Follows, Started, Behind
  <2>3. asked' \in Seq(Things) /\ drawn' \in Seq(Things)
    BY <1>1
  <2> QED
    BY <2>1, <2>2, <2>3, <1>1 DEF Drew
<1>8. Closed'
  BY <1>5 DEF Closed
<1> QED
  BY <1>5, <1>6, <1>7, <1>8 DEF SInv

LEMMA InitSInv == Init => SInv
<1> SUFFICES ASSUME Init PROVE SInv
  OBVIOUS
<1>1. /\ stack = <<>> /\ deferred = <<>> /\ batch = <<>> /\ prepared = <<>> /\ asked = <<>>
      /\ drawn = <<>> /\ cache = [o \in Objects |-> None]
      /\ users = [o \in Objects |-> {}] /\ crowded = {}
  BY DEF Init
<1>2. Nested(stack) /\ Closed
  BY <1>1 DEF Nested, Closed, Idle
<1>3. Sourced
  BY <1>1 DEF Sourced
<1>4. Drew
  BY <1>1 DEF Drew, Started, Idle
<1> QED
  BY <1>2, <1>3, <1>4 DEF SInv

LEMMA NextSInv ==
  ASSUME LInv, SInv, [Next]_vars
  PROVE  SInv'
<1>1. ASSUME NEW d \in Docs, NEW c \in Pages, RenderPage(d, c) PROVE SInv'
  BY <1>1, RenderPageSInv
<1>2. ASSUME NEW o \in Objects, Evict(o) PROVE SInv'
  BY <1>2, EvictSInv
<1>3. CASE DoImage
  BY <1>3, DoImageSInv
<1>4. CASE SetState
  BY <1>4, SetStateSInv
<1>5. CASE Paint
  BY <1>5, PaintSInv
<1>6. CASE DoForm
  BY <1>6, DoFormSInv
<1>7. CASE RenderTile
  BY <1>7, RenderTileSInv
<1>8. CASE Fill
  BY <1>8, FillSInv
<1>9. CASE EndContent
  BY <1>9, EndContentSInv
<1>10. CASE Flush
  BY <1>10, FlushSInv
<1>11. CASE DrawSingle
  BY <1>11, DrawSingleSInv
<1>12. CASE Submit
  BY <1>12, SubmitSInv
<1>13. ASSUME NEW t \in Threads, Thread(t) PROVE SInv'
  BY <1>13, ThreadSInv
<1>14. CASE UNCHANGED vars
  <2>1. UNCHANGED <<doc, stack, deferred, batch, prepared, cache, interrupted, asked, drawn,
                    users, crowded, spilled>>
    BY <1>14 DEF vars, work, history
  <2>2. Sourced'
    BY <2>1 DEF SInv, Sourced, Heavy
  <2>3. Drew' /\ Nested(stack') /\ Closed'
    BY <2>1 DEF SInv, Drew, Pending, Idle, Top, Closed
  <2> QED
    BY <2>2, <2>3 DEF SInv
<1> QED
  BY <1>1, <1>2, <1>3, <1>4, <1>5, <1>6, <1>7, <1>8, <1>9, <1>10, <1>11, <1>12, <1>13, <1>14
     DEF Next, Main

\* A page shows what its content asked for, in that order, with the graphics state and
\* on the canvas it was asked for, however images are put off, prepared by threads, taken
\* from the cache or drawn at once, and all of it unless it was interrupted.  An image has
\* the pixels of its document unless another one asked for its number, and its own alpha
\* unless it was prepared among others; a page that uses a tile left early is only said
\* to be complete.
THEOREM PagesShowWhatWasAsked == Spec => []ShowsWhatWasAsked
<1>1. LInv /\ SInv /\ [Next]_vars => (LInv /\ SInv)'
  BY NextLInv, NextSInv
<1>2. SInv => ShowsWhatWasAsked
  <2> SUFFICES ASSUME SInv PROVE ShowsWhatWasAsked
    OBVIOUS
  <2>1. asked \in Seq(Things) /\ drawn \in Seq(Things)
    BY DEF SInv, Drew
  <2>2. Len(drawn) <= Len(asked) /\ (~spilled => Started(doc, users, crowded, asked, drawn))
    <3>1. CASE Idle
      BY <3>1 DEF SInv, Drew
    <3>2. CASE ~Idle
      <4>1. Follows(doc, Top.canvas, users, crowded, spilled, asked, drawn, Pending)
        BY <3>2 DEF SInv, Drew
      <4>2. Len(asked) = Len(drawn) + Len(Pending)
            /\ (~spilled => Started(doc, users, crowded, asked, drawn))
        BY <4>1 DEF Follows
      <4> QED
        BY <4>2, <2>1
    <3> QED
      BY <3>1, <3>2
  <2>3. \A r, a : ShownIn(doc, users, crowded, r, a) => Shown(r, a)
    BY DEF ShownIn, Shown, ShownImage
  <2>4. DrawnAsAsked
    BY <2>2, <2>3 DEF DrawnAsAsked, Started
  <2> QED
    BY <2>4 DEF SInv, Drew, ShowsWhatWasAsked, AllDrawn
<1> QED
  BY <1>1, <1>2, InitLInv, InitSInv, PTL DEF Spec
=============================================================================
