-------------------------- MODULE WasmApiProofs ---------------------------
(***************************************************************************)
(* What the WebAssembly module guarantees for any documents, addresses,    *)
(* pages, annotations, back ends, sizes, flows and numbers of calls.       *)
(* Viewer, editor and signing do not touch each other's globals, so each   *)
(* has an invariant of its own.                                            *)
(***************************************************************************)
EXTENDS WasmApi, Integers, SequenceTheorems, FiniteSetTheorems, TLAPS

---------------------------------------------------------------------------
(* The viewer.  A back end or a page is kept only while the document it is *)
(* of is open, with the pointer as its key: a key that matches vouches for *)
(* the document, although addresses are used again.                        *)

Opens == [at : Places, doc : Viewed]

Engines ==
  gEngine # NoEngine =>
    /\ gPdf \in Opens /\ gEngine.size \in Sizes
    /\ gEngine = [at |-> gPdf.at, doc |-> gPdf.doc, backend |-> gEngine.backend,
                  size |-> gEngine.size]

KeptPages ==
  gPage # NoPage =>
    /\ gPdf \in Opens /\ gPage.size \in Sizes /\ gPage.dpi \notin Large
    /\ gPage.at = gPdf.at
    /\ gPage.picture = [doc |-> gPdf.doc, page |-> gPage.page, backend |-> gPage.backend,
                        dpi |-> gPage.dpi, drew |-> gPdf.doc]

ViewInv ==
  /\ gPdf = NoPdf \/ gPdf \in Opens
  /\ gBackend \in Kinds /\ gInterrupted \in BOOLEAN /\ answer \in 0..3
  /\ Engines /\ KeptPages /\ ShownIsAsked

\* What a call that renders may leave in the buffer, and says of it, agree.
LEMMA ShownAfter ==
  ASSUME ShownIsAsked, NEW asked, Fails \/ CutShort \/ Succeeds(asked, asked)
  PROVE  ShownIsAsked' /\ answer' \in 0..3 /\ gInterrupted' \in BOOLEAN
<1>1. CASE Fails
  <2>1. answer' = 0 /\ gBuffer' = NoPicture /\ gInterrupted' = FALSE
    BY <1>1 DEF Fails
  <2>2. answer' # 1 /\ answer' # 2 /\ answer' \in 0..3
    BY <2>1
  <2> QED
    BY <2>1, <2>2 DEF ShownIsAsked
<1>2. CASE CutShort
  BY <1>2 DEF CutShort, ShownIsAsked
<1>3. CASE Succeeds(asked, asked)
  <2>1. answer' = 1 /\ gBuffer' = asked /\ given' = asked /\ gInterrupted' = FALSE
    BY <1>3 DEF Succeeds
  <2>2. answer' # 2 /\ answer' \in 0..3
    BY <2>1
  <2> QED
    BY <2>1, <2>2 DEF ShownIsAsked
<1> QED
  BY <1>1, <1>2, <1>3

\* A call that is refused leaves everything, and says 0.
LEMMA RefusedKeeps == ViewInv /\ Refused => ViewInv'
  BY DEF Refused, ViewInv, Engines, KeptPages, ShownIsAsked

\* The back end that draws has drawn no document but the one that is open.
LEMMA EngineIsOpen ==
  ASSUME ViewInv, gPdf # NoPdf, NEW s \in Sizes
  PROVE  EngineFor(s) = [at |-> gPdf.at, doc |-> gPdf.doc, backend |-> gBackend, size |-> s]
  BY DEF ViewInv, Engines, EngineFor, Matches

LEMMA RenderPageKeeps ==
  ASSUME ViewInv, NEW p, NEW s \in Sizes, NEW dpi \in Dpis, NEW budget \in BOOLEAN,
         RenderPage(p, s, dpi, budget)
  PROVE  ViewInv'
<1> DEFINE r == Resolution(dpi)
           asked == Picture(gPdf.doc, p, dpi, gPdf.doc)
           picture == Picture(gPdf.doc, p, dpi, EngineFor(s).doc)
<1>1. CASE Refused
  BY <1>1, RefusedKeeps
<1>2. CASE gPdf # NoPdf /\ UNCHANGED <<gPdf, gBackend>>
  <2>1. gPdf \in Opens /\ gPdf' = gPdf /\ gBackend' = gBackend /\ ShownIsAsked
    BY <1>2 DEF ViewInv
  <2>2. asked = [doc |-> gPdf.doc, page |-> p, backend |-> gBackend, dpi |-> r, drew |-> gPdf.doc]
    BY DEF Picture
  <2>3. EngineFor(s) = [at |-> gPdf.at, doc |-> gPdf.doc, backend |-> gBackend, size |-> s]
    BY <1>2, EngineIsOpen
  <2>4. picture = asked
    BY <2>3 DEF Picture
  <2>5. CASE Hit(p, s, dpi) /\ Succeeds(gPage.picture, asked) /\ UNCHANGED <<gEngine, gPage>>
    <3>1. gPage.picture = asked
      BY <2>2, <2>5 DEF Hit, ViewInv, KeptPages
    <3>2. ShownIsAsked' /\ answer' \in 0..3 /\ gInterrupted' \in BOOLEAN
      BY <2>1, <2>5, <3>1, ShownAfter
    <3> QED
      BY <2>1, <2>5, <3>2 DEF ViewInv, Engines, KeptPages
  <2>6. CASE Fails /\ gEngine' = NoEngine /\ UNCHANGED gPage
    <3>1. ShownIsAsked' /\ answer' \in 0..3 /\ gInterrupted' \in BOOLEAN
      BY <2>1, <2>6, ShownAfter
    <3> QED
      BY <2>1, <2>6, <3>1 DEF ViewInv, Engines, KeptPages
  <2>7. CASE gEngine' = EngineFor(s) /\ (Fails \/ CutShort) /\ UNCHANGED gPage
    <3>1. ShownIsAsked' /\ answer' \in 0..3 /\ gInterrupted' \in BOOLEAN
      BY <2>1, <2>7, ShownAfter
    <3>2. Engines'
      BY <2>1, <2>3, <2>7 DEF Engines
    <3> QED
      BY <2>1, <2>7, <3>1, <3>2 DEF ViewInv, KeptPages
  <2>8. CASE gEngine' = EngineFor(s) /\ Succeeds(picture, asked) /\ gPage' = Keep(p, s, dpi, picture)
    <3>1. ShownIsAsked' /\ answer' \in 0..3 /\ gInterrupted' \in BOOLEAN
      BY <2>1, <2>4, <2>8, ShownAfter
    <3>2. Engines'
      BY <2>1, <2>3, <2>8 DEF Engines
    <3>3. KeptPages'
      <4>1. CASE r \in Large
        BY <2>8, <4>1 DEF Keep, KeptPages
      <4>2. CASE r \notin Large
        BY <2>1, <2>2, <2>4, <2>8, <4>2 DEF Keep, KeptPages
      <4> QED
        BY <4>1, <4>2
    <3> QED
      BY <2>1, <3>1, <3>2, <3>3 DEF ViewInv
  <2> QED
    BY <2>5, <2>6, <2>7, <2>8, <1>1 DEF RenderPage
<1> QED
  BY <1>1, <1>2 DEF RenderPage

LEMMA RenderElsewhereKeeps ==
  ASSUME ViewInv, NEW doc, NEW p, NEW dpi, RenderElsewhere(doc, p, dpi)
  PROVE  ViewInv'
<1>1. ShownIsAsked' /\ answer' \in 0..3 /\ gInterrupted' \in BOOLEAN
  BY ShownAfter DEF RenderElsewhere, ViewInv
<1> QED
  BY <1>1 DEF RenderElsewhere, ViewInv, Engines, KeptPages

\* Every call of the viewer keeps ViewInv.
THEOREM NextViewInv == ViewInv /\ [Next]_vars => ViewInv'
<1> SUFFICES ASSUME ViewInv, [Next]_vars PROVE ViewInv'
  OBVIOUS
<1>1. ASSUME NEW d \in Viewed, NEW at \in Places, NEW sound \in BOOLEAN, LoadPdf(d, at, sound)
      PROVE ViewInv'
  BY <1>1 DEF LoadPdf, ViewInv, Opens, Engines, KeptPages, ShownIsAsked
<1>2. ASSUME NEW k \in Kinds, SetRenderBackend(k) PROVE ViewInv'
  BY <1>2 DEF SetRenderBackend, ViewInv, Engines, KeptPages, ShownIsAsked
<1>3. CASE ReleaseBuffer
  BY <1>3 DEF ReleaseBuffer, ViewInv, Engines, KeptPages, ShownIsAsked, Silent
<1>4. CASE ViewShutdown
  BY <1>4 DEF ViewShutdown, ViewInv, Engines, KeptPages, ShownIsAsked, Silent
<1>5. CASE UNCHANGED viewVars
  BY <1>5 DEF viewVars, ViewInv, Engines, KeptPages, ShownIsAsked
<1>6. CASE ViewNext
  <2>1. ASSUME NEW p, NEW s, NEW dpi, RenderRevisionPage(p, s, dpi) PROVE ViewInv'
    BY <2>1, RefusedKeeps, RenderElsewhereKeeps DEF RenderRevisionPage
  <2>2. ASSUME NEW d, NEW p, NEW s, NEW dpi, DocRenderPage(d, p, s, dpi) PROVE ViewInv'
    BY <2>2, RefusedKeeps, RenderElsewhereKeeps DEF DocRenderPage
  <2> QED
    BY <1>1, <1>2, <1>3, <1>6, <2>1, <2>2, RenderPageKeeps DEF ViewNext
<1> QED
  BY <1>4, <1>5, <1>6 DEF Next, vars, ViewStep, WorkStep, SignStep, Shutdown

THEOREM InitViewInv == Init => ViewInv
<1> SUFFICES ASSUME Init PROVE ViewInv
  OBVIOUS
<1>1. /\ gPdf = NoPdf /\ gBackend \in Kinds /\ gEngine = NoEngine /\ gPage = NoPage
      /\ gInterrupted = FALSE /\ answer = Silent /\ gBuffer = NoPicture
  BY DEF Init, ViewInit
<1>2. answer \in 0..3
  BY <1>1 DEF Silent
<1>3. Engines /\ KeptPages /\ ShownIsAsked
  BY <1>1 DEF Engines, KeptPages, ShownIsAsked, Silent
<1> QED
  BY <1>1, <1>2, <1>3 DEF ViewInv

\* The kept back end and the kept page are of the document that is open, at any address
\* that documents share (the resets of nanopdf_load_pdf).
THEOREM ViewKeepsOpen == Spec => []KeptIsOpen
<1>1. ViewInv => KeptIsOpen
  BY DEF ViewInv, Engines, KeptPages, KeptIsOpen, Opens, NoPdf
<1> QED
  BY InitViewInv, NextViewInv, <1>1, PTL DEF Spec

\* A page that a call that says 1 hands out is the one that was asked for, whatever was
\* opened, drawn, chosen and refused before; after one that fails the buffer holds what
\* the last one that succeeded was asked for, or nothing.
THEOREM ViewShowsAsked == Spec => []ShownIsAsked
<1>1. ViewInv => ShownIsAsked
  BY DEF ViewInv
<1> QED
  BY InitViewInv, NextViewInv, <1>1, PTL DEF Spec

\* Type correctness of the viewer; no picture that is too large is kept.
THEOREM ViewTypes == Spec => []ViewTypeOK
<1>1. ViewInv => ViewTypeOK
  BY DEF ViewInv, Engines, KeptPages, ViewTypeOK, Opens
<1> QED
  BY InitViewInv, NextViewInv, <1>1, PTL DEF Spec

---------------------------------------------------------------------------
(* Signing.  A flow that waits undisturbed owns the session and has the    *)
(* current document; a session that is active has no file with a token, so *)
(* the token that comes is the first one of its signature.                 *)

Shape ==
  /\ current \in Opened /\ bundle \in BOOLEAN /\ disturbed \subseteq Flows
  /\ flow = [f \in Flows |-> flow[f]]
  /\ \A f \in Flows : flow[f].step \in {"new", "waiting", "ended"}

Owned ==
  \A f \in Waiting \ disturbed :
    /\ Waiting = {f} /\ flow[f].doc = current
    /\ gSession.active /\ gSession.doc = current /\ gSession.signature = f

Fresh ==
  gSession.active =>
    /\ gSession.doc \in Opened /\ gSession.signature \in Flows /\ gSigned = NoFile
    /\ flow[gSession.signature].step # "new"
    /\ \A x \in files : x.file.signature = gSession.signature => x.file.token = NoToken

Written ==
  \A x \in files :
    /\ x.flow \in Flows /\ flow[x.flow].step = "ended" /\ x.file # NoFile
    /\ x.file.signature \in Flows /\ flow[x.file.signature].step # "new"

SignInv == Shape /\ Owned /\ Fresh /\ Written /\ FilesAreTheFlows /\ NoSignatureTwice

\* A signature that was made is a file.
LEMMA SignedIsFile ==
  ASSUME NEW doc, NEW f, NEW token
  PROVE  LET file == Signed(doc, f, token)
         IN file # NoFile /\ file.doc = doc /\ file.signature = f /\ file.token = token
  BY DEF Signed, NoFile

\* The end of flow f that downloads file: what the others had stays true.
LEMMA Downloads ==
  ASSUME SignInv, NEW f \in Flows, flow[f].step # "ended", NEW file,
         EndFlow(f), Download(f, file), current' = current, ~gSession'.active,
         disturbed \subseteq disturbed', disturbed' \subseteq Flows,
         Waiting \ {f} \subseteq disturbed', file # NoFile, file.signature \in Flows,
         file.signature = f \/ flow[file.signature].step # "new",
         f \notin disturbed' => /\ file.doc = current /\ file.signature = f
                                /\ file.token \in {f, NoToken},
         \A x \in files : x.file.signature = file.signature =>
                            NoToken \in {x.file.token, file.token}
  PROVE  SignInv'
<1> DEFINE new == [flow |-> f, named |-> current, file |-> file]
<1>1. files' = files \union {new}
  BY DEF Download
<1>2. flow'[f].step = "ended" /\ \A g \in Flows : g # f => flow'[g] = flow[g]
  BY DEF EndFlow, Ended, SignInv, Shape
<1>3. Shape'
  BY <1>2 DEF EndFlow, SignInv, Shape
<1>4. Waiting' = Waiting \ {f}
  BY <1>2 DEF Waiting
<1>5. Owned'
  BY <1>4 DEF Owned
<1>6. Fresh'
  BY DEF Fresh
<1>7. new.flow = f /\ new.named = current /\ new.file = file
  OBVIOUS
<1> HIDE DEF new
<1>8. Written'
  <2>1. ASSUME NEW x \in files PROVE /\ x.flow \in Flows /\ flow'[x.flow].step = "ended"
                                      /\ x.file # NoFile /\ x.file.signature \in Flows
                                      /\ flow'[x.file.signature].step # "new"
    BY <1>2, <2>1 DEF SignInv, Written
  <2>2. flow'[file.signature].step # "new"
    BY <1>2
  <2> QED
    BY <1>1, <1>2, <1>7, <2>1, <2>2 DEF Written
<1>9. FilesAreTheFlows'
  BY <1>1, <1>7 DEF SignInv, FilesAreTheFlows
<1>10. NoSignatureTwice'
  <2>1. \A x \in files : x.flow # f
    BY DEF SignInv, Written
  <2> QED
    BY <1>1, <1>7, <2>1 DEF SignInv, NoSignatureTwice
<1> QED
  BY <1>3, <1>5, <1>6, <1>8, <1>9, <1>10 DEF SignInv

\* The end of flow f without a file.
LEMMA EndsWithout ==
  ASSUME SignInv, NEW f \in Flows, EndFlow(f), files' = files, current' = current,
         ~gSession'.active, disturbed \subseteq disturbed', disturbed' \subseteq Flows,
         Waiting \ {f} \subseteq disturbed'
  PROVE  SignInv'
<1>1. flow'[f].step = "ended" /\ \A g \in Flows : g # f => flow'[g] = flow[g]
  BY DEF EndFlow, Ended, SignInv, Shape
<1>2. Shape'
  BY <1>1 DEF EndFlow, SignInv, Shape
<1>3. Waiting' = Waiting \ {f}
  BY <1>1 DEF Waiting
<1>4. Owned' /\ Fresh'
  BY <1>3 DEF Owned, Fresh
<1>5. Written'
  BY <1>1 DEF SignInv, Written
<1> QED
  BY <1>2, <1>4, <1>5 DEF SignInv, FilesAreTheFlows, NoSignatureTwice

LEMMA DoSignKeeps ==
  ASSUME SignInv, NEW f \in Flows, NEW timestamp \in BOOLEAN, NEW ok \in BOOLEAN,
         DoSign(f, timestamp, ok)
  PROVE  SignInv'
<1>1. /\ flow[f].step = "new" /\ current' = current /\ f \notin Waiting
      /\ disturbed \subseteq disturbed' /\ disturbed' \subseteq Flows /\ Waiting \subseteq disturbed'
      /\ Waiting # {} => f \in disturbed'
  BY DEF DoSign, SignInv, Shape, Waiting
<1>2. CASE timestamp /\ ok
  <2>1. /\ gSigned' = NoFile /\ gSession' = [active |-> TRUE, doc |-> current, signature |-> f]
        /\ flow' = [flow EXCEPT ![f] = [step |-> "waiting", doc |-> current]]
        /\ bundle' = bundle /\ files' = files
    BY <1>2 DEF DoSign, SignPrepare
  <2>2. /\ flow'[f].step = "waiting" /\ flow'[f].doc = current
        /\ \A g \in Flows : g # f => flow'[g] = flow[g]
    BY <2>1 DEF SignInv, Shape
  <2>3. Shape'
    BY <1>1, <2>1, <2>2 DEF SignInv, Shape
  <2>4. Waiting' = Waiting \union {f}
    BY <2>2 DEF Waiting
  <2>5. Owned'
    BY <1>1, <2>1, <2>2, <2>4 DEF Owned
  <2>6. \A x \in files : x.file.signature # f
    BY <1>1 DEF SignInv, Written
  <2>7. Fresh'
    BY <2>1, <2>2, <2>6, <1>1 DEF Fresh, SignInv, Shape
  <2>8. Written'
    BY <1>1, <2>1, <2>2 DEF SignInv, Written
  <2> QED
    BY <1>1, <2>1, <2>3, <2>5, <2>7, <2>8 DEF SignInv, FilesAreTheFlows, NoSignatureTwice
<1>3. CASE timestamp /\ ~ok
  <2>1. SignPrepare(f, current, FALSE) /\ EndFlow(f) /\ files' = files
    BY <1>3 DEF DoSign
  <2>2. gSession' = [active |-> FALSE]
    BY <2>1 DEF SignPrepare
  <2> QED
    BY <1>1, <2>1, <2>2, EndsWithout
<1>4. CASE ~timestamp
  <2>0. SignPdf(f, current, ok) /\ EndFlow(f)
    BY <1>4 DEF DoSign
  <2>1. gSession' = [active |-> FALSE] /\ EndFlow(f)
    BY <2>0 DEF SignPdf
  <2>2. CASE ok
    <3>1. Download(f, Signed(current, f, NoToken))
      BY <1>4, <2>2 DEF DoSign, SignPdf, Download
    <3> QED
      BY <1>1, <2>1, <3>1, SignedIsFile, Downloads
  <2>3. CASE ~ok
    BY <1>1, <1>4, <2>1, <2>3, EndsWithout DEF DoSign
  <2> QED
    BY <2>2, <2>3
<1> QED
  BY <1>2, <1>3, <1>4

LEMMA AnsweredKeeps ==
  ASSUME SignInv, NEW f \in Flows, NEW granted \in BOOLEAN, Answered(f, granted)
  PROVE  SignInv'
<1>1. /\ f \in Waiting /\ flow[f].step = "waiting" /\ current' = current /\ disturbed' = disturbed
      /\ disturbed \subseteq Flows /\ ~gSession'.active /\ EndFlow(f)
  BY DEF Answered, SignFinalize, SignInv, Shape, Waiting
<1>2. Waiting \ {f} \subseteq disturbed
  BY <1>1 DEF SignInv, Owned
<1>3. CASE gSession.active /\ granted
  <2> DEFINE file == Signed(gSession.doc, gSession.signature, f)
  <2>1. gSigned' = file
    BY <1>3 DEF Answered, SignFinalize
  <2>2. /\ file # NoFile /\ file.doc = gSession.doc /\ file.signature = gSession.signature
        /\ file.token = f
    BY SignedIsFile
  <2>3. Download(f, file)
    BY <2>1, <2>2 DEF Answered, Download
  <2>4. f \notin disturbed' => file.doc = current /\ file.signature = f
    BY <1>1, <2>2 DEF SignInv, Owned
  <2>5. file.signature \in Flows /\ flow[file.signature].step # "new"
    BY <1>3, <2>2 DEF SignInv, Fresh
  <2>6. \A x \in files : x.file.signature = file.signature => NoToken \in {x.file.token, file.token}
    BY <1>3, <2>2 DEF SignInv, Fresh
  <2> HIDE DEF file
  <2> QED
    BY <1>1, <1>2, <2>2, <2>3, <2>4, <2>5, <2>6, Downloads
<1>4. CASE ~(gSession.active /\ granted)
  <2>1. files' = files
    BY <1>4 DEF Answered, SignFinalize
  <2> QED
    BY <1>1, <1>2, <2>1, EndsWithout
<1> QED
  BY <1>3, <1>4

LEMMA UnansweredKeeps ==
  ASSUME SignInv, NEW f \in Flows, NEW agrees \in BOOLEAN, NEW ok \in BOOLEAN,
         Unanswered(f, agrees, ok)
  PROVE  SignInv'
<1>1. /\ f \in Waiting /\ flow[f].step = "waiting" /\ current' = current /\ disturbed' = disturbed
      /\ disturbed \subseteq Flows /\ EndFlow(f)
  BY DEF Unanswered, SignInv, Shape, Waiting
<1>2. Waiting \ {f} \subseteq disturbed
  BY <1>1 DEF SignInv, Owned
<1>3. CASE agrees /\ bundle
  <2> DEFINE doc == IF current = flow[f].doc THEN current ELSE Mangled
             file == Signed(doc, f, NoToken)
  <2>1. ~gSession'.active
    BY <1>3 DEF Unanswered, SignPdf
  <2>2. CASE ok
    <3>1. Download(f, file)
      BY <1>3, <2>2 DEF Unanswered, SignPdf, Download
    <3>2. file # NoFile /\ file.doc = doc /\ file.signature = f /\ file.token = NoToken
      BY SignedIsFile
    <3>3. f \notin disturbed' => file.doc = current
      BY <1>1, <3>2 DEF SignInv, Owned
    <3> HIDE DEF file
    <3> QED
      BY <1>1, <1>2, <2>1, <3>1, <3>2, <3>3, Downloads
  <2>3. CASE ~ok
    BY <1>1, <1>2, <1>3, <2>1, <2>3, EndsWithout DEF Unanswered
  <2> QED
    BY <2>2, <2>3
<1>4. CASE ~(agrees /\ bundle)
  <2>1. files' = files /\ gSession' = gSession /\ gSigned' = gSigned
    BY <1>4 DEF Unanswered
  <2>2. flow'[f].step = "ended" /\ \A g \in Flows : g # f => flow'[g] = flow[g]
    BY <1>1 DEF EndFlow, Ended, SignInv, Shape
  <2>3. Shape'
    BY <1>1, <2>2 DEF EndFlow, SignInv, Shape
  <2>4. Waiting' = Waiting \ {f}
    BY <2>2 DEF Waiting
  <2>5. Owned'
    BY <1>1, <1>2, <2>4 DEF Owned
  <2>6. Fresh'
    BY <2>1, <2>2 DEF SignInv, Fresh
  <2>7. Written'
    BY <2>1, <2>2 DEF SignInv, Written
  <2> QED
    BY <1>1, <2>1, <2>3, <2>5, <2>6, <2>7 DEF SignInv, FilesAreTheFlows, NoSignatureTwice
<1> QED
  BY <1>3, <1>4

\* Every step of the flows and of the user keeps SignInv.
THEOREM NextSignInv == SignInv /\ [Next]_vars => SignInv'
<1> SUFFICES ASSUME SignInv, [Next]_vars PROVE SignInv'
  OBVIOUS
<1>1. ASSUME NEW d \in Opened, OpenDocument(d) PROVE SignInv'
  <2>1. /\ current' \in Opened /\ Waiting' = Waiting /\ Waiting \subseteq disturbed'
        /\ disturbed \subseteq disturbed'
    BY <1>1 DEF OpenDocument, Waiting
  <2> QED
    BY <1>1, <2>1 DEF OpenDocument, SignInv, Shape, Owned, Fresh, Written, FilesAreTheFlows,
                      NoSignatureTwice, Waiting
<1>2. CASE ChooseBundle \/ ClearBundle \/ UNCHANGED signVars
  <2>1. /\ UNCHANGED <<current, flow, gSession, gSigned, files, disturbed>>
        /\ bundle' \in BOOLEAN
    BY <1>2 DEF ChooseBundle, ClearBundle, signVars, SignInv, Shape
  <2> QED
    BY <2>1 DEF SignInv, Shape, Owned, Fresh, Written, FilesAreTheFlows, NoSignatureTwice, Waiting
<1>3. CASE SignNext
  BY <1>1, <1>2, <1>3, DoSignKeeps, AnsweredKeeps, UnansweredKeeps DEF SignNext
<1> QED
  BY <1>2, <1>3 DEF Next, vars, ViewStep, WorkStep, SignStep, Shutdown

THEOREM InitSignInv == Init => SignInv
<1> SUFFICES ASSUME Init PROVE SignInv
  OBVIOUS
<1>1. /\ current \in Opened /\ bundle = FALSE /\ files = {} /\ disturbed = {}
      /\ flow = [f \in Flows |-> [step |-> "new"]] /\ gSession = [active |-> FALSE]
  BY DEF Init, SignInit
<1>2. Waiting = {}
  BY <1>1 DEF Waiting
<1> QED
  BY <1>1, <1>2 DEF SignInv, Shape, Owned, Fresh, Written, FilesAreTheFlows, NoSignatureTwice

\* A flow that nothing came between gives the file of its document, with its own token.
THEOREM UndisturbedFlowsSign == Spec => []FilesAreTheFlows
<1>1. SignInv => FilesAreTheFlows
  BY DEF SignInv
<1> QED
  BY InitSignInv, NextSignInv, <1>1, PTL DEF Spec

\* No signature that nanopdf_sign_prepare made gets a token twice, whatever flows overlap.
THEOREM TokensOnce == Spec => []NoSignatureTwice
<1>1. SignInv => NoSignatureTwice
  BY DEF SignInv
<1> QED
  BY InitSignInv, NextSignInv, <1>1, PTL DEF Spec

\* Type correctness of signing: a session that is active has no output beside it.
THEOREM SignTypes == Spec => []SignTypeOK
<1>1. SignInv => SignTypeOK
  BY DEF SignInv, Shape, Fresh, Written, SignTypeOK
<1> QED
  BY InitSignInv, NextSignInv, <1>1, PTL DEF Spec
---------------------------------------------------------------------------
(* Sequences. *)

\* What RemoveAt and InsertAt of the community modules give.
LEMMA Removed ==
  ASSUME NEW S, NEW s \in Seq(S), NEW i \in 1..Len(s)
  PROVE  /\ RemoveAt(s, i) \in Seq(S) /\ Len(RemoveAt(s, i)) = Len(s) - 1
         /\ \A k \in 1..(Len(s) - 1) : RemoveAt(s, i)[k] = IF k < i THEN s[k] ELSE s[k + 1]
<1> DEFINE a == SubSeq(s, 1, i - 1)
           b == SubSeq(s, i + 1, Len(s))
<1>1. a \in Seq(S) /\ Len(a) = i - 1 /\ \A k \in 1..(i - 1) : a[k] = s[k]
  OBVIOUS
<1>2. b \in Seq(S) /\ Len(b) = Len(s) - i /\ \A k \in 1..(Len(s) - i) : b[k] = s[i + k]
  OBVIOUS
<1>3. RemoveAt(s, i) = a \o b
  BY DEF RemoveAt
<1> HIDE DEF a, b
<1>4. a \o b \in Seq(S) /\ Len(a \o b) = Len(s) - 1
  <2>1. a \o b \in Seq(S) /\ Len(a \o b) = Len(a) + Len(b)
    BY <1>1, <1>2, ConcatProperties
  <2> QED
    BY <1>1, <1>2, <2>1
<1>5. ASSUME NEW k \in 1..(Len(s) - 1) PROVE (a \o b)[k] = IF k < i THEN s[k] ELSE s[k + 1]
  <2>0. (a \o b)[k] = IF k <= Len(a) THEN a[k] ELSE b[k - Len(a)]
    BY <1>1, <1>2, ConcatProperties
  <2>1. CASE k < i
    BY <1>1, <2>0, <2>1
  <2>2. CASE k >= i
    <3>1. (a \o b)[k] = b[k - (i - 1)] /\ k - (i - 1) \in 1..(Len(s) - i)
      BY <1>1, <2>0, <2>2
    <3> QED
      BY <1>2, <2>2, <3>1
  <2>3. k < i \/ k >= i
    OBVIOUS
  <2> QED
    BY <2>1, <2>2, <2>3
<1> QED
  BY <1>3, <1>4, <1>5

LEMMA Inserted ==
  ASSUME NEW S, NEW s \in Seq(S), NEW i \in 1..(Len(s) + 1), NEW e \in S
  PROVE  /\ InsertAt(s, i, e) \in Seq(S) /\ Len(InsertAt(s, i, e)) = Len(s) + 1
         /\ \A k \in 1..(Len(s) + 1) :
              InsertAt(s, i, e)[k] = IF k < i THEN s[k] ELSE IF k = i THEN e ELSE s[k - 1]
<1> DEFINE a == SubSeq(s, 1, i - 1)
           b == SubSeq(s, i, Len(s))
           c == a \o <<e>>
<1>1. a \in Seq(S) /\ Len(a) = i - 1 /\ \A k \in 1..(i - 1) : a[k] = s[k]
  OBVIOUS
<1>2. b \in Seq(S) /\ Len(b) = Len(s) - i + 1 /\ \A k \in 1..(Len(s) - i + 1) : b[k] = s[i + k - 1]
  OBVIOUS
<1>3. InsertAt(s, i, e) = c \o b
  BY DEF InsertAt
<1> HIDE DEF a, b
<1>4. c \in Seq(S) /\ Len(c) = i /\ c[i] = e /\ \A k \in 1..(i - 1) : c[k] = s[k]
  BY <1>1
<1> HIDE DEF c
<1>5. c \o b \in Seq(S) /\ Len(c \o b) = Len(s) + 1
  <2>1. c \o b \in Seq(S) /\ Len(c \o b) = Len(c) + Len(b)
    BY <1>2, <1>4, ConcatProperties
  <2> QED
    BY <1>2, <1>4, <2>1
<1>6. ASSUME NEW k \in 1..(Len(s) + 1)
      PROVE (c \o b)[k] = IF k < i THEN s[k] ELSE IF k = i THEN e ELSE s[k - 1]
  <2>0. (c \o b)[k] = IF k <= Len(c) THEN c[k] ELSE b[k - Len(c)]
    BY <1>2, <1>4, ConcatProperties
  <2>1. CASE k <= i
    BY <1>4, <2>0, <2>1
  <2>2. CASE k > i
    <3>1. (c \o b)[k] = b[k - i] /\ k - i \in 1..(Len(s) - i + 1)
      BY <1>4, <2>0, <2>2
    <3> QED
      BY <1>2, <2>2, <3>1
  <2>3. k <= i \/ k > i
    OBVIOUS
  <2> QED
    BY <2>1, <2>2, <2>3
<1> QED
  BY <1>3, <1>5, <1>6

\* Entries of a map that are moved to different keys are found there.
LEMMA MovedAre ==
  ASSUME NEW map, NEW to,
         \A j, k \in DOMAIN map : to[j] = to[k] => j = k
  PROVE  /\ DOMAIN Moved(map, to) = {to[k] : k \in DOMAIN map}
         /\ \A k \in DOMAIN map : Moved(map, to)[to[k]] = map[k]
  BY DEF Moved

---------------------------------------------------------------------------
(* A sequence of annotations stands for what was asked for. *)

Marks(annot, images) ==
  /\ "stamp" \in DOMAIN annot /\ annot.stamp \in {0} \union DOMAIN images
  /\ IF annot.stamp = 0 THEN "note" \in DOMAIN annot ELSE "name" \in DOMAIN annot

Shown(annot, images) == IF annot.stamp = 0 THEN annot.note ELSE images[annot.stamp]

Stands(seq, asked, images) ==
  /\ seq = [k \in 1..Len(asked) |-> seq[k]]
  /\ \A k \in 1..Len(asked) : Marks(seq[k], images) /\ Shown(seq[k], images) = asked[k]

\* Sequences as functions, for annotations, which are of no one set.
LEMMA SeqIs ==
  ASSUME NEW R, NEW seq \in Seq(R)
  PROVE  seq = [k \in 1..Len(seq) |-> seq[k]] /\ Len(seq) \in Nat
  OBVIOUS

LEMMA IsSeq ==
  ASSUME NEW R, NEW seq, NEW n \in Nat, seq = [k \in 1..n |-> seq[k]], \A k \in 1..n : seq[k] \in R
  PROVE  seq \in Seq(R) /\ Len(seq) = n
<1>1. seq \in [1..n -> R]
  OBVIOUS
<1> QED
  BY <1>1

LEMMA StandsIsSeq ==
  ASSUME NEW S, NEW asked \in Seq(S), NEW images, NEW seq, Stands(seq, asked, images)
  PROVE  seq \in Seq({seq[k] : k \in 1..Len(asked)}) /\ Len(seq) = Len(asked)
<1> DEFINE n == Len(asked)
           R == {seq[k] : k \in 1..n}
<1>1. n \in Nat /\ seq = [k \in 1..n |-> seq[k]]
  BY DEF Stands
<1> HIDE DEF n
<1>2. seq \in [1..n -> R]
  BY <1>1
<1> HIDE DEF R
<1>3. seq \in Seq(R) /\ Len(seq) = n
  BY <1>1, <1>2
<1> QED
  BY <1>3 DEF n, R

\* An annotation that is added or removed on both sides.
LEMMA StandsAppended ==
  ASSUME NEW S, NEW asked \in Seq(S), NEW shown \in S, NEW images, NEW seq, NEW annot,
         Stands(seq, asked, images), Marks(annot, images), Shown(annot, images) = shown
  PROVE  Stands(Append(seq, annot), Append(asked, shown), images)
<1> DEFINE R == {seq[k] : k \in 1..Len(asked)} \union {annot}
<1>0. \A k \in 1..Len(asked) : seq[k] \in R
  OBVIOUS
<1>1. seq \in Seq(R) /\ Len(seq) = Len(asked) /\ annot \in R
  BY <1>0, IsSeq DEF Stands
<1> HIDE DEF R
<1>2. /\ Append(seq, annot) \in Seq(R) /\ Len(Append(seq, annot)) = Len(asked) + 1
      /\ Append(seq, annot)[Len(asked) + 1] = annot
      /\ \A k \in 1..Len(asked) : Append(seq, annot)[k] = seq[k]
  BY <1>1
<1>3. /\ Len(Append(asked, shown)) = Len(asked) + 1 /\ Len(asked) \in Nat
      /\ Append(asked, shown)[Len(asked) + 1] = shown
      /\ \A k \in 1..Len(asked) : Append(asked, shown)[k] = asked[k]
  OBVIOUS
<1>4. Append(seq, annot) = [k \in 1..(Len(asked) + 1) |-> Append(seq, annot)[k]]
  BY <1>2, SeqIs
<1>5. ASSUME NEW k \in 1..(Len(asked) + 1)
      PROVE /\ Marks(Append(seq, annot)[k], images)
            /\ Shown(Append(seq, annot)[k], images) = Append(asked, shown)[k]
  <2>1. k \in 1..Len(asked) \/ k = Len(asked) + 1
    BY <1>3
  <2>2. CASE k \in 1..Len(asked)
    BY <1>2, <1>3, <2>2 DEF Stands
  <2>3. CASE k = Len(asked) + 1
    BY <1>2, <1>3, <2>3
  <2> QED
    BY <2>1, <2>2, <2>3
<1> QED
  BY <1>3, <1>4, <1>5 DEF Stands

LEMMA StandsRemoved ==
  ASSUME NEW S, NEW asked \in Seq(S), NEW images, NEW seq, Stands(seq, asked, images),
         NEW i \in 1..Len(asked)
  PROVE  Stands(RemoveAt(seq, i), RemoveAt(asked, i), images)
<1> DEFINE R == {seq[k] : k \in 1..Len(asked)}
           n == Len(asked)
           s == RemoveAt(seq, i)
           a == RemoveAt(asked, i)
<1>1. seq \in Seq(R) /\ Len(seq) = n
  BY StandsIsSeq
<1>0. n \in Nat /\ i \in 1..n
  OBVIOUS
<1>2. /\ a \in Seq(S) /\ Len(a) = n - 1
      /\ \A k \in 1..(n - 1) : a[k] = IF k < i THEN asked[k] ELSE asked[k + 1]
  BY Removed
<1> HIDE DEF R
<1>3. /\ s \in Seq(R) /\ Len(s) = n - 1
      /\ \A k \in 1..(n - 1) : s[k] = IF k < i THEN seq[k] ELSE seq[k + 1]
  BY <1>1, Removed
<1>4. \A k \in 1..n : Marks(seq[k], images) /\ Shown(seq[k], images) = asked[k]
  BY DEF Stands
<1> HIDE DEF n, s, a
<1>5. s = [k \in 1..(n - 1) |-> s[k]]
  BY <1>0, <1>3
<1>6. ASSUME NEW k \in 1..(n - 1) PROVE Marks(s[k], images) /\ Shown(s[k], images) = a[k]
  <2>1. k \in 1..n /\ k + 1 \in 1..n
    BY <1>0
  <2>2. (s[k] = seq[k] /\ a[k] = asked[k]) \/ (s[k] = seq[k + 1] /\ a[k] = asked[k + 1])
    BY <1>2, <1>3
  <2> QED
    BY <1>4, <2>1, <2>2
<1>7. Stands(s, a, images)
  BY <1>2, <1>5, <1>6 DEF Stands
<1> QED
  BY <1>7 DEF s, a

---------------------------------------------------------------------------
(* The working document: each page has a number of its own, its id leads   *)
(* to the document it was made from as long as that is open, and the       *)
(* annotations beside it stand for those asked for under its number.       *)

Asked == Notes \union Images

Sourced ==
  \A i \in DOMAIN pages :
    pages[i].source \in DOMAIN documents => meant[pages[i].number].of = Content(pages[i])

Numbered ==
  /\ Sourced
  /\ nextDoc \in Nat /\ DOMAIN documents \subseteq 0..(nextDoc - 1)
  /\ \A id \in DOMAIN documents : documents[id] \in Sources
  /\ pages \in Seq([source : Nat, index : Nat, number : Nat])
  /\ meant \in Seq([of : Sources \X Nat, annots : Seq(Asked)])
  /\ stamps \in Seq(Images)
  /\ \A i \in DOMAIN pages : pages[i].source < nextDoc /\ pages[i].number \in DOMAIN meant
  /\ \A i, j \in DOMAIN pages : pages[i].number = pages[j].number => i = j

Followed ==
  /\ DOMAIN annotations \subseteq DOMAIN pages
  /\ \A i \in DOMAIN pages : Stands(AnnotsAt(i), meant[pages[i].number].annots, stamps)

\* Pages that are put in another order, with their annotations, are still followed.
LEMMA Reordered ==
  ASSUME Numbered, Followed, UNCHANGED <<documents, nextDoc, stamps, meant>>,
         pages' \in Seq([source : Nat, index : Nat, number : Nat]),
         DOMAIN annotations' \subseteq DOMAIN pages',
         NEW was, \A i \in DOMAIN pages' : was[i] \in DOMAIN pages,
         \A i, j \in DOMAIN pages' : was[i] = was[j] => i = j,
         \A i \in DOMAIN pages' : pages'[i] = pages[was[i]] /\ (AnnotsAt(i))' = AnnotsAt(was[i])
  PROVE  Numbered' /\ Followed'
<1>1. ASSUME NEW i \in DOMAIN pages', NEW j \in DOMAIN pages', pages'[i].number = pages'[j].number
      PROVE  i = j
  <2>1. was[i] \in DOMAIN pages /\ was[j] \in DOMAIN pages /\ pages[was[i]].number = pages[was[j]].number
    BY <1>1
  <2>2. was[i] = was[j]
    BY <2>1 DEF Numbered
  <2> QED
    BY <2>2
<1>2. \A i \in DOMAIN pages' : pages'[i].source < nextDoc' /\ pages'[i].number \in DOMAIN meant'
  BY DEF Numbered
<1>5. ASSUME NEW i \in DOMAIN pages', pages'[i].source \in DOMAIN documents'
      PROVE  meant'[pages'[i].number].of = <<documents'[pages'[i].source], pages'[i].index>>
  <2>1. was[i] \in DOMAIN pages /\ pages'[i] = pages[was[i]]
    OBVIOUS
  <2> QED
    BY <1>5, <2>1 DEF Numbered, Sourced, Content
<1>6. Sourced'
  BY <1>5 DEF Sourced, Content
<1>3. Numbered'
  BY <1>1, <1>2, <1>6 DEF Numbered
<1>4. Followed'
  BY DEF Followed
<1> QED
  BY <1>3, <1>4

\* Where the page was that is now at k, and where the one at k goes, when the page at i
\* is removed.
Before(k, i) == IF k < i THEN k ELSE k + 1
After(k, i) == IF k > i THEN k - 1 ELSE k

\* Each is the other's inverse.
LEMMA RemovalIsOneToOne ==
  ASSUME NEW n \in Nat, NEW i \in 1..n
  PROVE  /\ \A k \in 1..(n - 1) : Before(k, i) \in 1..n /\ Before(k, i) # i /\ After(Before(k, i), i) = k
         /\ \A k \in 1..n : k # i => After(k, i) \in 1..(n - 1) /\ Before(After(k, i), i) = k
<1>1. ASSUME NEW k \in 1..(n - 1)
      PROVE  Before(k, i) \in 1..n /\ Before(k, i) # i /\ After(Before(k, i), i) = k
  <2>1. CASE k < i
    BY <2>1 DEF Before, After
  <2>2. CASE ~(k < i)
    BY <2>2 DEF Before, After
  <2> QED
    BY <2>1, <2>2
<1>2. ASSUME NEW k \in 1..n, k # i PROVE After(k, i) \in 1..(n - 1) /\ Before(After(k, i), i) = k
  <2>1. CASE k > i
    BY <2>1, <1>2 DEF Before, After
  <2>2. CASE ~(k > i)
    BY <2>2, <1>2 DEF Before, After
  <2> QED
    BY <2>1, <2>2
<1> QED
  BY <1>1, <1>2

\* nanopdf_work_remove_page: the pages after it move up.
LEMMA RemovePageKeeps ==
  ASSUME Numbered, Followed, NEW i \in DOMAIN pages, WorkRemovePage(i)
  PROVE  Numbered' /\ Followed'
<1> DEFINE P == [source : Nat, index : Nat, number : Nat]
           n == Len(pages)
           was == [k \in 1..(n - 1) |-> Before(k, i)]
           to == [k \in DOMAIN annotations |-> After(k, i)]
           rest == Without(annotations, i)
<1>1. pages \in Seq(P) /\ DOMAIN annotations \subseteq DOMAIN pages
  BY DEF Numbered, Followed
<1>2. annotations' = Moved(rest, to) /\ pages' = RemoveAt(pages, i)
  BY DEF WorkRemovePage, After
<1> HIDE DEF P, rest
<1>3. n \in Nat /\ DOMAIN pages = 1..n
  BY <1>1
<1>4. /\ \A k \in 1..(n - 1) : Before(k, i) \in 1..n /\ Before(k, i) # i /\ After(Before(k, i), i) = k
      /\ \A k \in 1..n : k # i => After(k, i) \in 1..(n - 1) /\ Before(After(k, i), i) = k
  BY <1>3, RemovalIsOneToOne
<1>5. /\ pages' \in Seq(P) /\ Len(pages') = n - 1
      /\ \A k \in 1..(n - 1) : pages'[k] = IF k < i THEN pages[k] ELSE pages[k + 1]
  BY <1>1, <1>2, <1>3, Removed
<1>6. DOMAIN pages' = 1..(n - 1)
  BY <1>5
<1>7. \A k \in 1..(n - 1) : pages'[k] = pages[was[k]]
  BY <1>5 DEF Before
<1>8. /\ DOMAIN rest = DOMAIN annotations \ {i} /\ DOMAIN rest \subseteq 1..n
      /\ \A k \in DOMAIN rest : rest[k] = annotations[k] /\ to[k] = After(k, i) /\ k # i
  BY <1>1, <1>3 DEF rest, Without
<1> HIDE DEF n, to
<1>9. \A j, k \in DOMAIN rest : to[j] = to[k] => j = k
  BY <1>4, <1>8
<1>10. /\ DOMAIN annotations' = {to[k] : k \in DOMAIN rest}
       /\ \A k \in DOMAIN rest : annotations'[to[k]] = rest[k]
  <2>1. /\ DOMAIN Moved(rest, to) = {to[k] : k \in DOMAIN rest}
        /\ \A k \in DOMAIN rest : Moved(rest, to)[to[k]] = rest[k]
    BY <1>9, MovedAre
  <2> QED
    BY <1>2, <2>1
<1>11. ASSUME NEW k \in 1..(n - 1) PROVE (AnnotsAt(k))' = AnnotsAt(was[k])
  <2>0. was[k] = Before(k, i) /\ was[k] # i /\ After(was[k], i) = k
    BY <1>4
  <2>1. CASE was[k] \in DOMAIN annotations
    BY <1>8, <1>10, <2>0, <2>1 DEF AnnotsAt
  <2>2. CASE was[k] \notin DOMAIN annotations
    <3>1. k \notin DOMAIN annotations'
      BY <1>4, <1>8, <1>10, <2>0, <2>2
    <3> QED
      BY <2>2, <3>1 DEF AnnotsAt
  <2> QED
    BY <2>1, <2>2
<1>12. DOMAIN annotations' \subseteq DOMAIN pages'
  BY <1>4, <1>6, <1>8, <1>10
<1>13. UNCHANGED <<documents, nextDoc, stamps, meant>>
  BY DEF WorkRemovePage
<1>14. \A j, k \in 1..(n - 1) : was[k] \in DOMAIN pages /\ (was[j] = was[k] => j = k)
  BY <1>3, <1>4
<1> HIDE DEF was
<1> QED
  BY <1>5, <1>6, <1>7, <1>11, <1>12, <1>13, <1>14, Reordered DEF P

\* The same when the page at from is moved: Shifted(k, from, at) is where the others go.
Was(k, from, at) ==
  IF k = at THEN from
  ELSE IF from < at THEN IF k >= from /\ k < at THEN k + 1 ELSE k
  ELSE IF k > at /\ k <= from THEN k - 1 ELSE k

LEMMA MoveIsOneToOne ==
  ASSUME NEW n \in Nat, NEW from \in 1..n, NEW at \in 1..n, from # at
  PROVE  /\ \A k \in 1..n : k # at => /\ Was(k, from, at) \in 1..n /\ Was(k, from, at) # from
                                      /\ Shifted(Was(k, from, at), from, at) = k
         /\ \A k \in 1..n : k # from => /\ Shifted(k, from, at) \in 1..n /\ Shifted(k, from, at) # at
                                        /\ Was(Shifted(k, from, at), from, at) = k
<1>1. ASSUME NEW k \in 1..n, k # at
      PROVE  /\ Was(k, from, at) \in 1..n /\ Was(k, from, at) # from
             /\ Shifted(Was(k, from, at), from, at) = k
  <2>1. CASE from < at
    BY <1>1, <2>1 DEF Was, Shifted
  <2>2. CASE ~(from < at)
    BY <1>1, <2>2 DEF Was, Shifted
  <2> QED
    BY <2>1, <2>2
<1>2. ASSUME NEW k \in 1..n, k # from
      PROVE  /\ Shifted(k, from, at) \in 1..n /\ Shifted(k, from, at) # at
             /\ Was(Shifted(k, from, at), from, at) = k
  <2>1. CASE from < at
    BY <1>2, <2>1 DEF Was, Shifted
  <2>2. CASE ~(from < at)
    BY <1>2, <2>2 DEF Was, Shifted
  <2> QED
    BY <2>1, <2>2
<1> QED
  BY <1>1, <1>2

\* The page now at k is the one that Was names.
LEMMA MovedInSeq ==
  ASSUME NEW S, NEW s \in Seq(S), NEW from \in 1..Len(s), NEW at \in 1..Len(s), from # at
  PROVE  /\ InsertAt(RemoveAt(s, from), at, s[from]) \in Seq(S)
         /\ Len(InsertAt(RemoveAt(s, from), at, s[from])) = Len(s)
         /\ \A k \in 1..Len(s) :
              InsertAt(RemoveAt(s, from), at, s[from])[k] = s[Was(k, from, at)]
<1> DEFINE r == RemoveAt(s, from)
           n == Len(s)
           e == s[from]
           t == InsertAt(r, at, e)
<1>1. n \in Nat /\ from \in 1..n /\ at \in 1..n /\ e \in S
  OBVIOUS
<1>2. /\ r \in Seq(S) /\ Len(r) = n - 1
      /\ \A k \in 1..(n - 1) : r[k] = IF k < from THEN s[k] ELSE s[k + 1]
  BY Removed
<1> HIDE DEF n, r, e
<1>3. at \in 1..(Len(r) + 1) /\ Len(r) + 1 = n
  BY <1>1, <1>2
<1>4. /\ t \in Seq(S) /\ Len(t) = Len(r) + 1
      /\ \A k \in 1..(Len(r) + 1) : t[k] = IF k < at THEN r[k] ELSE IF k = at THEN e ELSE r[k - 1]
  BY <1>1, <1>2, <1>3, Inserted
<1> HIDE DEF t
<1>5. ASSUME NEW k \in 1..n PROVE t[k] = s[Was(k, from, at)]
  <2>1. CASE k < at
    <3>1. k \in 1..(n - 1) /\ t[k] = r[k]
      BY <1>1, <1>3, <1>4, <2>1
    <3>2. Was(k, from, at) = IF k < from THEN k ELSE k + 1
      BY <1>1, <2>1 DEF Was
    <3> QED
      BY <1>2, <3>1, <3>2
  <2>2. CASE k = at
    <3>1. t[k] = e /\ Was(k, from, at) = from
      BY <1>1, <1>3, <1>4, <2>2 DEF Was
    <3> QED
      BY <3>1 DEF e
  <2>3. CASE k > at
    <3>1. k - 1 \in 1..(n - 1) /\ t[k] = r[k - 1]
      BY <1>1, <1>3, <1>4, <2>3
    <3>2. r[k - 1] = IF k - 1 < from THEN s[k - 1] ELSE s[k - 1 + 1]
      BY <1>2, <3>1
    <3>3. Was(k, from, at) = IF k - 1 < from THEN k - 1 ELSE k - 1 + 1
      BY <1>1, <2>3 DEF Was
    <3> QED
      BY <3>1, <3>2, <3>3
  <2>4. k < at \/ k = at \/ k > at
    BY <1>1
  <2> QED
    BY <2>1, <2>2, <2>3, <2>4
<1> QED
  BY <1>3, <1>4, <1>5 DEF t, r, e, n

\* nanopdf_work_move_page: the pages on the way shift by one.
LEMMA MovePageKeeps ==
  ASSUME Numbered, Followed, NEW from \in DOMAIN pages, NEW at \in DOMAIN pages,
         WorkMovePage(from, at)
  PROVE  Numbered' /\ Followed'
<1> DEFINE P == [source : Nat, index : Nat, number : Nat]
           n == Len(pages)
           was == [k \in 1..n |-> Was(k, from, at)]
           to == [k \in DOMAIN annotations |-> Shifted(k, from, at)]
           rest == Without(annotations, from)
           others == Moved(rest, to)
           r == RemoveAt(pages, from)
<1>1. pages \in Seq(P) /\ DOMAIN annotations \subseteq DOMAIN pages
  BY DEF Numbered, Followed
<1>2. /\ annotations' = With(others, at, AnnotsAt(from))
      /\ pages' = InsertAt(r, at, pages[from]) /\ from # at
  BY DEF WorkMovePage
<1> HIDE DEF P, rest, others, r
<1>3. n \in Nat /\ DOMAIN pages = 1..n /\ pages[from] \in P
  BY <1>1
<1>4. /\ \A k \in 1..n : k # at => /\ Was(k, from, at) \in 1..n /\ Was(k, from, at) # from
                                   /\ Shifted(Was(k, from, at), from, at) = k
      /\ \A k \in 1..n : k # from => /\ Shifted(k, from, at) \in 1..n /\ Shifted(k, from, at) # at
                                     /\ Was(Shifted(k, from, at), from, at) = k
      /\ Was(at, from, at) = from
  <2>1. Was(at, from, at) = from
    BY DEF Was
  <2>2. n \in Nat /\ from \in 1..n /\ at \in 1..n
    BY <1>3
  <2> HIDE DEF n
  <2> QED
    BY <1>2, <2>1, <2>2, MoveIsOneToOne
<1>5. /\ pages' \in Seq(P) /\ Len(pages') = n
      /\ \A k \in 1..n : pages'[k] = pages[Was(k, from, at)]
  <2>1. pages \in Seq(P) /\ from \in 1..Len(pages) /\ at \in 1..Len(pages) /\ from # at
    BY <1>1, <1>2, <1>3
  <2> HIDE DEF n, was, to
  <2>2. /\ InsertAt(RemoveAt(pages, from), at, pages[from]) \in Seq(P)
        /\ Len(InsertAt(RemoveAt(pages, from), at, pages[from])) = Len(pages)
        /\ \A k \in 1..Len(pages) :
             InsertAt(RemoveAt(pages, from), at, pages[from])[k] = pages[Was(k, from, at)]
    BY <2>1, MovedInSeq
  <2> QED
    BY <1>2, <2>2 DEF r, n
<1>6. pages' \in Seq(P) /\ Len(pages') = n
  BY <1>5
<1>7. DOMAIN pages' = 1..n
  BY <1>6
<1>8. /\ DOMAIN rest = DOMAIN annotations \ {from} /\ DOMAIN rest \subseteq 1..n
      /\ \A k \in DOMAIN rest : rest[k] = annotations[k] /\ to[k] = Shifted(k, from, at) /\ k # from
  BY <1>1, <1>3 DEF rest, Without
<1> HIDE DEF n, to
<1>9. \A k \in 1..n : pages'[k] = pages[was[k]]
  BY <1>5
<1>10. \A j, k \in DOMAIN rest : to[j] = to[k] => j = k
  BY <1>4, <1>8
<1>11. DOMAIN others = {to[k] : k \in DOMAIN rest} /\ \A k \in DOMAIN rest : others[to[k]] = rest[k]
  BY <1>10, MovedAre DEF others
<1>12. /\ DOMAIN annotations' = DOMAIN others \union {at} /\ annotations'[at] = AnnotsAt(from)
       /\ \A k \in DOMAIN others : k # at => annotations'[k] = others[k]
  BY <1>2 DEF With
<1>13. ASSUME NEW k \in 1..n PROVE (AnnotsAt(k))' = AnnotsAt(was[k])
  <2>0. was[k] = Was(k, from, at)
    OBVIOUS
  <2>1. CASE k = at
    BY <1>4, <1>12, <2>0, <2>1 DEF AnnotsAt
  <2>2. CASE k # at /\ was[k] \in DOMAIN annotations
    <3>1. was[k] \in DOMAIN rest /\ to[was[k]] = k
      BY <1>4, <1>8, <2>0, <2>2
    <3>2. k \in DOMAIN others /\ others[k] = annotations[was[k]]
      BY <1>8, <1>11, <3>1
    <3> QED
      BY <1>12, <2>2, <3>2 DEF AnnotsAt
  <2>3. CASE k # at /\ was[k] \notin DOMAIN annotations
    <3>1. k \notin DOMAIN annotations'
      BY <1>4, <1>8, <1>11, <1>12, <2>0, <2>3
    <3> QED
      BY <2>3, <3>1 DEF AnnotsAt
  <2> QED
    BY <2>1, <2>2, <2>3
<1>14. DOMAIN annotations' \subseteq DOMAIN pages'
  BY <1>3, <1>4, <1>7, <1>8, <1>11, <1>12
<1>15. UNCHANGED <<documents, nextDoc, stamps, meant>>
  BY DEF WorkMovePage
<1>16. \A k \in 1..n : was[k] \in DOMAIN pages
  BY <1>3, <1>4
<1>17. \A j, k \in 1..n : was[j] = was[k] => j = k
  BY <1>4
<1> HIDE DEF was
<1>18. \A k \in 1..n : pages'[k] = pages[was[k]] /\ (AnnotsAt(k))' = AnnotsAt(was[k])
  BY <1>9, <1>13
<1>19. /\ \A i \in DOMAIN pages' : was[i] \in DOMAIN pages
       /\ \A i, j \in DOMAIN pages' : was[i] = was[j] => i = j
       /\ \A i \in DOMAIN pages' : pages'[i] = pages[was[i]] /\ (AnnotsAt(i))' = AnnotsAt(was[i])
  BY <1>7, <1>16, <1>17, <1>18
<1>20. pages' \in Seq([source : Nat, index : Nat, number : Nat])
  BY <1>6 DEF P
<1> QED
  BY <1>14, <1>15, <1>19, <1>20, Reordered

\* Pages that are added have numbers that no page has and no annotations.
LEMMA Added ==
  ASSUME Numbered, Followed, NEW id \in DOMAIN documents, NEW n \in Nat, NEW index \in [1..n -> Nat],
         UNCHANGED <<documents, nextDoc, annotations, stamps>>,
         Len(pages') = Len(pages) + n,
         pages' \in Seq([source : Nat, index : Nat, number : Nat]),
         \A k \in 1..Len(pages) : pages'[k] = pages[k],
         \A p \in 1..n : pages'[Len(pages) + p] = NewPage(id, index[p], Len(meant) + p),
         Len(meant') = Len(meant) + n,
         meant' \in Seq([of : Sources \X Nat, annots : Seq(Asked)]),
         \A k \in 1..Len(meant) : meant'[k] = meant[k],
         \A p \in 1..n : meant'[Len(meant) + p] = Blank(id, index[p])
  PROVE  Numbered' /\ Followed'
<1> DEFINE l == Len(pages)
           m == Len(meant)
<1>1. l \in Nat /\ m \in Nat /\ DOMAIN pages = 1..l /\ DOMAIN meant = 1..m
  BY DEF Numbered
<1>2. DOMAIN pages' = 1..(l + n) /\ DOMAIN meant' = 1..(m + n)
  OBVIOUS
<1>3. ASSUME NEW k \in 1..l
      PROVE  /\ pages'[k] = pages[k] /\ pages[k].number \in 1..m
             /\ pages[k].source < nextDoc
  <2>1. k \in DOMAIN pages
    BY <1>1
  <2> QED
    BY <1>1, <2>1 DEF Numbered
<1>4. ASSUME NEW p \in 1..n
      PROVE  /\ pages'[l + p].number = m + p /\ pages'[l + p].source = id
             /\ meant'[m + p].annots = <<>>
             /\ meant'[m + p].of = <<documents[id], pages'[l + p].index>>
  <2>1. pages'[l + p] = [source |-> id, index |-> index[p], number |-> m + p]
    BY DEF NewPage
  <2>2. meant'[m + p] = [of |-> <<documents[id], index[p]>>, annots |-> <<>>]
    BY DEF Blank
  <2> QED
    BY <2>1, <2>2
<1>5. id \in Nat /\ nextDoc \in Nat /\ id < nextDoc
  BY DEF Numbered
<1>6. \A i, j \in 1..l : pages[i].number = pages[j].number => i = j
  BY <1>1 DEF Numbered
<1>0. \A k \in 1..m : meant'[k] = meant[k]
  OBVIOUS
<1> HIDE DEF l, m
<1>7. ASSUME NEW k \in 1..(l + n)
      PROVE  k \in 1..l \/ \E p \in 1..n : k = l + p
  <2>1. k \in 1..l \/ (k - l \in 1..n /\ k = l + (k - l))
    BY <1>1
  <2> QED
    BY <2>1
<1>8. ASSUME NEW k \in 1..(l + n) PROVE pages'[k].source < nextDoc /\ pages'[k].number \in 1..(m + n)
  <2>1. CASE k \in 1..l
    <3>1. pages'[k] = pages[k] /\ pages[k].number \in 1..m /\ pages[k].source < nextDoc
      BY <1>3, <2>1
    <3>2. 1..m \subseteq 1..(m + n)
      BY <1>1
    <3> QED
      BY <3>1, <3>2
  <2>2. ASSUME NEW p \in 1..n, k = l + p PROVE pages'[k].source < nextDoc /\ pages'[k].number \in 1..(m + n)
    <3>1. pages'[k].number = m + p /\ pages'[k].source = id
      BY <1>4, <2>2
    <3>2. m \in Nat /\ p \in Nat /\ 1 <= p /\ p <= n
      BY <1>1
    <3>4. m + p \in 1..(m + n)
      BY <3>2
    <3> QED
      BY <1>5, <3>1, <3>4
  <2> QED
    BY <1>7, <2>1, <2>2
<1>9. ASSUME NEW i \in 1..(l + n), NEW j \in 1..(l + n), pages'[i].number = pages'[j].number
      PROVE  i = j
  <2>1. CASE i \in 1..l /\ j \in 1..l
    BY <1>3, <1>6, <1>9, <2>1
  <2>2. ASSUME NEW h \in 1..l, NEW p \in 1..n PROVE pages'[h].number # pages'[l + p].number
    <3>1. pages'[h].number \in 1..m /\ pages'[l + p].number = m + p
      BY <1>3, <1>4
    <3>2. m + p \notin 1..m
      BY <1>1
    <3> QED
      BY <3>1, <3>2
  <2>3. ASSUME NEW p \in 1..n, NEW q \in 1..n, pages'[l + p].number = pages'[l + q].number
        PROVE  p = q
    <3>1. pages'[l + p].number = m + p /\ pages'[l + q].number = m + q
      BY <1>4
    <3>2. m + p = m + q
      BY <2>3, <3>1
    <3> QED
      BY <1>1, <3>2
  <2>4. CASE i \in 1..l /\ \E p \in 1..n : j = l + p
    BY <1>9, <2>2, <2>4
  <2>5. CASE j \in 1..l /\ \E p \in 1..n : i = l + p
    BY <1>9, <2>2, <2>5
  <2>6. CASE (\E p \in 1..n : i = l + p) /\ (\E q \in 1..n : j = l + q)
    BY <1>9, <2>3, <2>6
  <2> QED
    BY <1>7, <2>1, <2>4, <2>5, <2>6
<1>15. ASSUME NEW k \in 1..(l + n), pages'[k].source \in DOMAIN documents
       PROVE  meant'[pages'[k].number].of = <<documents[pages'[k].source], pages'[k].index>>
  <2>1. CASE k \in 1..l
    <3>1. /\ pages'[k] = pages[k] /\ pages[k].number \in 1..m
          /\ meant'[pages[k].number] = meant[pages[k].number]
      BY <1>0, <1>3, <2>1
    <3>2. meant[pages[k].number].of = <<documents[pages[k].source], pages[k].index>>
      BY <1>1, <1>15, <2>1, <3>1 DEF Numbered, Sourced, Content
    <3> QED
      BY <3>1, <3>2
  <2>2. ASSUME NEW p \in 1..n, k = l + p
        PROVE  meant'[pages'[k].number].of = <<documents[pages'[k].source], pages'[k].index>>
    <3>1. pages'[k].number = m + p /\ pages'[k].source = id
      BY <1>4, <2>2
    <3>2. meant'[m + p].of = <<documents[id], pages'[k].index>>
      BY <1>4, <2>2
    <3> QED
      BY <3>1, <3>2
  <2> QED
    BY <1>7, <2>1, <2>2
<1>16. Sourced'
  BY <1>2, <1>15 DEF Sourced, Content
<1>10. Numbered'
  BY <1>2, <1>8, <1>9, <1>16 DEF Numbered
<1>11. ASSUME NEW k \in 1..(l + n)
       PROVE  Stands(AnnotsAt(k), meant'[pages'[k].number].annots, stamps)
  <2>1. CASE k \in 1..l
    <3>1. pages'[k].number = pages[k].number /\ meant'[pages[k].number] = meant[pages[k].number]
      BY <1>0, <1>3, <2>1
    <3> QED
      BY <1>1, <2>1, <3>1 DEF Followed
  <2>2. CASE \E p \in 1..n : k = l + p
    <3>1. k \notin DOMAIN annotations
      BY <1>1, <2>2 DEF Followed
    <3>2. AnnotsAt(k) = <<>>
      BY <3>1 DEF AnnotsAt
    <3>3. PICK p \in 1..n : k = l + p
      BY <2>2
    <3>4. pages'[k].number = m + p /\ meant'[m + p].annots = <<>>
      BY <1>4, <3>3
    <3> QED
      BY <3>2, <3>4 DEF Stands
  <2> QED
    BY <1>7, <2>1, <2>2
<1>12. \A k \in 1..(l + n) : (AnnotsAt(k))' = AnnotsAt(k)
  BY DEF AnnotsAt
<1>13. DOMAIN annotations' \subseteq 1..(l + n)
  BY <1>1 DEF Followed
<1>14. Followed'
  BY <1>2, <1>11, <1>12, <1>13 DEF Followed
<1> QED
  BY <1>10, <1>14

\* nanopdf_work_add_page
LEMMA AddPageKeeps ==
  ASSUME WorkAssumption, Numbered, Followed, NEW id \in DOMAIN documents,
         NEW p \in 1..SourcePages[documents[id]], WorkAddPage(id, p)
  PROVE  Numbered' /\ Followed'
<1> DEFINE P == [source : Nat, index : Nat, number : Nat]
           M == [of : Sources \X Nat, annots : Seq(Asked)]
           index == [q \in 1..1 |-> p]
           page == NewPage(id, p, Len(meant) + 1)
<1>1. documents[id] \in Sources /\ id \in Nat /\ p \in Nat
  BY DEF Numbered, WorkAssumption
<1>2. pages \in Seq(P) /\ meant \in Seq(M) /\ page \in P /\ Blank(id, p) \in M
  BY <1>1 DEF Numbered, NewPage, Blank
<1>3. pages' = Append(pages, page) /\ meant' = Append(meant, Blank(id, p))
  BY DEF WorkAddPage
<1>4. UNCHANGED <<documents, nextDoc, annotations, stamps>>
  BY DEF WorkAddPage
<1> HIDE DEF P, M, page
<1>5. /\ pages' \in Seq(P) /\ Len(pages') = Len(pages) + 1 /\ pages'[Len(pages) + 1] = page
      /\ \A k \in 1..Len(pages) : pages'[k] = pages[k]
  BY <1>2, <1>3
<1>6. /\ meant' \in Seq(M) /\ Len(meant') = Len(meant) + 1 /\ meant'[Len(meant) + 1] = Blank(id, p)
      /\ \A k \in 1..Len(meant) : meant'[k] = meant[k]
  BY <1>2, <1>3
<1>7. /\ index \in [1..1 -> Nat]
      /\ \A q \in 1..1 : pages'[Len(pages) + q] = NewPage(id, index[q], Len(meant) + q)
      /\ \A q \in 1..1 : meant'[Len(meant) + q] = Blank(id, index[q])
  BY <1>1, <1>5, <1>6 DEF page
<1>8. 1 \in Nat
  OBVIOUS
<1> HIDE DEF index
<1> QED
  BY <1>4, <1>5, <1>6, <1>7, <1>8, Added DEF P, M

\* nanopdf_work_add_all_pages
LEMMA AddAllPagesKeeps ==
  ASSUME WorkAssumption, Numbered, Followed, NEW id \in DOMAIN documents, WorkAddAllPages(id)
  PROVE  Numbered' /\ Followed'
<1> DEFINE P == [source : Nat, index : Nat, number : Nat]
           M == [of : Sources \X Nat, annots : Seq(Asked)]
           n == SourcePages[documents[id]]
           index == [q \in 1..n |-> q]
           new == [q \in 1..n |-> NewPage(id, q, Len(meant) + q)]
           blanks == [q \in 1..n |-> Blank(id, q)]
<1>1. documents[id] \in Sources /\ id \in Nat /\ n \in Nat
  BY DEF Numbered, WorkAssumption
<1>2. pages' = pages \o new /\ meant' = meant \o blanks
  BY DEF WorkAddAllPages
<1>3. UNCHANGED <<documents, nextDoc, annotations, stamps>>
  BY DEF WorkAddAllPages
<1> HIDE DEF n
<1>4. pages \in Seq(P) /\ meant \in Seq(M) /\ Len(meant) \in Nat
  BY DEF Numbered
<1>5. /\ new \in [1..n -> P] /\ blanks \in [1..n -> M]
  BY <1>1, <1>4 DEF NewPage, Blank
<1> HIDE DEF P, M, new, blanks
<1>6. new \in Seq(P) /\ Len(new) = n /\ blanks \in Seq(M) /\ Len(blanks) = n
  BY <1>1, <1>5
<1>7. /\ pages' \in Seq(P) /\ Len(pages') = Len(pages) + n
      /\ \A k \in 1..Len(pages) : pages'[k] = pages[k]
      /\ \A q \in 1..n : pages'[Len(pages) + q] = new[q]
  BY <1>2, <1>4, <1>6
<1>8. /\ meant' \in Seq(M) /\ Len(meant') = Len(meant) + n
      /\ \A k \in 1..Len(meant) : meant'[k] = meant[k]
      /\ \A q \in 1..n : meant'[Len(meant) + q] = blanks[q]
  <2>1. /\ meant \o blanks \in Seq(M) /\ Len(meant \o blanks) = Len(meant) + n
        /\ \A k \in 1..Len(meant) : (meant \o blanks)[k] = meant[k]
        /\ \A q \in 1..n : (meant \o blanks)[Len(meant) + q] = blanks[q]
    BY <1>4, <1>6
  <2> QED
    BY <1>2, <2>1
<1>9. /\ index \in [1..n -> Nat]
      /\ \A q \in 1..n : pages'[Len(pages) + q] = NewPage(id, index[q], Len(meant) + q)
      /\ \A q \in 1..n : meant'[Len(meant) + q] = Blank(id, index[q])
  BY <1>1, <1>7, <1>8 DEF new, blanks
<1> HIDE DEF index
<1> QED
  BY <1>1, <1>3, <1>7, <1>8, <1>9, Added DEF P, M

---------------------------------------------------------------------------
(* Annotations. *)

\* What was asked for under the number of a page.
LEMMA MeantIs ==
  ASSUME Numbered, NEW i \in DOMAIN pages
  PROVE  /\ pages[i].number \in DOMAIN meant
         /\ meant[pages[i].number] \in [of : Sources \X Nat, annots : Seq(Asked)]
         /\ MeantAt(i) \in Seq(Asked)
<1> DEFINE M == [of : Sources \X Nat, annots : Seq(Asked)]
           m == pages[i].number
<1>1. meant \in Seq(M) /\ m \in DOMAIN meant
  BY DEF Numbered
<1> HIDE DEF M, m
<1>2. meant[m] \in M
  BY <1>1
<1>3. meant[m].annots \in Seq(Asked)
  BY <1>2 DEF M
<1> QED
  BY <1>1, <1>2, <1>3 DEF m, M, MeantAt

\* What is changed beside one page, and asked for under its number, is of no other.
LEMMA Edited ==
  ASSUME Numbered, Followed, NEW i \in DOMAIN pages, NEW seq, NEW asked \in Seq(Asked),
         Stands(seq, asked, stamps), Means(i, asked),
         UNCHANGED <<documents, nextDoc, pages, stamps>>,
         DOMAIN annotations' \subseteq DOMAIN annotations \union {i},
         (AnnotsAt(i))' = seq,
         \A j \in DOMAIN pages : j # i => (AnnotsAt(j))' = AnnotsAt(j)
  PROVE  Numbered' /\ Followed'
<1> DEFINE m == pages[i].number
           M == [of : Sources \X Nat, annots : Seq(Asked)]
<1>1. m \in DOMAIN meant /\ meant \in Seq(M) /\ meant[m] \in M
  BY MeantIs DEF Numbered
<1>2. meant' = [meant EXCEPT ![m] = [@ EXCEPT !.annots = asked]]
  BY DEF Means
<1> HIDE DEF m
<1>3. [meant[m] EXCEPT !.annots = asked] \in M /\ [meant[m] EXCEPT !.annots = asked].annots = asked
  BY <1>1
<1> HIDE DEF M
<1>4. meant' \in Seq(M) /\ DOMAIN meant' = DOMAIN meant
  BY <1>1, <1>2, <1>3
<1>5. meant'[m].annots = asked /\ \A n \in DOMAIN meant : n # m => meant'[n] = meant[n]
  BY <1>1, <1>2, <1>3
<1>9. \A n \in DOMAIN meant : meant'[n].of = meant[n].of
  <2>1. [meant[m] EXCEPT !.annots = asked].of = meant[m].of
    OBVIOUS
  <2> QED
    BY <1>1, <1>2, <1>5, <2>1
<1>10. Sourced'
  BY <1>9 DEF Numbered, Sourced, Content
<1>6. Numbered'
  BY <1>4, <1>10 DEF Numbered, M
<1>7. ASSUME NEW j \in DOMAIN pages
      PROVE  Stands((AnnotsAt(j))', meant'[pages[j].number].annots, stamps)
  <2>1. CASE j = i
    BY <1>5, <2>1 DEF m
  <2>2. CASE j # i
    <3>1. pages[j].number \in DOMAIN meant /\ pages[j].number # m
      BY <2>2 DEF Numbered, m
    <3>2. meant'[pages[j].number] = meant[pages[j].number]
      BY <1>5, <3>1
    <3> QED
      BY <2>2, <3>2 DEF Followed
  <2> QED
    BY <2>1, <2>2
<1>8. Followed'
  BY <1>7 DEF Followed
<1> QED
  BY <1>6, <1>8

\* nanopdf_annot_add_text and the others
LEMMA AddAnnotKeeps ==
  ASSUME Numbered, Followed, NEW i \in DOMAIN pages, NEW annot, NEW shows \in Asked,
         Marks(annot, stamps), Shown(annot, stamps) = shows, AddAnnot(i, annot, shows)
  PROVE  Numbered' /\ Followed'
<1> DEFINE asked == MeantAt(i)
<1>1. asked \in Seq(Asked) /\ Stands(AnnotsAt(i), asked, stamps)
  BY MeantIs DEF Followed, MeantAt
<1>2. Means(i, Append(asked, shows)) /\ annotations' = With(annotations, i, Append(AnnotsAt(i), annot))
  BY DEF AddAnnot
<1> HIDE DEF asked
<1>3. Append(asked, shows) \in Seq(Asked)
  BY <1>1
<1>4. Stands(Append(AnnotsAt(i), annot), Append(asked, shows), stamps)
  BY <1>1, StandsAppended
<1>5. /\ DOMAIN annotations' \subseteq DOMAIN annotations \union {i}
      /\ (AnnotsAt(i))' = Append(AnnotsAt(i), annot)
      /\ \A j \in DOMAIN pages : j # i => (AnnotsAt(j))' = AnnotsAt(j)
  BY <1>2 DEF With, AnnotsAt
<1>6. UNCHANGED <<documents, nextDoc, pages, stamps>>
  BY DEF AddAnnot
<1> QED
  BY <1>2, <1>3, <1>4, <1>5, <1>6, Edited

\* nanopdf_annot_remove
LEMMA AnnotRemoveKeeps ==
  ASSUME Numbered, Followed, NEW i \in DOMAIN pages, NEW k \in DOMAIN AnnotsAt(i), AnnotRemove(i, k)
  PROVE  Numbered' /\ Followed'
<1> DEFINE asked == MeantAt(i)
<1>1. asked \in Seq(Asked) /\ Stands(AnnotsAt(i), asked, stamps)
  BY MeantIs DEF Followed, MeantAt
<1>2. Means(i, RemoveAt(asked, k)) /\ annotations' = With(annotations, i, RemoveAt(AnnotsAt(i), k))
  BY DEF AnnotRemove
<1> HIDE DEF asked
<1>3. k \in 1..Len(asked)
  BY <1>1 DEF Stands
<1>4. RemoveAt(asked, k) \in Seq(Asked)
  BY <1>1, <1>3, Removed
<1>5. Stands(RemoveAt(AnnotsAt(i), k), RemoveAt(asked, k), stamps)
  BY <1>1, <1>3, StandsRemoved
<1>6. /\ DOMAIN annotations' \subseteq DOMAIN annotations \union {i}
      /\ (AnnotsAt(i))' = RemoveAt(AnnotsAt(i), k)
      /\ \A j \in DOMAIN pages : j # i => (AnnotsAt(j))' = AnnotsAt(j)
  BY <1>2 DEF With, AnnotsAt
<1>7. UNCHANGED <<documents, nextDoc, pages, stamps>>
  BY DEF AnnotRemove
<1> QED
  BY <1>2, <1>4, <1>5, <1>6, <1>7, Edited

\* nanopdf_annot_clear_page
LEMMA AnnotClearKeeps ==
  ASSUME Numbered, Followed, NEW i \in DOMAIN pages, AnnotClearPage(i)
  PROVE  Numbered' /\ Followed'
<1>1. Means(i, <<>>) /\ annotations' = Without(annotations, i)
  BY DEF AnnotClearPage
<1>2. <<>> \in Seq(Asked) /\ Stands(<<>>, <<>>, stamps)
  BY DEF Stands
<1>3. /\ DOMAIN annotations' \subseteq DOMAIN annotations \union {i}
      /\ (AnnotsAt(i))' = <<>>
      /\ \A j \in DOMAIN pages : j # i => (AnnotsAt(j))' = AnnotsAt(j)
  BY <1>1 DEF Without, AnnotsAt
<1>4. UNCHANGED <<documents, nextDoc, pages, stamps>>
  BY DEF AnnotClearPage
<1> QED
  BY <1>1, <1>2, <1>3, <1>4, Edited

\* nanopdf_register_stamp_image: ids of the images before it stay.
LEMMA RegisterKeeps ==
  ASSUME Numbered, Followed, NEW image \in Images, RegisterStamp(image)
  PROVE  Numbered' /\ Followed'
<1>1. UNCHANGED <<documents, nextDoc, pages, annotations, meant>> /\ stamps' = Append(stamps, image)
  BY DEF RegisterStamp
<1>2. stamps \in Seq(Images)
  BY DEF Numbered
<1>3. /\ stamps' \in Seq(Images) /\ DOMAIN stamps \subseteq DOMAIN stamps'
      /\ \A id \in DOMAIN stamps : stamps'[id] = stamps[id]
  BY <1>1, <1>2
<1>4. ASSUME NEW annot, Marks(annot, stamps)
      PROVE  Marks(annot, stamps') /\ Shown(annot, stamps') = Shown(annot, stamps)
  BY <1>3, <1>4 DEF Marks, Shown
<1>5. ASSUME NEW seq, NEW asked, Stands(seq, asked, stamps) PROVE Stands(seq, asked, stamps')
  BY <1>4, <1>5 DEF Stands
<1>6. \A i \in DOMAIN pages : (AnnotsAt(i))' = AnnotsAt(i)
  BY <1>1 DEF AnnotsAt
<1>7. Numbered'
  BY <1>1, <1>3 DEF Numbered, Sourced, Content
<1>8. Followed'
  BY <1>1, <1>5, <1>6 DEF Followed
<1> QED
  BY <1>7, <1>8

\* nanopdf_export_pdf gives names to stamps and changes no annotation otherwise.
LEMMA ExportKeeps ==
  ASSUME Numbered, Followed, NEW failing, ExportPdf(failing)
  PROVE  Numbered' /\ Followed'
<1>1. UNCHANGED <<documents, nextDoc, pages, stamps, meant>> /\ annotations' = Named(failing)
  BY DEF ExportPdf
<1>2. /\ DOMAIN annotations' = DOMAIN annotations
      /\ \A i \in DOMAIN annotations :
           /\ DOMAIN annotations'[i] = DOMAIN annotations[i]
           /\ annotations'[i] = [k \in DOMAIN annotations[i] |-> annotations'[i][k]]
           /\ \A k \in DOMAIN annotations[i] :
                \/ annotations'[i][k] = annotations[i][k]
                \/ \E name : annotations'[i][k] = [annotations[i][k] EXCEPT !.name = name]
  BY <1>1 DEF Named
<1>3. ASSUME NEW annot, NEW name, Marks(annot, stamps)
      PROVE  /\ Marks([annot EXCEPT !.name = name], stamps)
             /\ Shown([annot EXCEPT !.name = name], stamps) = Shown(annot, stamps)
  <2> DEFINE new == [annot EXCEPT !.name = name]
  <2>1. DOMAIN new = DOMAIN annot /\ new.stamp = annot.stamp
    BY <1>3 DEF Marks
  <2>2. annot.stamp = 0 => new.note = annot.note
    BY <1>3 DEF Marks
  <2> HIDE DEF new
  <2>3. Marks(new, stamps) /\ Shown(new, stamps) = Shown(annot, stamps)
    BY <1>3, <2>1, <2>2 DEF Marks, Shown
  <2> QED
    BY <2>3 DEF new
<1>4. ASSUME NEW i \in DOMAIN annotations, NEW asked, Stands(annotations[i], asked, stamps)
      PROVE  Stands(annotations'[i], asked, stamps)
  <2>1. DOMAIN annotations[i] = 1..Len(asked)
    BY <1>4 DEF Stands
  <2>2. annotations'[i] = [k \in 1..Len(asked) |-> annotations'[i][k]]
    BY <1>2, <2>1
  <2>3. ASSUME NEW k \in 1..Len(asked)
        PROVE  Marks(annotations'[i][k], stamps) /\ Shown(annotations'[i][k], stamps) = asked[k]
    <3>1. Marks(annotations[i][k], stamps) /\ Shown(annotations[i][k], stamps) = asked[k]
      BY <1>4 DEF Stands
    <3>2. \/ annotations'[i][k] = annotations[i][k]
          \/ \E name : annotations'[i][k] = [annotations[i][k] EXCEPT !.name = name]
      BY <1>2, <2>1
    <3>3. ASSUME NEW name, annotations'[i][k] = [annotations[i][k] EXCEPT !.name = name]
          PROVE  Marks(annotations'[i][k], stamps) /\ Shown(annotations'[i][k], stamps) = asked[k]
      <4>1. /\ Marks([annotations[i][k] EXCEPT !.name = name], stamps)
            /\ Shown([annotations[i][k] EXCEPT !.name = name], stamps) = asked[k]
        BY <1>3, <3>1
      <4> QED
        BY <3>3, <4>1
    <3> QED
      BY <3>1, <3>2, <3>3
  <2> QED
    BY <2>2, <2>3 DEF Stands
<1>5. Numbered'
  BY <1>1 DEF Numbered, Sourced, Content
<1>6. ASSUME NEW i \in DOMAIN pages
      PROVE  Stands((AnnotsAt(i))', meant[pages[i].number].annots, stamps)
  <2>1. CASE i \in DOMAIN annotations
    BY <1>2, <1>4, <2>1 DEF Followed, AnnotsAt
  <2>2. CASE i \notin DOMAIN annotations
    BY <1>2, <2>2 DEF Followed, AnnotsAt
  <2> QED
    BY <2>1, <2>2
<1>7. Followed'
  BY <1>1, <1>2, <1>6 DEF Followed
<1> QED
  BY <1>5, <1>7

---------------------------------------------------------------------------
(* The invariant of the editor.  In the updates of a form session, the     *)
(* first one of each field is what the field was told first; an export     *)
(* replaces the writer as a whole, and no update is added to that of an    *)
(* export.                                                                 *)

Update == [field : Fields, value : Values]

FirstTold(updates, values) ==
  \A field \in Fields :
    \/ values[field] = Own /\ \A i \in DOMAIN updates : updates[i].field # field
    \/ /\ values[field] # Own
       /\ \E i \in DOMAIN updates :
            /\ updates[i] = [field |-> field, value |-> values[field]]
            /\ \A j \in DOMAIN updates : j < i => updates[j].field # field

InSession(w, f) ==
  /\ w = [kind |-> "form", of |-> f.of, updates |-> w.updates]
  /\ f = [of |-> f.of, values |-> f.values]
  /\ w.updates \in Seq(Update) /\ f.values \in [Fields -> Values \union {Own}]
  /\ FirstTold(w.updates, f.values)

FormKept ==
  /\ \/ writer = NoWriter
     \/ writer = [kind |-> "export"]
     \/ InSession(writer, form)
  /\ FormSavesAccepted

WorkInv == Numbered /\ Followed /\ FormKept /\ exports \in 0..MaxExports

LEMMA WorkInvInit ==
  ASSUME WorkAssumption, WorkInit PROVE WorkInv
<1>1. Numbered
  BY DEF WorkInit, Numbered, Sourced, Content, NoEntries
<1>2. Followed
  BY DEF WorkInit, Followed, NoEntries
<1>3. FormKept
  BY DEF WorkInit, FormKept, FormSavesAccepted
<1>4. exports \in 0..MaxExports
  BY DEF WorkInit, WorkAssumption
<1> QED
  BY <1>1, <1>2, <1>3, <1>4 DEF WorkInv

LEMMA SamePages ==
  ASSUME Numbered, Followed, UNCHANGED <<documents, nextDoc, pages, annotations, stamps, meant>>
  PROVE  Numbered' /\ Followed'
<1>1. Numbered'
  BY DEF Numbered, Sourced, Content
<1>2. Followed'
  BY DEF Followed, AnnotsAt
<1> QED
  BY <1>1, <1>2

\* A document that is loaded or closed leaves the pages alone.
LEMMA DocumentsKeep ==
  ASSUME Numbered, Followed, UNCHANGED <<pages, annotations, stamps, meant>>,
         \/ \E d \in Sources : documents' = With(documents, nextDoc, d) /\ nextDoc' = nextDoc + 1
         \/ \E id \in DOMAIN documents : documents' = Without(documents, id) /\ nextDoc' = nextDoc
  PROVE  Numbered' /\ Followed'
<1>1. /\ nextDoc' \in Nat /\ nextDoc <= nextDoc' /\ nextDoc \in Nat
      /\ DOMAIN documents' \subseteq 0..(nextDoc' - 1)
      /\ \A id \in DOMAIN documents' : documents'[id] \in Sources
  <2>1. ASSUME NEW d \in Sources, documents' = With(documents, nextDoc, d), nextDoc' = nextDoc + 1
        PROVE  <1>1!:
    BY <2>1 DEF Numbered, With
  <2>2. ASSUME NEW id \in DOMAIN documents, documents' = Without(documents, id), nextDoc' = nextDoc
        PROVE  <1>1!:
    BY <2>2 DEF Numbered, Without
  <2> QED
    BY <2>1, <2>2
<1>2. \A i \in DOMAIN pages : pages[i].source < nextDoc' /\ pages[i].source # nextDoc
  <2>1. ASSUME NEW i \in DOMAIN pages PROVE pages[i].source < nextDoc' /\ pages[i].source # nextDoc
    <3> DEFINE P == [source : Nat, index : Nat, number : Nat]
    <3>1. pages \in Seq(P)
      BY DEF Numbered
    <3> HIDE DEF P
    <3>2. pages[i] \in P
      BY <3>1
    <3>3. pages[i].source \in Nat
      BY <3>2 DEF P
    <3>4. pages[i].source < nextDoc
      BY DEF Numbered
    <3> QED
      BY <1>1, <3>3, <3>4
  <2> QED
    BY <2>1
<1>5. ASSUME NEW i \in DOMAIN pages, pages[i].source \in DOMAIN documents'
      PROVE  pages[i].source \in DOMAIN documents /\ documents'[pages[i].source] = documents[pages[i].source]
  <2>1. pages[i].source # nextDoc
    BY <1>2
  <2>2. ASSUME NEW d, documents' = With(documents, nextDoc, d)
        PROVE  /\ pages[i].source \in DOMAIN documents
               /\ documents'[pages[i].source] = documents[pages[i].source]
    BY <1>5, <2>1, <2>2 DEF With
  <2>3. ASSUME NEW id, documents' = Without(documents, id)
        PROVE  /\ pages[i].source \in DOMAIN documents
               /\ documents'[pages[i].source] = documents[pages[i].source]
    BY <1>5, <2>3 DEF Without
  <2> QED
    BY <2>2, <2>3
<1>6. Sourced'
  BY <1>5 DEF Numbered, Sourced, Content
<1>3. Numbered'
  BY <1>1, <1>2, <1>6 DEF Numbered
<1>4. Followed'
  BY DEF Followed, AnnotsAt
<1> QED
  BY <1>3, <1>4

LEMMA NoPagesKeep ==
  ASSUME Numbered', pages' = <<>>, annotations' = NoEntries PROVE Followed'
  BY DEF Followed, NoEntries

\* Steps of the editor that leave the form session alone.
LEMMA SameForm ==
  ASSUME FormKept, UNCHANGED <<form, formOutput>>,
         writer' \in {writer, NoWriter, [kind |-> "export"]}
  PROVE  FormKept'
  BY DEF FormKept, FormSavesAccepted

\* The first update of a field is the one that is read back.
LEMMA FirstIsRead ==
  ASSUME NEW updates \in Seq(Update), NEW values, FirstTold(updates, values),
         NEW field \in Fields
  PROVE  ReadBack(updates, field) = values[field]
<1> DEFINE is == Settings(updates, field)
<1>1. CASE values[field] = Own /\ \A i \in DOMAIN updates : updates[i].field # field
  BY <1>1 DEF ReadBack, Settings
<1>2. CASE \E i \in DOMAIN updates :
             /\ updates[i] = [field |-> field, value |-> values[field]]
             /\ \A j \in DOMAIN updates : j < i => updates[j].field # field
  <2>1. PICK i \in DOMAIN updates :
          /\ updates[i] = [field |-> field, value |-> values[field]]
          /\ \A j \in DOMAIN updates : j < i => updates[j].field # field
    BY <1>2
  <2>2. DOMAIN updates \subseteq Nat
    OBVIOUS
  <2>3. i \in is /\ is \subseteq Nat /\ \A j \in is : i <= j
    BY <2>1, <2>2 DEF Settings
  <2> DEFINE first == CHOOSE k \in is : \A j \in is : k <= j
  <2>4. first \in is /\ \A j \in is : first <= j
    BY <2>3
  <2> HIDE DEF first
  <2>5. first = i
    BY <2>3, <2>4
  <2>6. ReadBack(updates, field) = updates[first].value
    BY <2>3 DEF ReadBack, first
  <2> QED
    BY <2>1, <2>5, <2>6
<1> QED
  BY <1>1, <1>2 DEF FirstTold

\* An update of a field that was told nothing is its first one.
LEMMA UpdateAppended ==
  ASSUME WorkAssumption, NEW updates \in Seq(Update),
         NEW values \in [Fields -> Values \union {Own}],
         FirstTold(updates, values), NEW field \in Fields, NEW value \in Values
  PROVE  FirstTold(Append(updates, [field |-> field, value |-> value]),
                   IF values[field] = Own THEN [values EXCEPT ![field] = value] ELSE values)
<1> DEFINE u == [field |-> field, value |-> value]
           after == Append(updates, u)
           told == IF values[field] = Own THEN [values EXCEPT ![field] = value] ELSE values
           n == Len(updates)
<1>1. /\ u \in Update /\ n \in Nat /\ DOMAIN updates = 1..n /\ DOMAIN after = 1..(n + 1)
      /\ after[n + 1] = u /\ \A i \in 1..n : after[i] = updates[i]
  BY DEF Update
<1>2. value # Own
  BY DEF WorkAssumption
<1> SUFFICES ASSUME NEW g \in Fields
             PROVE  \/ told[g] = Own /\ \A i \in DOMAIN after : after[i].field # g
                    \/ /\ told[g] # Own
                       /\ \E i \in DOMAIN after :
                            /\ after[i] = [field |-> g, value |-> told[g]]
                            /\ \A j \in DOMAIN after : j < i => after[j].field # g
  BY DEF FirstTold
<1>3. CASE values[g] = Own /\ \A i \in DOMAIN updates : updates[i].field # g
  <2>1. CASE g = field
    <3>1. told[g] = value
      BY <1>3, <2>1
    <3>2. after[n + 1] = [field |-> g, value |-> told[g]]
      BY <1>1, <2>1, <3>1
    <3>3. \A j \in DOMAIN after : j < n + 1 => after[j].field # g
      BY <1>1, <1>3
    <3> QED
      BY <1>1, <1>2, <3>1, <3>2, <3>3
  <2>2. CASE g # field
    <3>1. told[g] = Own
      BY <1>3, <2>2
    <3>2. \A i \in 1..(n + 1) : after[i].field # g
      BY <1>1, <1>3, <2>2
    <3> QED
      BY <1>1, <3>1, <3>2
  <2> QED
    BY <2>1, <2>2
<1>4. CASE /\ values[g] # Own
           /\ \E i \in DOMAIN updates :
                /\ updates[i] = [field |-> g, value |-> values[g]]
                /\ \A j \in DOMAIN updates : j < i => updates[j].field # g
  <2>1. PICK i \in DOMAIN updates :
          /\ updates[i] = [field |-> g, value |-> values[g]]
          /\ \A j \in DOMAIN updates : j < i => updates[j].field # g
    BY <1>4
  <2>2. told[g] = values[g]
    BY <1>4
  <2>3. i \in 1..n /\ after[i] = [field |-> g, value |-> told[g]]
    BY <1>1, <2>1, <2>2
  <2>4. \A j \in DOMAIN after : j < i => after[j].field # g
    BY <1>1, <2>1, <2>3
  <2> QED
    BY <1>1, <1>4, <2>2, <2>3, <2>4
<1> QED
  BY <1>3, <1>4 DEF FirstTold

\* nanopdf_form_load, the setters and nanopdf_form_save
LEMMA FormStepKeeps ==
  ASSUME WorkAssumption, FormKept,
         \/ \E d \in Sources, sound \in BOOLEAN : FormLoad(d, sound)
         \/ \E field \in Fields, value \in Values : FormSet(field, value)
         \/ FormSave
  PROVE  FormKept'
<1>1. ASSUME NEW d \in Sources, NEW sound \in BOOLEAN, FormLoad(d, sound) PROVE FormKept'
  <2>1. FormSavesAccepted'
    BY <1>1 DEF FormLoad, FormKept, FormSavesAccepted
  <2>2. CASE sound
    <3>1. writer' = [kind |-> "form", of |-> d, updates |-> <<>>] /\ form' = Untouched(d)
      BY <1>1, <2>2 DEF FormLoad
    <3>2. InSession(writer', form')
      BY <3>1 DEF InSession, Untouched, FirstTold
    <3> QED
      BY <2>1, <3>2 DEF FormKept
  <2>3. CASE ~sound
    BY <1>1, <2>1, <2>3 DEF FormLoad, FormKept
  <2> QED
    BY <2>2, <2>3
<1>2. ASSUME NEW field \in Fields, NEW value \in Values, FormSet(field, value) PROVE FormKept'
  <2> DEFINE u == [field |-> field, value |-> value]
             values == form.values
             told == IF values[field] = Own THEN [values EXCEPT ![field] = value] ELSE values
  <2>1. InSession(writer, form)
    BY <1>2 DEF FormKept, FormSet, NoWriter
  <2>2. /\ writer' = [kind |-> "form", of |-> form.of, updates |-> Append(writer.updates, u)]
        /\ form' = [of |-> form.of, values |-> told]
    <3>1. /\ writer = [kind |-> "form", of |-> form.of, updates |-> writer.updates]
          /\ form = [of |-> form.of, values |-> values]
      BY <2>1 DEF InSession
    <3>2. /\ writer' = [writer EXCEPT !.updates = Append(writer.updates, u)]
          /\ form' = IF values[field] = Own
                     THEN [form EXCEPT !.values = [values EXCEPT ![field] = value]] ELSE form
      BY <1>2 DEF FormSet
    <3> HIDE DEF u
    <3>3. writer' = [kind |-> "form", of |-> form.of, updates |-> Append(writer.updates, u)]
      <4>1. ASSUME NEW d, NEW us, NEW with, writer = [kind |-> "form", of |-> d, updates |-> us]
            PROVE  [writer EXCEPT !.updates = with] = [kind |-> "form", of |-> d, updates |-> with]
        BY <4>1
      <4> QED
        BY <3>1, <3>2, <4>1
    <3>4. form' = [of |-> form.of, values |-> told]
      <4>1. CASE values[field] = Own
        BY <3>1, <3>2, <4>1
      <4>2. CASE values[field] # Own
        BY <3>1, <3>2, <4>2
      <4> QED
        BY <4>1, <4>2
    <3> QED
      BY <3>3, <3>4
  <2>3. FirstTold(Append(writer.updates, u), told)
    BY <2>1, UpdateAppended DEF InSession
  <2>4. Append(writer.updates, u) \in Seq(Update) /\ told \in [Fields -> Values \union {Own}]
    BY <2>1 DEF InSession, Update
  <2> HIDE DEF u, told
  <2>5. InSession(writer', form')
    BY <2>2, <2>3, <2>4 DEF InSession
  <2>6. FormSavesAccepted'
    BY <1>2 DEF FormSet, FormKept, FormSavesAccepted
  <2> QED
    BY <2>5, <2>6 DEF FormKept
<1>3. CASE FormSave
  <2>1. writer' = writer /\ form' = form
    BY <1>3 DEF FormSave
  <2>2. FormSavesAccepted'
    <3>1. CASE writer.kind = "form"
      <4>1. InSession(writer, form)
        BY <1>3, <3>1 DEF FormKept, FormSave, NoWriter
      <4>2. formOutput' = [of |-> writer.of, updates |-> writer.updates, told |-> form]
        BY <1>3, <3>1 DEF FormSave
      <4>3. writer.of = form.of
        BY <4>1 DEF InSession
      <4>4. \A field \in Fields : ReadBack(writer.updates, field) = form.values[field]
        BY <4>1, FirstIsRead DEF InSession
      <4> QED
        BY <4>2, <4>3, <4>4 DEF FormSavesAccepted
    <3>2. CASE writer.kind # "form"
      BY <1>3, <3>2 DEF FormSave, FormSavesAccepted
    <3> QED
      BY <3>1, <3>2
  <2> QED
    BY <2>1, <2>2 DEF FormKept
<1> QED
  BY <1>1, <1>2, <1>3

\* One step per function of the editor.
LEMMA WorkStepKeeps ==
  ASSUME WorkAssumption, WorkInv, WorkNext
  PROVE  WorkInv'
<1> USE DEF WorkInv
<1>1. ASSUME NEW d \in Sources, DocLoad(d) PROVE WorkInv'
  <2>1. Numbered' /\ Followed'
    BY <1>1, DocumentsKeep DEF DocLoad
  <2>2. FormKept'
    BY <1>1, SameForm DEF DocLoad
  <2> QED
    BY <1>1, <2>1, <2>2 DEF DocLoad
<1>2. ASSUME NEW id \in DOMAIN documents, DocClose(id) PROVE WorkInv'
  <2>1. Numbered' /\ Followed'
    BY <1>2, DocumentsKeep DEF DocClose
  <2>2. FormKept'
    BY <1>2, SameForm DEF DocClose
  <2> QED
    BY <1>2, <2>1, <2>2 DEF DocClose
<1>3. ASSUME NEW id \in DOMAIN documents, NEW p \in 1..SourcePages[documents[id]], WorkAddPage(id, p)
      PROVE  WorkInv'
  <2>1. FormKept'
    BY <1>3, SameForm DEF WorkAddPage
  <2> QED
    BY <1>3, <2>1, AddPageKeeps DEF WorkAddPage
<1>4. ASSUME NEW id \in DOMAIN documents, WorkAddAllPages(id) PROVE WorkInv'
  <2>1. FormKept'
    BY <1>4, SameForm DEF WorkAddAllPages
  <2> QED
    BY <1>4, <2>1, AddAllPagesKeeps DEF WorkAddAllPages
<1>5. ASSUME NEW i \in DOMAIN pages, WorkRemovePage(i) PROVE WorkInv'
  <2>1. FormKept'
    BY <1>5, SameForm DEF WorkRemovePage
  <2> QED
    BY <1>5, <2>1, RemovePageKeeps DEF WorkRemovePage
<1>6. ASSUME NEW i \in DOMAIN pages, NEW to \in DOMAIN pages, WorkMovePage(i, to) PROVE WorkInv'
  <2>1. FormKept'
    BY <1>6, SameForm DEF WorkMovePage
  <2> QED
    BY <1>6, <2>1, MovePageKeeps DEF WorkMovePage
<1>7. ASSUME NEW i \in DOMAIN pages, NEW annot, NEW shows, AddAnnot(i, annot, shows),
             shows \in Asked, Marks(annot, stamps), Shown(annot, stamps) = shows
      PROVE  WorkInv'
  <2>1. FormKept'
    BY <1>7, SameForm DEF AddAnnot
  <2>2. Numbered' /\ Followed'
    BY <1>7, AddAnnotKeeps
  <2> QED
    BY <1>7, <2>1, <2>2 DEF AddAnnot
<1>8. ASSUME NEW i \in DOMAIN pages, NEW note \in Notes, AnnotAddNote(i, note) PROVE WorkInv'
  <2> DEFINE annot == [stamp |-> 0, note |-> note]
  <2>1. note \in Asked /\ Marks(annot, stamps) /\ Shown(annot, stamps) = note
    BY DEF Asked, Marks, Shown
  <2>2. AddAnnot(i, annot, note)
    BY <1>8 DEF AnnotAddNote
  <2> QED
    BY <1>7, <2>1, <2>2
<1>9. ASSUME NEW i \in DOMAIN pages, NEW id \in DOMAIN stamps, AnnotAddImage(i, id) PROVE WorkInv'
  <2> DEFINE annot == [stamp |-> id, name |-> 0]
  <2>1. stamps \in Seq(Images) /\ stamps[id] \in Asked /\ id # 0
    BY DEF Numbered, Asked
  <2>2. Marks(annot, stamps) /\ Shown(annot, stamps) = stamps[id]
    BY <2>1 DEF Marks, Shown
  <2>3. AddAnnot(i, annot, stamps[id])
    BY <1>9 DEF AnnotAddImage
  <2> QED
    BY <1>7, <2>1, <2>2, <2>3
<1>10. ASSUME NEW i \in DOMAIN pages, NEW k \in DOMAIN AnnotsAt(i), AnnotRemove(i, k) PROVE WorkInv'
  <2>1. FormKept'
    BY <1>10, SameForm DEF AnnotRemove
  <2> QED
    BY <1>10, <2>1, AnnotRemoveKeeps DEF AnnotRemove
<1>11. ASSUME NEW i \in DOMAIN pages, AnnotClearPage(i) PROVE WorkInv'
  <2>1. FormKept'
    BY <1>11, SameForm DEF AnnotClearPage
  <2> QED
    BY <1>11, <2>1, AnnotClearKeeps DEF AnnotClearPage
<1>12. CASE WorkClear
  <2>1. FormKept'
    BY <1>12, SameForm DEF WorkClear
  <2>2. Numbered'
    BY <1>12 DEF WorkClear, Numbered, Sourced, Content
  <2> QED
    BY <1>12, <2>1, <2>2, NoPagesKeep DEF WorkClear
<1>13. ASSUME NEW image \in Images, RegisterStamp(image) PROVE WorkInv'
  <2>1. FormKept'
    BY <1>13, SameForm DEF RegisterStamp
  <2> QED
    BY <1>13, <2>1, RegisterKeeps DEF RegisterStamp
<1>14. ASSUME NEW failing \in SUBSET DOMAIN pages, ExportPdf(failing) PROVE WorkInv'
  <2>1. FormKept'
    BY <1>14, SameForm DEF ExportPdf
  <2>2. exports' \in 0..MaxExports
    BY <1>14 DEF ExportPdf, WorkAssumption
  <2> QED
    BY <1>14, <2>1, <2>2, ExportKeeps
<1>15. CASE \/ \E d \in Sources, sound \in BOOLEAN : FormLoad(d, sound)
            \/ \E field \in Fields, value \in Values : FormSet(field, value)
            \/ FormSave
  <2>1. UNCHANGED workRest
    BY <1>15 DEF FormLoad, FormSet, FormSave
  <2>2. UNCHANGED <<documents, nextDoc, pages, annotations, stamps, meant, exports>>
    BY <2>1 DEF workRest
  <2>3. FormKept'
    BY <1>15, FormStepKeeps
  <2> QED
    BY <2>2, <2>3, SamePages
<1> HIDE DEF WorkInv
<1> QED
  BY <1>1, <1>2, <1>3, <1>4, <1>5, <1>6, <1>8, <1>9, <1>10, <1>11, <1>12, <1>13, <1>14, <1>15
     DEF WorkNext

LEMMA WorkShutdownKeeps ==
  ASSUME WorkInv, WorkShutdown
  PROVE  WorkInv'
<1>1. FormKept'
  BY SameForm DEF WorkInv, WorkShutdown
<1>2. Numbered'
  BY DEF WorkInv, WorkShutdown, Numbered, Sourced, Content, NoEntries
<1>3. Followed'
  BY <1>2, NoPagesKeep DEF WorkShutdown
<1> QED
  BY <1>1, <1>2, <1>3 DEF WorkInv, WorkShutdown

LEMMA WorkInvStep ==
  ASSUME WorkAssumption, WorkInv, [Next]_vars
  PROVE  WorkInv'
<1>1. CASE UNCHANGED workVars
  <2>1. UNCHANGED <<documents, nextDoc, pages, annotations, stamps, writer, form, formOutput,
                    meant, exports>>
    BY <1>1 DEF workVars
  <2>2. FormKept'
    BY <2>1, SameForm DEF WorkInv
  <2> QED
    BY <2>1, <2>2, SamePages DEF WorkInv
<1>2. CASE WorkNext
  BY <1>2, WorkStepKeeps
<1>3. CASE WorkShutdown
  BY <1>3, WorkShutdownKeeps
<1> QED
  BY <1>1, <1>2, <1>3 DEF Next, ViewStep, WorkStep, SignStep, Shutdown, vars

\* The invariant is one of the module as a whole.
LEMMA WorkInvHolds == Spec => []WorkInv
<1>1. Init => WorkInv
  BY WorkInvInit, WorkAssumption DEF Init
<1>2. WorkInv /\ [Next]_vars => WorkInv'
  BY WorkInvStep, WorkAssumption
<1> QED
  BY <1>1, <1>2, PTL DEF Spec

\* The annotations of a page follow it through every order of additions, removals and
\* moves: the re-indexing of nanopdf_work_move_page and nanopdf_work_remove_page is right
\* for any number of pages.
THEOREM AnnotationsFollow == Spec => []AnnotationsFollowPages
<1>1. WorkInv => AnnotationsFollowPages
  <2>1. ASSUME WorkInv, NEW i \in DOMAIN pages
        PROVE  LET asked == meant[pages[i].number].annots
               IN /\ Len(AnnotsAt(i)) = Len(asked)
                  /\ \A k \in DOMAIN asked : Shows(AnnotsAt(i)[k]) = asked[k]
    <3> DEFINE asked == MeantAt(i)
    <3>1. asked \in Seq(Asked) /\ Stands(AnnotsAt(i), asked, stamps)
      BY <2>1, MeantIs DEF WorkInv, Followed, MeantAt
    <3> HIDE DEF asked
    <3>2. Len(AnnotsAt(i)) = Len(asked)
      BY <3>1, StandsIsSeq
    <3>4. DOMAIN asked = 1..Len(asked)
      BY <3>1
    <3>3. \A k \in DOMAIN asked : Shows(AnnotsAt(i)[k]) = asked[k]
      BY <3>1, <3>4 DEF Stands, Shown, Shows
    <3> QED
      BY <3>2, <3>3 DEF asked, MeantAt
  <2> QED
    BY <2>1 DEF WorkInv, Followed, AnnotationsFollowPages
<1> QED
  BY <1>1, WorkInvHolds, PTL

\* A form that is saved is the one that was loaded last, with the values accepted since,
\* although nanopdf_export_pdf deletes and replaces the writer.
THEOREM FormsSave == Spec => []FormSavesAccepted
<1>1. WorkInv => FormSavesAccepted
  BY DEF WorkInv, FormKept
<1> QED
  BY <1>1, WorkInvHolds, PTL

\* The globals of the module keep their types, and nothing kept is of a deleted document.
THEOREM ApiIsSound == Spec => []ApiSound
<1>1. WorkInv => WorkTypeOK
  <2>1. ASSUME WorkInv, NEW i \in DOMAIN annotations, NEW k \in DOMAIN annotations[i]
        PROVE  annotations[i][k].stamp \in {0} \union DOMAIN stamps
    BY <2>1 DEF WorkInv, Followed, AnnotsAt, Stands, Marks
  <2>2. WorkInv => /\ \A id \in DOMAIN documents : id < nextDoc /\ documents[id] \in Sources
                   /\ \A i \in DOMAIN pages : /\ pages[i].number \in DOMAIN meant
                                              /\ pages[i].source < nextDoc
    BY DEF WorkInv, Numbered
  <2>3. WorkInv => writer.kind \in {"none", "form", "export"} /\ exports \in 0..MaxExports
    <3>1. InSession(writer, form) => writer.kind = "form"
      BY DEF InSession
    <3>2. NoWriter.kind = "none" /\ [kind |-> "export"].kind = "export"
      BY DEF NoWriter
    <3>3. WorkInv => writer = NoWriter \/ writer = [kind |-> "export"] \/ InSession(writer, form)
      BY DEF WorkInv, FormKept
    <3>4. WorkInv => exports \in 0..MaxExports
      BY DEF WorkInv
    <3> QED
      BY <3>1, <3>2, <3>3, <3>4
  <2> QED
    BY <2>1, <2>2, <2>3 DEF WorkTypeOK
<1> QED
  BY <1>1, WorkInvHolds, ViewTypes, SignTypes, ViewKeepsOpen, PTL DEF ApiSound

---------------------------------------------------------------------------
(* The images of an export.  They are numbered in the order in which they  *)
(* are added; that two of them never have one number is what makes a name  *)
(* lead to its own image.                                                  *)

LEMMA AnnotsAre ==
  ASSUME Numbered, Followed, NEW i \in DOMAIN pages
  PROVE  \E n \in Nat : DOMAIN AnnotsAt(i) = 1..n
<1> DEFINE asked == MeantAt(i)
<1>1. asked \in Seq(Asked) /\ Stands(AnnotsAt(i), asked, stamps)
  BY MeantIs DEF Followed, MeantAt
<1> HIDE DEF asked
<1>2. Len(asked) \in Nat /\ DOMAIN AnnotsAt(i) = 1..Len(asked)
  BY <1>1 DEF Stands
<1> QED
  BY <1>2

LEMMA PagesCount ==
  ASSUME Numbered, NEW i \in DOMAIN pages
  PROVE  i \in Nat /\ i # 0
<1>1. PICK n \in Nat : DOMAIN pages = 1..n
  BY DEF Numbered
<1> QED
  BY <1>1

LEMMA EmbeddedAre ==
  ASSUME Numbered, Followed, NEW failing
  PROVE  Embedded(failing) \subseteq Nat \X Nat /\ IsFiniteSet(Embedded(failing))
<1> DEFINE rows == {Unnamed(i) : i \in DOMAIN pages}
<1>1. PICK n \in Nat : DOMAIN pages = 1..n
  BY DEF Numbered
<1>2. IsFiniteSet(DOMAIN pages)
  BY <1>1, FS_Interval
<1>3. Drawn(failing) \subseteq {0} \X DOMAIN pages
  BY DEF Drawn
<1>4. IsFiniteSet(Drawn(failing)) /\ Drawn(failing) \subseteq Nat \X Nat
  <2>1. IsFiniteSet({0})
    BY FS_Singleton
  <2>2. IsFiniteSet({0} \X DOMAIN pages)
    BY <1>2, <2>1, FS_Product
  <2>3. IsFiniteSet(Drawn(failing))
    BY <1>3, <2>2, FS_Subset
  <2>4. {0} \X DOMAIN pages \subseteq Nat \X Nat
    BY <1>1
  <2> QED
    BY <1>3, <2>3, <2>4
<1>5. ASSUME NEW i \in DOMAIN pages
      PROVE  IsFiniteSet(Unnamed(i)) /\ Unnamed(i) \subseteq Nat \X Nat
  <2>1. PICK k \in Nat : DOMAIN AnnotsAt(i) = 1..k
    BY <1>5, AnnotsAre
  <2>2. Unnamed(i) \subseteq {i} \X (1..k)
    BY <2>1 DEF Unnamed
  <2>3. IsFiniteSet({i}) /\ IsFiniteSet(1..k)
    <3>1. IsFiniteSet({i})
      BY FS_Singleton
    <3>2. IsFiniteSet(1..k)
      BY FS_Interval
    <3> QED
      BY <3>1, <3>2
  <2>4. IsFiniteSet({i} \X (1..k))
    BY <2>3, FS_Product
  <2>5. {i} \X (1..k) \subseteq Nat \X Nat
    BY <1>1
  <2>6. IsFiniteSet(Unnamed(i))
    BY <2>2, <2>4, FS_Subset
  <2> QED
    BY <2>2, <2>5, <2>6
<1>6. IsFiniteSet(rows)
  <2> DEFINE f == [i \in DOMAIN pages |-> Unnamed(i)]
  <2>1. f \in Surjection(DOMAIN pages, rows)
    BY DEF Surjection
  <2> QED
    BY <1>2, <2>1, FS_Surjection
<1>7. \A T \in rows : IsFiniteSet(T) /\ T \subseteq Nat \X Nat
  BY <1>5
<1> HIDE DEF rows
<1>8. IsFiniteSet(UNION rows) /\ UNION rows \subseteq Nat \X Nat
  BY <1>6, <1>7, FS_UNION
<1>9. Embedded(failing) = Drawn(failing) \union UNION rows
  BY DEF Embedded, rows
<1> QED
  BY <1>4, <1>8, <1>9, FS_Union

LEMMA SoonerOrders ==
  ASSUME NEW x \in Nat \X Nat, NEW y \in Nat \X Nat
  PROVE  /\ x = y \/ Sooner(x, y) \/ Sooner(y, x)
         /\ ~Sooner(x, x) /\ ~(Sooner(x, y) /\ Sooner(y, x))
         /\ \A z \in Nat \X Nat : Sooner(z, x) /\ Sooner(x, y) => Sooner(z, y)
<1>1. x = <<x[1], x[2]>> /\ y = <<y[1], y[2]>> /\ x[1] \in Nat /\ x[2] \in Nat
      /\ y[1] \in Nat /\ y[2] \in Nat
  OBVIOUS
<1>2. \A z \in Nat \X Nat : z[1] \in Nat /\ z[2] \in Nat
  OBVIOUS
<1>3. x[1] = y[1] /\ x[2] = y[2] => x = y
  BY <1>1
<1> QED
  BY <1>1, <1>2, <1>3 DEF Sooner

LEMMA NumbersDiffer ==
  ASSUME Numbered, Followed, NEW failing, NEW x \in Embedded(failing), NEW y \in Embedded(failing),
         Number(failing, x) = Number(failing, y)
  PROVE  x = y
<1> DEFINE E == Embedded(failing)
           Upto(z) == {w \in E : w = z \/ Sooner(w, z)}
<1>1. E \subseteq Nat \X Nat /\ IsFiniteSet(E)
  BY EmbeddedAre
<1>2. Cardinality(Upto(x)) = Cardinality(Upto(y))
  BY DEF Number
<1>3. ASSUME NEW a \in E, NEW b \in E, Sooner(a, b), Cardinality(Upto(a)) = Cardinality(Upto(b))
      PROVE  FALSE
  <2>1. \A w \in E : Sooner(w, a) => Sooner(w, b)
    BY <1>1, <1>3, SoonerOrders
  <2>2. Upto(a) \subseteq Upto(b) /\ b \in Upto(b)
    BY <1>3, <2>1
  <2>3. b # a /\ ~Sooner(b, a)
    BY <1>1, <1>3, SoonerOrders
  <2>4. b \notin Upto(a)
    BY <2>3
  <2>5. IsFiniteSet(Upto(b))
    <3>1. Upto(b) \subseteq E
      OBVIOUS
    <3> HIDE DEF E, Upto
    <3> QED
      BY <1>1, <3>1, FS_Subset
  <2> HIDE DEF Upto
  <2>6. Upto(a) \in SUBSET Upto(b)
    BY <2>2
  <2>7. Upto(b) = Upto(a)
    BY <1>3, <2>5, <2>6, FS_Subset
  <2> QED
    BY <2>2, <2>4, <2>7
<1>4. x = y \/ Sooner(x, y) \/ Sooner(y, x)
  BY <1>1, SoonerOrders
<1> HIDE DEF Upto
<1> QED
  BY <1>2, <1>3, <1>4

\* The name of an image leads to that image.
ImageAt(x) == IF x[1] = 0 THEN Content(pages[x[2]]) ELSE stamps[AnnotsAt(x[1])[x[2]].stamp]

LEMMA NamesLead ==
  ASSUME Numbered, Followed, NEW failing, NEW x \in Embedded(failing)
  PROVE  /\ Number(failing, x) \in DOMAIN Resources(failing)
         /\ Resources(failing)[Number(failing, x)] = ImageAt(x)
<1> DEFINE E == Embedded(failing)
           n == Number(failing, x)
           c == CHOOSE y \in E : Number(failing, y) = n
<1>1. c \in E /\ Number(failing, c) = n
  OBVIOUS
<1>2. c = x
  BY <1>1, NumbersDiffer
<1>3. n \in {Number(failing, y) : y \in E}
  OBVIOUS
<1>4. Resources(failing)[n] = ImageAt(c)
  BY <1>3 DEF Resources, ImageAt
<1> QED
  BY <1>2, <1>3, <1>4 DEF Resources

LEMMA PageShows ==
  ASSUME Numbered, Followed, NEW failing, NEW i \in DOMAIN pages
  PROVE  PageShown(failing, i).picture =
           IF i \in failing \/ pages[i].source \notin DOMAIN documents
           THEN "placeholder" ELSE meant[pages[i].number].of
<1>1. i \in Nat /\ i # 0
  BY PagesCount
<1>2. <<0, i>> \in Embedded(failing) <=> i \notin failing /\ pages[i].source \in DOMAIN documents
  <2>1. <<0, i>> \in Drawn(failing) <=> i \notin failing /\ pages[i].source \in DOMAIN documents
    BY DEF Drawn
  <2>2. \A j \in DOMAIN pages : <<0, i>> \notin Unnamed(j)
    <3>1. \A j \in DOMAIN pages : j # 0
      BY DEF Numbered
    <3> QED
      BY <3>1 DEF Unnamed
  <2> QED
    BY <2>1, <2>2 DEF Embedded
<1>3. PageShown(failing, i).picture =
        IF <<0, i>> \in Embedded(failing) THEN Resources(failing)[Number(failing, <<0, i>>)]
        ELSE "placeholder"
  BY DEF PageShown
<1>4. CASE <<0, i>> \in Embedded(failing)
  <2>1. Resources(failing)[Number(failing, <<0, i>>)] = Content(pages[i])
    BY <1>4, NamesLead DEF ImageAt
  <2>2. meant[pages[i].number].of = Content(pages[i])
    BY <1>2, <1>4 DEF Numbered, Sourced
  <2> QED
    BY <1>2, <1>3, <1>4, <2>1, <2>2
<1>5. CASE <<0, i>> \notin Embedded(failing)
  BY <1>2, <1>3, <1>5
<1> QED
  BY <1>4, <1>5

LEMMA AnnotShows ==
  ASSUME Numbered, Followed, NEW failing, NEW i \in DOMAIN pages,
         NEW k \in DOMAIN PageShown(failing, i).annots, ~Unchanged(i, k)
  PROVE  PageShown(failing, i).annots[k] = meant[pages[i].number].annots[k]
<1> DEFINE asked == MeantAt(i)
           seq == Named(failing)[i]
           images == Resources(failing)
           a == AnnotsAt(i)[k]
<1>1. i \in DOMAIN annotations
  BY DEF PageShown
<1>2. PageShown(failing, i).annots =
        [j \in DOMAIN seq |-> IF seq[j].stamp = 0 THEN seq[j].note
           ELSE IF seq[j].name \in DOMAIN images THEN images[seq[j].name] ELSE "nothing"]
  BY <1>1 DEF PageShown
<1>3. /\ AnnotsAt(i) = annotations[i]
      /\ seq = [j \in DOMAIN AnnotsAt(i) |->
                  IF <<i, j>> \in Embedded(failing)
                  THEN [AnnotsAt(i)[j] EXCEPT !.name = Number(failing, <<i, j>>)]
                  ELSE AnnotsAt(i)[j]]
  BY <1>1 DEF Named, AnnotsAt
<1>4. k \in DOMAIN AnnotsAt(i)
  BY <1>2, <1>3
<1>5. Stands(AnnotsAt(i), asked, stamps)
  BY DEF Followed, MeantAt
<1>6. k \in 1..Len(asked)
  <2> HIDE DEF asked
  <2> QED
    BY <1>4, <1>5 DEF Stands
<1>7. Marks(a, stamps) /\ Shown(a, stamps) = asked[k]
  BY <1>5, <1>6 DEF Stands
<1>8. PageShown(failing, i).annots[k] =
        IF seq[k].stamp = 0 THEN seq[k].note
        ELSE IF seq[k].name \in DOMAIN images THEN images[seq[k].name] ELSE "nothing"
  BY <1>2, <1>3, <1>4
<1>9. seq[k] = IF <<i, k>> \in Embedded(failing) THEN [a EXCEPT !.name = Number(failing, <<i, k>>)] ELSE a
  BY <1>3, <1>4
<1>10. i # 0 /\ i \in Nat
  BY PagesCount
<1>11. <<i, k>> \in Embedded(failing) <=> a.stamp # 0 /\ a.name = 0
  <2>1. <<i, k>> \notin Drawn(failing)
    BY <1>10 DEF Drawn
  <2>2. <<i, k>> \in Unnamed(i) <=> a.stamp # 0 /\ a.name = 0
    BY <1>4 DEF Unnamed
  <2>3. \A j \in DOMAIN pages : <<i, k>> \in Unnamed(j) => j = i
    BY DEF Unnamed
  <2> HIDE DEF a
  <2> QED
    BY <2>1, <2>2, <2>3 DEF Embedded
<1>12. a.stamp = 0 \/ a.name = 0
  BY DEF Unchanged
<1> HIDE DEF a, seq, images, asked
<1>13. CASE a.stamp = 0
  <2>1. seq[k] = a
    BY <1>9, <1>11, <1>13
  <2>2. asked[k] = a.note
    BY <1>7, <1>13 DEF Shown
  <2> QED
    BY <1>8, <1>13, <2>1, <2>2 DEF asked, MeantAt
<1>14. CASE a.stamp # 0
  <2>1. <<i, k>> \in Embedded(failing)
    BY <1>11, <1>12, <1>14
  <2>2. seq[k].stamp = a.stamp /\ seq[k].name = Number(failing, <<i, k>>)
    BY <1>7, <1>9, <1>14, <2>1 DEF Marks
  <2>3. /\ Number(failing, <<i, k>>) \in DOMAIN images
        /\ images[Number(failing, <<i, k>>)] = stamps[a.stamp]
    BY <1>10, <2>1, NamesLead DEF ImageAt, images, a
  <2>4. asked[k] = stamps[a.stamp]
    BY <1>7, <1>14 DEF Shown
  <2> QED
    BY <1>8, <1>14, <2>2, <2>3, <2>4 DEF asked, MeantAt
<1> QED
  BY <1>13, <1>14

\* Whatever is loaded, closed, moved, annotated and exported before, each page of an export
\* shows the page it was made from and its annotations, but for placeholders and for stamps
\* that an earlier export has named: the numbers that nanopdf_export_pdf puts in the names of
\* images lead to the right ones, and ids are never those of another document.
THEOREM ExportsShowMeant == Spec => []ExportShowsMeant
<1>1. WorkInv => ExportShowsMeant
  BY PageShows, AnnotShows DEF WorkInv, ExportShowsMeant
<1> QED
  BY <1>1, WorkInvHolds, PTL
=============================================================================
