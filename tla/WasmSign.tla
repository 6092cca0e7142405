------------------------------ MODULE WasmSign ------------------------------
(***************************************************************************)
(* Signing in the browser: doSign of examples/wasm/src/main.js over the    *)
(* nanopdf_sign_ functions of src/wasm-api.cc.  A signature with a         *)
(* timestamp takes two calls, sign_prepare and sign_finalize, with a       *)
(* request to the timestamp authority between them; in that time the       *)
(* browser does other things, of which the user may open another document  *)
(* or sign again.                                                          *)
(*                                                                         *)
(* A flow is one run of doSign.  A signature is named by the flow that     *)
(* prepared it; a token says which signature it is over.                   *)
(***************************************************************************)
EXTENDS Naturals, FiniteSets

CONSTANTS
  Opened,       \* documents that the user opens
  Flows         \* runs of doSign

ASSUME FlowsAssumption == 0 \notin Flows

VARIABLES
  current,      \* currentPdfBytes
  bundle,       \* signP12Bytes: a certificate was chosen
  flow,         \* where each flow is, and the document it copied
  gSession,     \* g_sign_session
  gSigned,      \* g_sign_output
  files,        \* files that were downloaded
  disturbed     \* flows during which another one began or a document was opened

signVars == <<current, bundle, flow, gSession, gSigned, files, disturbed>>

NoFile == [doc |-> "none"]
Ended == [step |-> "ended"]

\* A file: the document that was signed, the signature and what its token is over.
Signed(doc, signature, token) == [doc |-> doc, signature |-> signature, token |-> token]
NoToken == 0

\* Bytes of one document with the length of another.
Mangled == "mangled"

SignInit ==
  /\ current \in Opened /\ bundle = FALSE
  /\ flow = [f \in Flows |-> [step |-> "new"]]
  /\ gSession = [active |-> FALSE] /\ gSigned = NoFile
  /\ files = {} /\ disturbed = {}

Waiting == {f \in Flows : flow[f].step = "waiting"}

---------------------------------------------------------------------------
\* loadPDF
OpenDocument(d) ==
  /\ d # current /\ current' = d
  /\ disturbed' = disturbed \union Waiting
  /\ UNCHANGED <<bundle, flow, gSession, gSigned, files>>

\* The choice of a file, or of none.
ChooseBundle ==
  /\ ~bundle /\ bundle' = TRUE
  /\ UNCHANGED <<current, flow, gSession, gSigned, files, disturbed>>

\* openSign and closeSign forget it.
ClearBundle ==
  /\ bundle /\ bundle' = FALSE
  /\ UNCHANGED <<current, flow, gSession, gSigned, files, disturbed>>

\* The end of a flow, which forgets the certificate whoever uses it.
EndFlow(f) == flow' = [flow EXCEPT ![f] = Ended] /\ bundle' = FALSE

\* finishSign, which names the file after the document that is open.
Download(f, output) == files' = files \union {[flow |-> f, named |-> current, file |-> output]}

---------------------------------------------------------------------------
(* The functions of wasm-api.cc. *)

\* nanopdf_sign_pdf: it drops the session whether it succeeds or not.
SignPdf(f, doc, ok) ==
  /\ gSession' = [active |-> FALSE]
  /\ gSigned' = IF ok THEN Signed(doc, f, NoToken) ELSE NoFile

\* nanopdf_sign_prepare: the session is the last one that was prepared.
SignPrepare_First(f, doc, ok) ==    \* mutant: or the one there is
  /\ gSigned' = NoFile
  /\ gSession' = IF gSession.active THEN gSession
                 ELSE IF ok THEN [active |-> TRUE, doc |-> doc, signature |-> f]
                 ELSE [active |-> FALSE]

SignPrepare(f, doc, ok) ==
  /\ gSigned' = NoFile
  /\ gSession' = IF ok THEN [active |-> TRUE, doc |-> doc, signature |-> f] ELSE [active |-> FALSE]

\* nanopdf_sign_finalize: the token goes into whatever was prepared last, once.
SignFinalize_Again(token, ok) ==    \* mutant: the session stays
  /\ gSession' = gSession
  /\ gSigned' = IF gSession.active /\ ok THEN Signed(gSession.doc, gSession.signature, token)
                ELSE NoFile

SignFinalize(token, ok) ==
  /\ gSession' = [active |-> FALSE]
  /\ gSigned' = IF gSession.active /\ ok THEN Signed(gSession.doc, gSession.signature, token)
                ELSE NoFile

---------------------------------------------------------------------------
(* doSign. *)

\* Its first part, up to the request or, without a timestamp, to the end.  A password
\* that is wrong fails it.
DoSign(f, timestamp, ok) ==
  /\ flow[f].step = "new" /\ bundle
  /\ disturbed' = disturbed \union Waiting \union (IF Waiting = {} THEN {} ELSE {f})
  /\ \/ /\ timestamp /\ ok
        /\ SignPrepare(f, current, TRUE)
        /\ flow' = [flow EXCEPT ![f] = [step |-> "waiting", doc |-> current]]
        /\ UNCHANGED <<bundle, files>>
     \/ /\ timestamp /\ ~ok
        /\ SignPrepare(f, current, FALSE) /\ EndFlow(f) /\ UNCHANGED files
     \/ /\ ~timestamp /\ SignPdf(f, current, ok) /\ EndFlow(f)
        /\ IF ok THEN Download(f, gSigned') ELSE UNCHANGED files
  /\ UNCHANGED current

\* The authority answered, with a token for the signature of this flow or a refusal.
Answered(f, granted) ==
  /\ f \in Waiting
  /\ SignFinalize(f, granted) /\ EndFlow(f)
  /\ IF gSigned' # NoFile THEN Download(f, gSigned') ELSE UNCHANGED files
  /\ UNCHANGED <<current, disturbed>>

\* The request failed and the user agrees to sign without a timestamp: the copy of the
\* document that was made, with the length of the one that is open now.  Without the
\* certificate, which may be gone, it ends with an error.
Unanswered(f, agrees, ok) ==
  /\ f \in Waiting
  /\ \/ /\ agrees /\ bundle
        /\ SignPdf(f, IF current = flow[f].doc THEN current ELSE Mangled, ok)
        /\ IF ok THEN Download(f, gSigned') ELSE UNCHANGED files
     \/ ~(agrees /\ bundle) /\ ~ok /\ UNCHANGED <<gSession, gSigned, files>>
  /\ EndFlow(f) /\ UNCHANGED <<current, disturbed>>

SignNext ==
  \/ \E d \in Opened : OpenDocument(d)
  \/ ChooseBundle \/ ClearBundle
  \/ \E f \in Flows, timestamp, ok \in BOOLEAN : DoSign(f, timestamp, ok)
  \/ \E f \in Flows, granted \in BOOLEAN : Answered(f, granted)
  \/ \E f \in Flows, agrees, ok \in BOOLEAN : Unanswered(f, agrees, ok)

---------------------------------------------------------------------------
SignTypeOK ==
  /\ current \in Opened /\ bundle \in BOOLEAN /\ disturbed \subseteq Flows
  /\ \A f \in Flows : flow[f].step \in {"new", "waiting", "ended"}
  /\ gSession.active => /\ gSession.doc \in Opened /\ gSession.signature \in Flows
                        /\ gSigned = NoFile
  /\ \A file \in files : file.file # NoFile

\* A flow that nothing came between gives a file of the document that was open when it
\* began and is named after it, with its own signature and a token over none other.
FilesAreTheFlows ==
  \A x \in files : x.flow \notin disturbed =>
    /\ x.file.doc = x.named /\ x.file.signature = x.flow
    /\ x.file.token \in {x.flow, NoToken}

\* Whatever flows and documents come between, a flow gives one file at most and a
\* signature that was prepared gets one token at most: the answer that comes after
\* the session was used is refused.
NoSignatureTwice ==
  \A x, y \in files :
    \/ x.flow = y.flow
    \/ x.file.signature = y.file.signature /\ NoToken \notin {x.file.token, y.file.token}
    => x = y
=============================================================================
