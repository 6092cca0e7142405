---------------------------- MODULE MCPdfUpdates ----------------------------
EXTENDS PdfUpdates

\* A page with a note and a form with two fields, the second of generation 1.
Made(kind) ==
  [objs |-> << <<1, [kind |-> "catalog", form |-> 0, fields |-> <<3, 4>>]>>,
               <<2, [kind |-> "page", annots |-> <<5>>]>>,
               <<3, [kind |-> "field", value |-> "v0"]>>,
               <<4, [kind |-> "field", value |-> "v0"]>>,
               <<5, [kind |-> "note", text |-> "t0"]>> >>,
   kind |-> kind, aged |-> {4}, fields |-> {3, 4}, prev |-> 0, size |-> 6, end |-> 6]

MadeBases == {Made("table"), Made("stream")}
StreamBases == {Made("stream")}
=============================================================================
