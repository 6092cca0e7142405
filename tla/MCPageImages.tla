---------------------------- MODULE MCPageImages ----------------------------
(* Images 1 and 2 are plain, image 3 is an image mask, image 4 has a soft    *)
(* mask and image 5 too little data for its size.  Two documents use the     *)
(* same numbers for them.                                                    *)
EXTENDS PageImages

CONSTANTS u, v

Do(o) == [op |-> "image", obj |-> o, small |-> FALSE]
DoSmall(o) == [op |-> "image", obj |-> o, small |-> TRUE]
P == [op |-> "paint"]
S == [op |-> "state", to |-> 1]
Form(c) == [op |-> "form", content |-> c]
FillWith(t, c) == [op |-> "fill", tile |-> t, content |-> c]

\* Runs of images across changes of state and into forms; single and scaled draws;
\* draws that fail to be prepared next to ones that cannot be put off; a tile whose
\* content paints last and one whose content ends with an image; an image with a soft
\* mask alone and among others.
MCPages == {
  <<Do(1), S, Do(2), P>>,
  <<Do(1), Form(<<Do(2), S, Do(1)>>), Do(2)>>,
  <<DoSmall(1), Do(3), DoSmall(2)>>,
  <<Do(5), Do(2), Do(5), S, DoSmall(1)>>,
  <<FillWith("whole", <<Do(1), S, Do(2), P>>), Do(1), FillWith("whole", <<Do(1), S, Do(2), P>>)>>,
  <<FillWith("torn", <<P, Do(1)>>), Do(2), FillWith("torn", <<P, Do(1)>>)>>,
  <<Do(4), P>>,
  <<Do(4), Do(1), P, Do(4)>> }

\* With the contents of their forms and tiles.
MCContents ==
  MCPages \union UNION {{c[i].content : i \in {j \in DOMAIN c : c[j].op \in {"form", "fill"}}} :
                        c \in MCPages}
============================================================================
