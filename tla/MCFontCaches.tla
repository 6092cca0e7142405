---------------------------- MODULE MCFontCaches ----------------------------
EXTENDS FontCaches, TLC

\* Nothing tells two addresses apart.
Symmetry == Permutations(Addresses)

Font(name, identity, program, damaged, flags, cjk) ==
  [name |-> name, identity |-> identity, base |-> "", program |-> program,
   damaged |-> damaged, flags |-> flags, cjk |-> cjk]

\* Two documents whose font files have the same object number, one of them with a
\* second page that gives the name to another font, the other with a damaged CJK font;
\* and one without programs, the fonts of which have no base name, so that every back
\* end names them alike, and one is of fixed pitch, which only its flags tell.
Letter == {Font("F1", "E5", Program("p"), FALSE, {}, FALSE), Font("F1", "E6", Program("q"), FALSE, {}, FALSE)}
Report == {Font("F1", "E5", Program("r"), FALSE, {}, FALSE), Font("F2", "E7", Program("s"), TRUE, {}, TRUE)}
Plain == {Font("F2", "F2", None, FALSE, {"fixed"}, FALSE), Font("Times", "Times", None, FALSE, {}, FALSE)}

MadeDocs == {Letter, Report, Plain}

MadeReads ==
  [b \in Backends |-> [name \in {"F1", "F2", "E5", "E6", "E7", "Times"} |->
     [category |-> IF name = "Times" THEN "serif" ELSE "sans", weight |-> 400, italic |-> FALSE]]]

\* LightVG finds a file of fixed pitch in fonts/, which ThorVG does not look for.
Styles == BOOLEAN \X BOOLEAN
MadeOnDisk ==
  [b \in Backends |-> [p \in {"sans", "serif", "mono", "cjk"} \X Styles |->
     IF p[1] = "mono" /\ b \in LightVG THEN "Cousine" ELSE ""]]

\* NANOPDF_EMBED_CJK_FONTS.
MadeEmbedded == [b \in Backends |-> {"cjk"}]

Blob(c, w, u) == [category |-> c, weight |-> w, italic |-> FALSE, usable |-> u]
MadeBlobs == {Blob("serif", 400, TRUE), Blob("serif", 700, TRUE), Blob("mono", 400, FALSE)}
=============================================================================
