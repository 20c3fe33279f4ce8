----------------------------- MODULE MCRenderPage -----------------------------
(***************************************************************************)
(* Small instances of RenderPage: every small tree, and one drawing after  *)
(* another that differs from a plain one in an attribute, its size, its    *)
(* text or its length.  A limit of 8192 px is 8, an area of 32 Mi is 32.   *)
(***************************************************************************)
EXTENDS RenderPage

\* An element carries something of everything the pages treat differently.
Mixed ==
  {[name |-> "event", value |-> "plain"], [name |-> "href", value |-> "anchor"],
   [name |-> "href", value |-> "plain"], [name |-> "source", value |-> "plain"],
   [name |-> "style", value |-> "remoteCSS"], [name |-> "other", value |-> "plain"]}

Tree(kind, parent) ==
  [kind |-> kind, parent |-> parent,
   attributes |-> [i \in 0..Len(kind) |->
                     IF i = 0 \/ kind[i] = "text" THEN {} ELSE Mixed]]

Trees(n, kinds) ==
  {t \in {Tree(k, p) : k \in [1..n -> kinds], p \in [1..n -> 0..n - 1]} :
     IsDrawing(t)}

\* Every tree of three nodes, and every tree of four elements of three kinds.
LegalTrees ==
  Trees(3, Kinds) \cup Trees(4, {"plain", "link", "forbidden"})

Flat == Tree(<<"plain">>, <<0>>)

Box(w, h) == [width |-> w, height |-> h]

Drawing(tree) ==
  [kind |-> tree.kind, parent |-> tree.parent,
   attributes |-> tree.attributes, hasSVG |-> TRUE,
   merror |-> FALSE, viewBox |-> Box(4, 4), bounds |-> Box(4, 4),
   length |-> [width |-> None, height |-> None], align |-> None,
   text |-> [y |-> 0, reset |-> 0, measured |-> 2],
   chars |-> 1, bytes |-> 1, opens |-> TRUE, textReadsActive |-> FALSE]

Plain == Drawing(Flat)

\* One attribute at a time, of the svg element or of the one below it.
Attributed ==
  {[Plain EXCEPT !.attributes = [i \in 0..1 |-> IF i = n THEN {a} ELSE {}]] :
     n \in 0..1, a \in Attributes}

Sides == {1, 2, 3, 7, 12, 15, 16, 17}

Texts == [y : -3..3, reset : {0}, measured : 0..2]

Lengths == {None} \cup [amount : {-6, 0, 6}, unit : {"px", "em", "ex", "pt"}]

MermaidDrawings ==
  {Drawing(t) : t \in LegalTrees}
  \cup {[Plain EXCEPT !.viewBox = Box(w, h)] : w \in Sides, h \in Sides}
  \cup {[Plain EXCEPT !.viewBox = Box(0, 4), !.bounds = Box(w, 3)] :
          w \in {0, 5, NaN}}
  \cup {[Plain EXCEPT !.text = t] : t \in Texts}
  \cup Attributed
  \cup {[Plain EXCEPT !.chars = 1, !.bytes = 5], [Plain EXCEPT !.chars = 5, !.bytes = 5],
         [Plain EXCEPT !.textReadsActive = TRUE], [Plain EXCEPT !.hasSVG = FALSE]}

MathJaxDrawings ==
  {Drawing(t) : t \in LegalTrees}
  \cup {[Plain EXCEPT !.bounds = Box(w, h), !.align = a,
                      !.length = [width |-> l, height |-> l]] :
          w \in {0, 4, 40}, h \in {0, 33}, a \in Lengths, l \in Lengths}
  \cup {[Plain EXCEPT !.chars = 1, !.bytes = 5], [Plain EXCEPT !.chars = 5, !.bytes = 5],
         [Plain EXCEPT !.hasSVG = FALSE], [Plain EXCEPT !.merror = TRUE],
         [Plain EXCEPT !.opens = FALSE]}
  \cup Attributed

\* A PNG of a byte, at the limit, too long for the host, too long for the page,
\* and one for everything else that may be wrong with it.
PNG(bytes) == [bytes |-> bytes, prefixed |-> TRUE, decodes |-> TRUE, opens |-> TRUE]
MCPNGs ==
  {PNG(1), PNG(16), PNG(17), PNG(19), [PNG(1) EXCEPT !.prefixed = FALSE],
   [PNG(1) EXCEPT !.decodes = FALSE], [PNG(1) EXCEPT !.opens = FALSE]}

MCDrawings == [mermaid |-> MermaidDrawings, mathjax |-> MathJaxDrawings]
MCDimension == [mermaid |-> 8, mathjax |-> 16]
MCArea == [mermaid |-> 32, mathjax |-> 64]
MCSVGLength == [mermaid |-> 4, mathjax |-> 2]
=============================================================================
